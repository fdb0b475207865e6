------------------------------- MODULE UsbHost ------------------------------
(***************************************************************************)
(* The keyboard's way into the game: the firmware's main loop (main.c),    *)
(* the interrupt handler and the initialisation of the MAX3421E host       *)
(* controller (MAX3421E.c), the USB state machine USB_Task (transfer.c)    *)
(* and the HID probes (HID.c), against the controller, the bus and the     *)
(* user who plugs and unplugs a device at any time.                        *)
(*                                                                         *)
(* The firmware is one thread; pc is the place in its loop between two     *)
(* accesses to the controller whose order matters.  A control transfer is  *)
(* one step, as ControlTransfer shows: it succeeds, or fails because the   *)
(* device is not there, does not answer at that address, or the bus        *)
(* disturbs it.                                                            *)
(***************************************************************************)
EXTENDS Integers

CONSTANTS NumDevices,    \* USB_NUMDEVICES: addresses 1 .. NumDevices - 1
          Keys,          \* usage codes that a keyboard may report
          MaxPlugs,      \* bound: how often a device is plugged in
          MaxFaults,     \* bound: transfers that fail with a device present
          MaxDetects     \* bound: spurious connection detect interrupts

ASSUME UsbAssumption ==
  /\ NumDevices \in Nat /\ NumDevices >= 2
  /\ Keys # {}
  /\ MaxPlugs \in Nat /\ MaxFaults \in Nat /\ MaxDetects \in Nat

\* usb_task_state (USB.h)
INITIALIZE          == 1
WAIT_FOR_DEVICE     == 3
ILLEGAL             == 4
ATTACHED            == 16
SETTLE              == 17
RESET_DEVICE        == 18
WAIT_RESET_COMPLETE == 19
WAIT_SOF            == 20
GET_DESCRIPTOR_SIZE == 21
ADDRESSING          == 32
CONFIGURING         == 48
RUNNING             == 64
ERROR               == 255

\* usb_task_state & USB_STATE_MASK
Class(s) == s \div 16
IsDetached(s) == Class(s) = 0

Kinds == {"keyboard", "mouse", "other"}
NotReset == -1           \* a device that has not seen a bus reset is mute
Addresses == 1 .. NumDevices - 1

VARIABLES
  \* the firmware
  pc, usb_task_state,
  hirqBusEvent,                \* BUSEVENTIRQ in the HIRQ value that was read
  epinfo, devclass,            \* devtable
  tmp_addr, hid_addr,          \* hid_addr: hid_device.addr
  runningdebugflag, device,    \* main's locals
  keycode,                     \* the PIO register that the game reads
  settle,                      \* usb_delay against the clock
  \* the controller
  condet, busevent,            \* CONDETIRQ, BUSEVENTIRQ
  busrst,                      \* BUSRST: a bus reset is being driven
  sofka,                       \* SOFKAENAB: frames are generated
  sof,                         \* a frame began since the last bus reset
  \* the bus and the user
  line, plugged, devaddr, plugs, faults, detects,
  missed                       \* history: the line last changed between a
                               \* read of HRSL and the write that clears
                               \* CONDETIRQ

host == <<usb_task_state, epinfo, devclass, tmp_addr, hid_addr, keycode, settle>>
loop == <<hirqBusEvent, runningdebugflag, device>>
chip == <<condet, busevent, busrst, sofka, sof>>
bus  == <<line, plugged, devaddr, plugs, faults, detects, missed>>
vars == <<pc, host, loop, chip, bus>>

-----------------------------------------------------------------------------
Init ==
  /\ pc = "reset" /\ usb_task_state = INITIALIZE
  /\ hirqBusEvent = FALSE
  /\ epinfo = [a \in Addresses |-> "null"]
  /\ devclass = [a \in Addresses |-> "none"]
  /\ tmp_addr = 0 /\ hid_addr = 0
  /\ runningdebugflag = FALSE /\ device = "none"
  /\ keycode = "none"
  /\ settle = "expired"
  /\ condet = FALSE /\ busevent = FALSE /\ busrst = FALSE
  /\ sofka = FALSE /\ sof = FALSE
  /\ line = "SE0" /\ plugged = "none" /\ devaddr = NotReset
  /\ plugs = MaxPlugs /\ faults = MaxFaults /\ detects = MaxDetects
  /\ missed = FALSE

GoTo(place) == pc' = place

-----------------------------------------------------------------------------
(* MAX3421E.c                                                              *)

\* MAX3421E_reset and the register setup of MAX3421E_init.
ResetChip ==
  /\ pc = "reset" /\ GoTo("initprobe")
  /\ condet' = FALSE /\ busevent' = FALSE /\ busrst' = FALSE
  /\ sofka' = FALSE /\ sof' = FALSE
  /\ UNCHANGED <<host, loop, bus>>

\* Mutant of ProbeAttached: a device counts as new only in a detached state.
ProbeAttachedIfDetached ==
  /\ line = "JK"
  /\ \/ /\ IsDetached(usb_task_state)
        /\ usb_task_state' = ATTACHED
        /\ sofka' = TRUE
     \/ /\ ~IsDetached(usb_task_state)
        /\ UNCHANGED <<usb_task_state, sofka>>

\* A device pulls the line: start over, unless a bus reset raised the
\* interrupt.  (Full and low speed take the same way.)
ProbeAttached ==
  /\ line = "JK"
  /\ \/ /\ usb_task_state # WAIT_RESET_COMPLETE
        /\ usb_task_state' = ATTACHED
        /\ sofka' = TRUE
     \/ /\ usb_task_state = WAIT_RESET_COMPLETE
        /\ UNCHANGED <<usb_task_state, sofka>>

ProbeIllegal ==
  /\ line = "SE1"
  /\ usb_task_state' = ILLEGAL
  /\ UNCHANGED sofka

\* Mutant of ProbeDetached: interrupts of a bus reset are ignored here, too.
ProbeDetachedUnlessReset ==
  /\ line = "SE0"
  /\ \/ /\ IsDetached(usb_task_state)
        /\ usb_task_state' = WAIT_FOR_DEVICE
        /\ sofka' = TRUE
     \/ /\ usb_task_state = WAIT_RESET_COMPLETE
        /\ UNCHANGED <<usb_task_state, sofka>>
     \/ /\ ~IsDetached(usb_task_state) /\ usb_task_state # WAIT_RESET_COMPLETE
        /\ usb_task_state' = INITIALIZE
        /\ UNCHANGED sofka

ProbeDetached ==
  /\ line = "SE0"
  /\ \/ /\ ~IsDetached(usb_task_state)
        /\ usb_task_state' = INITIALIZE
        /\ UNCHANGED sofka
     \/ /\ IsDetached(usb_task_state)
        /\ usb_task_state' = WAIT_FOR_DEVICE
        /\ sofka' = TRUE

MAX_busprobe ==
  /\ ProbeAttached \/ ProbeIllegal \/ ProbeDetached
  /\ UNCHANGED <<epinfo, devclass, tmp_addr, hid_addr, keycode, settle,
                 loop, condet, busevent, busrst, sof, bus>>

InitProbe == pc = "initprobe" /\ GoTo("initack") /\ MAX_busprobe

\* The end of MAX3421E_init clears the interrupt; USB_init follows.
USB_init == /\ epinfo' = [a \in Addresses |-> "null"]
            /\ devclass' = [a \in Addresses |-> "none"]

InitAck ==
  /\ pc = "initack" /\ GoTo("task")
  /\ condet' = FALSE
  /\ USB_init
  /\ UNCHANGED <<usb_task_state, tmp_addr, hid_addr, keycode, settle, loop,
                 busevent, busrst, sofka, sof, bus>>

\* MAX3421E_Task: the pin is low while CONDETIRQ, the only one enabled, is
\* set; the handler reads HIRQ ...
Interrupt ==
  /\ pc = "task" /\ condet /\ GoTo("probe")
  /\ hirqBusEvent' = busevent
  /\ UNCHANGED <<host, runningdebugflag, device, chip, bus>>

NoInterrupt ==
  /\ pc = "task" /\ ~condet /\ GoTo("usb")
  /\ UNCHANGED <<host, loop, chip, bus>>

\* ... probes the bus ...
Probe == pc = "probe" /\ GoTo("ack") /\ MAX_busprobe

\* ... advances the state machine by a bus event and clears what it read.
Ack ==
  /\ pc = "ack" /\ GoTo("usb")
  /\ usb_task_state' = IF hirqBusEvent THEN (usb_task_state + 1) % 256
                       ELSE usb_task_state
  /\ condet' = FALSE
  /\ busevent' = (busevent /\ ~hirqBusEvent)
  /\ UNCHANGED <<epinfo, devclass, tmp_addr, hid_addr, keycode, settle, loop,
                 busrst, sofka, sof, bus>>

-----------------------------------------------------------------------------
(* USB_Task (transfer.c): one step of the state machine per loop.          *)

Answers(a) == line = "JK" /\ ~busrst /\ devaddr = a

\* A transfer with a device that answers fails at most MaxFaults times.
TransferFails(a) ==
  \/ ~Answers(a) /\ UNCHANGED faults
  \/ Answers(a) /\ faults > 0 /\ faults' = faults - 1

UsbStep(from) == pc = "usb" /\ usb_task_state = from /\ GoTo("main")

Initialize ==
  /\ UsbStep(INITIALIZE)
  /\ USB_init
  /\ usb_task_state' = WAIT_FOR_DEVICE
  /\ UNCHANGED <<tmp_addr, hid_addr, keycode, settle, loop, chip, bus>>

StartSettle ==
  /\ UsbStep(ATTACHED)
  /\ settle' = "running"
  /\ usb_task_state' = SETTLE
  /\ UNCHANGED <<epinfo, devclass, tmp_addr, hid_addr, keycode, loop, chip, bus>>

Settled ==
  /\ UsbStep(SETTLE) /\ settle = "expired"
  /\ usb_task_state' = RESET_DEVICE
  /\ UNCHANGED <<epinfo, devclass, tmp_addr, hid_addr, keycode, settle,
                 loop, chip, bus>>

\* Mutant of ResetDevice: an old bus event is not cleared first.
ResetDeviceOnly ==
  /\ UsbStep(RESET_DEVICE)
  /\ busrst' = TRUE /\ sof' = FALSE
  /\ usb_task_state' = WAIT_RESET_COMPLETE
  /\ UNCHANGED <<epinfo, devclass, tmp_addr, hid_addr, keycode, settle,
                 loop, condet, busevent, sofka, bus>>

ResetDevice ==
  /\ UsbStep(RESET_DEVICE)
  /\ busevent' = FALSE
  /\ busrst' = TRUE /\ sof' = FALSE
  /\ usb_task_state' = WAIT_RESET_COMPLETE
  /\ UNCHANGED <<epinfo, devclass, tmp_addr, hid_addr, keycode, settle,
                 loop, condet, sofka, bus>>

ResetComplete ==
  /\ UsbStep(WAIT_RESET_COMPLETE) /\ ~busrst
  /\ sofka' = TRUE
  /\ usb_task_state' = WAIT_SOF
  /\ UNCHANGED <<epinfo, devclass, tmp_addr, hid_addr, keycode, settle,
                 loop, condet, busevent, busrst, sof, bus>>

\* HIRQ | bmFRAMEIRQ is never zero.
FirstSof ==
  /\ UsbStep(WAIT_SOF)
  /\ usb_task_state' = GET_DESCRIPTOR_SIZE
  /\ UNCHANGED <<epinfo, devclass, tmp_addr, hid_addr, keycode, settle,
                 loop, chip, bus>>

\* The state waits for the clock or the controller.
UsbWait ==
  /\ \/ UsbStep(SETTLE) /\ settle # "expired"
     \/ UsbStep(WAIT_RESET_COMPLETE) /\ busrst
  /\ UNCHANGED <<host, loop, chip, bus>>

\* Only the first of the descriptor transfers decides.
GetDescriptorSize ==
  /\ UsbStep(GET_DESCRIPTOR_SIZE)
  /\ \/ Answers(0) /\ usb_task_state' = ADDRESSING /\ UNCHANGED faults
     \/ TransferFails(0) /\ usb_task_state' = ERROR
  /\ UNCHANGED <<epinfo, devclass, tmp_addr, hid_addr, keycode, settle, loop,
                 chip, line, plugged, devaddr, plugs, detects, missed>>

IsFree(a) == epinfo[a] = "null"

\* Mutant of Address: the loop counter is read after it was advanced.
AddressAfterLoop ==
  /\ UsbStep(ADDRESSING)
  /\ \E a \in Addresses :
       /\ IsFree(a) /\ \A b \in Addresses : b < a => ~IsFree(b)
       /\ epinfo' = [epinfo EXCEPT ![a] = "dev0"]
       /\ \/ /\ Answers(0) /\ tmp_addr' = a + 1
             /\ devaddr' = a /\ UNCHANGED faults
             /\ usb_task_state' = CONFIGURING
          \/ /\ TransferFails(0) /\ usb_task_state' = ERROR
             /\ UNCHANGED <<devaddr, tmp_addr>>
  /\ UNCHANGED <<devclass, hid_addr, keycode, settle, loop, chip,
                 line, plugged, plugs, detects, missed>>

\* The device gets the lowest address that has no record.  The record stays
\* when SET_ADDRESS fails.  The device may have taken the address all the same,
\* and may not have when the last acknowledgement of a success was lost.
Address ==
  /\ UsbStep(ADDRESSING)
  /\ \E a \in Addresses :
       /\ IsFree(a) /\ \A b \in Addresses : b < a => ~IsFree(b)
       /\ epinfo' = [epinfo EXCEPT ![a] = "dev0"]
       /\ \/ /\ Answers(0) /\ tmp_addr' = a
             /\ \/ devaddr' = a /\ UNCHANGED faults
                \/ devaddr' = 0 /\ faults > 0 /\ faults' = faults - 1
             /\ usb_task_state' = CONFIGURING
          \/ /\ TransferFails(0)
             /\ devaddr' \in IF Answers(0) THEN {0, a} ELSE {devaddr}
             /\ usb_task_state' = ERROR
             /\ UNCHANGED tmp_addr
  /\ UNCHANGED <<devclass, hid_addr, keycode, settle, loop, chip,
                 line, plugged, plugs, detects, missed>>

NoAddress ==
  /\ UsbStep(ADDRESSING)
  /\ \A a \in Addresses : ~IsFree(a)
  /\ usb_task_state' = ERROR
  /\ UNCHANGED <<epinfo, devclass, tmp_addr, hid_addr, keycode, settle,
                 loop, chip, bus>>

\* HIDMProbe or HIDKProbe has found its interface descriptor.
Match(kind) ==
  /\ devclass' = [devclass EXCEPT ![tmp_addr] = kind]
  /\ epinfo' = [epinfo EXCEPT ![tmp_addr] = "hid"]
  /\ hid_addr' = tmp_addr

HidKinds == {"keyboard", "mouse"}

Configure ==
  /\ UsbStep(CONFIGURING)
  /\ Answers(tmp_addr) /\ plugged \in HidKinds
  /\ Match(plugged)
  /\ usb_task_state' = RUNNING
  /\ UNCHANGED <<tmp_addr, keycode, settle, loop, chip, bus>>

\* No driver takes the device, or a transfer fails before the interface is
\* known, or after it was entered in the device's record.
ConfigureFails ==
  /\ UsbStep(CONFIGURING)
  /\ \/ plugged = "other" /\ UNCHANGED <<faults, epinfo, devclass, hid_addr>>
     \/ /\ TransferFails(tmp_addr)
        /\ \/ UNCHANGED <<epinfo, devclass, hid_addr>>
           \/ \E kind \in HidKinds : plugged \in {kind, "none"} /\ Match(kind)
  /\ usb_task_state' = ERROR
  /\ UNCHANGED <<tmp_addr, keycode, settle, loop, chip,
                 line, plugged, devaddr, plugs, detects, missed>>

\* States in which USB_Task does nothing, with the substates that only the
\* increment in the interrupt handler reaches.
UsbIdle ==
  /\ pc = "usb" /\ GoTo("main")
  /\ usb_task_state \notin {INITIALIZE, ATTACHED, SETTLE, RESET_DEVICE,
       WAIT_RESET_COMPLETE, WAIT_SOF, GET_DESCRIPTOR_SIZE, ADDRESSING, CONFIGURING}
  /\ UNCHANGED <<host, loop, chip, bus>>

USB_Task == \/ Initialize \/ StartSettle \/ Settled \/ ResetDevice
            \/ ResetComplete \/ FirstSof \/ UsbWait \/ GetDescriptorSize
            \/ Address \/ NoAddress \/ Configure \/ ConfigureFails \/ UsbIdle

-----------------------------------------------------------------------------
(* main (main.c)                                                           *)

\* Mutant of GetDriverandReport: the first record instead of the last.
FirstRecord ==
  /\ pc = "main" /\ usb_task_state = RUNNING /\ ~runningdebugflag
  /\ GoTo("task")
  /\ runningdebugflag' = TRUE
  /\ \E a \in Addresses :
       /\ ~IsFree(a) /\ \A b \in Addresses : b < a => IsFree(b)
       /\ device' = devclass[a]
  /\ UNCHANGED <<host, hirqBusEvent, chip, bus>>

\* The class of the last record; the two queries that follow only print.
GetDriverandReport ==
  /\ pc = "main" /\ usb_task_state = RUNNING /\ ~runningdebugflag
  /\ GoTo("task")
  /\ runningdebugflag' = TRUE
  /\ \E a \in Addresses :
       /\ ~IsFree(a) /\ \A b \in Addresses : b > a => IsFree(b)
       /\ device' = devclass[a]
  /\ UNCHANGED <<host, hirqBusEvent, chip, bus>>

Polling == pc = "main" /\ usb_task_state = RUNNING /\ runningdebugflag

\* kbdPoll: a report writes the keycode register.
Poll ==
  /\ Polling /\ GoTo("task")
  /\ device = "keyboard" /\ Answers(hid_addr)
  /\ keycode' \in Keys
  /\ UNCHANGED <<usb_task_state, epinfo, devclass, tmp_addr, hid_addr, settle,
                 loop, chip, bus>>

\* A NAK, an error or a mouse: nothing reaches the game.
PollNothing ==
  /\ Polling /\ GoTo("task")
  /\ UNCHANGED <<host, loop, chip, bus>>

\* No longer running: reset the USB hardware and start over.
Reinitialize ==
  /\ pc = "main" /\ usb_task_state \notin {RUNNING, ERROR}
  /\ runningdebugflag
  /\ runningdebugflag' = FALSE
  /\ GoTo("reset")
  /\ UNCHANGED <<host, hirqBusEvent, device, chip, bus>>

MainIdle ==
  /\ pc = "main" /\ usb_task_state # RUNNING
  /\ usb_task_state = ERROR \/ ~runningdebugflag
  /\ GoTo("task")
  /\ UNCHANGED <<host, loop, chip, bus>>

Firmware == \/ ResetChip \/ InitProbe \/ InitAck
            \/ Interrupt \/ NoInterrupt \/ Probe \/ Ack
            \/ USB_Task
            \/ GetDriverandReport \/ Poll \/ PollNothing
            \/ Reinitialize \/ MainIdle

-----------------------------------------------------------------------------
(* The controller, the clock, the bus and the user.                        *)

\* A bus reset ends: the device has address 0.
BusResetDone ==
  /\ busrst
  /\ busrst' = FALSE /\ busevent' = TRUE
  /\ devaddr' = IF plugged = "none" THEN devaddr ELSE 0
  /\ UNCHANGED <<pc, host, loop, condet, sofka, sof,
                 line, plugged, plugs, faults, detects, missed>>

\* "bus reset causes connection detect interrupt" (MAX3421E.c:202)
BusResetDetect ==
  /\ busrst /\ ~condet /\ detects > 0
  /\ condet' = TRUE
  /\ detects' = detects - 1
  /\ UNCHANGED <<pc, host, loop, busevent, busrst, sofka, sof,
                 line, plugged, devaddr, plugs, faults, missed>>

Frame ==
  /\ sofka /\ ~busrst /\ ~sof
  /\ sof' = TRUE
  /\ UNCHANGED <<pc, host, loop, condet, busevent, busrst, sofka, bus>>

SettleElapses ==
  /\ settle = "running"
  /\ settle' = "expired"
  /\ UNCHANGED <<pc, usb_task_state, epinfo, devclass, tmp_addr, hid_addr,
                 keycode, loop, chip, bus>>

\* Every change of the line sets CONDETIRQ, which is still to be cleared when
\* it is set a second time.
LineChanges ==
  /\ condet' = TRUE
  /\ missed' = (pc \in {"ack", "initack"})
  /\ UNCHANGED <<pc, host, loop, busevent, busrst, sofka, sof, faults, detects>>

\* A plug may first be seen with both data lines high.
Plug(kind) ==
  /\ line = "SE0" /\ plugs > 0
  /\ plugs' = plugs - 1
  /\ plugged' = kind /\ devaddr' = NotReset
  /\ line' \in {"JK", "SE1"}
  /\ LineChanges

PlugsIn ==
  /\ line = "SE1"
  /\ line' = "JK"
  /\ UNCHANGED <<plugged, devaddr, plugs>>
  /\ LineChanges

Unplug ==
  /\ line # "SE0"
  /\ line' = "SE0" /\ plugged' = "none" /\ devaddr' = NotReset
  /\ UNCHANGED plugs
  /\ LineChanges

Environment == \/ BusResetDone \/ BusResetDetect \/ Frame \/ SettleElapses
               \/ (\E kind \in Kinds : Plug(kind)) \/ PlugsIn \/ Unplug

Next == Firmware \/ Environment

\* The loop runs for ever and every transfer ends (USB_XFER_TIMEOUT); a bus
\* reset and the settle time end; a plug goes all the way in or out again.
Fairness == /\ WF_vars(Firmware)
            /\ WF_vars(BusResetDone) /\ WF_vars(SettleElapses)
            /\ WF_vars(PlugsIn)

Spec == Init /\ [][Next]_vars /\ Fairness
-----------------------------------------------------------------------------
TypeOK ==
  /\ pc \in {"reset", "initprobe", "initack", "task", "probe", "ack", "usb", "main"}
  /\ usb_task_state \in 0..255
  /\ epinfo \in [Addresses -> {"null", "dev0", "hid"}]
  /\ devclass \in [Addresses -> {"none"} \cup HidKinds]
  /\ tmp_addr \in {0} \cup Addresses /\ hid_addr \in {0} \cup Addresses
  /\ device \in {"none"} \cup HidKinds
  /\ keycode \in {"none"} \cup Keys
  /\ settle \in {"running", "expired"}
  /\ {hirqBusEvent, runningdebugflag, condet, busevent, busrst, sofka, sof, missed}
       \subseteq BOOLEAN
  /\ line \in {"SE0", "SE1", "JK"} /\ plugged \in {"none"} \cup Kinds
  /\ devaddr \in {NotReset, 0} \cup Addresses
  /\ plugs \in 0..MaxPlugs /\ faults \in 0..MaxFaults /\ detects \in 0..MaxDetects

\* No frame or transfer is asked of a bus that is still in reset: the old bus
\* event is cleared before the reset, so that only the reset's own event can
\* advance the state machine past it (transfer.c:286, MAX3421E.c:287-288).
NoTransferInReset ==
  usb_task_state \in {WAIT_SOF, GET_DESCRIPTOR_SIZE, ADDRESSING, CONFIGURING, RUNNING}
    => ~busrst

\* main polls an endpoint that a probe filled in, and as the device that the
\* probe found: the record at hid_device.addr is never cleared under a poll,
\* although the interrupt handler may clear records at any loop, and the record
\* that main looks at is not one left over by a failed attempt (main.c:33-40,158,
\* HID.c:218-220).
PolledAsProbed ==
  Polling => /\ hid_addr \in Addresses /\ epinfo[hid_addr] = "hid"
             /\ device = devclass[hid_addr] /\ device \in HidKinds

\* What the host believes and what is on the bus differ only while a connection
\* interrupt is pending, unless the line changed between a probe and its
\* acknowledgement: a device that is taken to run is still the one that was
\* addressed, and one that is plugged in is seen at the top of the loop
\* (MAX3421E.c:192-237,253-256,279-293).
ChangesAreNoticed ==
  ~missed =>
    /\ usb_task_state = RUNNING => devaddr = hid_addr \/ condet
    /\ pc = "task" /\ line = "JK" /\ IsDetached(usb_task_state) => condet

\* A device that stays plugged in is enumerated or given up as an error, and
\* that for good, whatever enumeration it interrupted.
AttachmentEnds ==
  <>[](line = "JK" /\ ~missed) => <>[](usb_task_state \in {RUNNING, ERROR})

\* A device that is pulled out is given up for good.
DetachmentEnds ==
  <>[](line = "SE0" /\ ~missed) => <>[]IsDetached(usb_task_state)

-----------------------------------------------------------------------------
\* transfer.c:256 says of the detached state "when nothing is connected to
\* (or just disconnected from) USB bus": a device that stays connected does not
\* find the host waiting for a device for ever.
DetachedMeansNothingConnected ==
  (line = "JK" /\ usb_task_state = WAIT_FOR_DEVICE) ~>
    ~(line = "JK" /\ usb_task_state = WAIT_FOR_DEVICE)
=============================================================================
