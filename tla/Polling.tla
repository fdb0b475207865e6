------------------------------ MODULE Polling -------------------------------
(***************************************************************************)
(* The keyboard poll of the main loop: kbdPoll (HID.c), XferInTransfer and *)
(* XferDispatchPkt (transfer.c), with the data toggles by which host and   *)
(* device tell a new report from one that is sent again, the retries, and  *)
(* the limits of NAKs and bus timeouts.                                    *)
(*                                                                         *)
(* A poll asks for one packet: a boot report is no longer than the 8 bytes *)
(* asked for and the endpoint's packet size.  The controller ends every    *)
(* transfer well before the deadline of 5 seconds.                         *)
(***************************************************************************)
EXTENDS Integers

CONSTANTS NakLimit,      \* USB_NAK_LIMIT, 200
          RetryLimit,    \* USB_RETRY_LIMIT, 3
          MaxReports,    \* bound: reports that are made
          MaxLosses,     \* bound: packets that the bus loses
          MaxPlugs       \* bound: how often the keyboard is plugged in again

ASSUME PollingAssumption ==
  /\ NakLimit \in 1..255 /\ RetryLimit \in 1..127
  /\ MaxReports \in Nat /\ MaxLosses \in Nat /\ MaxPlugs \in Nat

VARIABLES
  \* the firmware
  pc,                       \* "idle", "launch", "wait" or "read"
  rcvToggle,                \* of hid_ep[1]
  nak_count, retry_count,   \* of XferDispatchPkt
  \* the controller
  toggle,                   \* the toggle that it expects next, RCVTOGRD
  busy, hrsl,               \* a transfer is on the bus; the last result
  rcvdav, fifo,             \* a packet was received: the number of its report
  \* the keyboard
  present, devToggle,
  pending,                  \* a report waits for its acknowledgement
  \* reports are numbered
  made,                     \* reports that the keyboard has made, the last pending
  shown,                    \* the report in the keycode register
  losses, plugs             \* what is left of the bounds

firmware == <<pc, rcvToggle, nak_count, retry_count>>
chip == <<toggle, busy, hrsl, rcvdav, fifo>>
keyboard == <<present, devToggle, pending>>
vars == <<firmware, chip, keyboard, made, shown, losses, plugs>>

Results == {"success", "NAK", "TOGERR", "TIMEOUT", "error"}

-----------------------------------------------------------------------------
Init == /\ pc = "idle" /\ rcvToggle = 0 /\ nak_count = 0 /\ retry_count = 0
        /\ toggle = 0 /\ busy = FALSE /\ hrsl = "success"
        /\ rcvdav = FALSE /\ fifo = 0
        /\ present = TRUE /\ devToggle = 0 /\ pending = FALSE
        /\ made = 0 /\ shown = 0
        /\ losses = MaxLosses /\ plugs = MaxPlugs

-----------------------------------------------------------------------------
(* The firmware.                                                           *)

\* kbdPoll calls XferInTransfer: the saved toggle goes to the controller.
StartPoll ==
  /\ pc = "idle" /\ pc' = "launch"
  /\ toggle' = rcvToggle
  /\ nak_count' = 0 /\ retry_count' = 0
  /\ UNCHANGED <<rcvToggle, busy, hrsl, rcvdav, fifo, keyboard, made, shown,
                 losses, plugs>>

Launch ==
  /\ pc = "launch" /\ pc' = "wait"
  /\ busy' = TRUE
  /\ UNCHANGED <<rcvToggle, nak_count, retry_count, toggle, hrsl, rcvdav, fifo,
                 keyboard, made, shown, losses, plugs>>

Done == pc = "wait" /\ ~busy

\* Mutant of Nak: only NAKs in a row count.
NakForever ==
  /\ Done /\ hrsl = "NAK"
  /\ UNCHANGED nak_count
  /\ pc' = "launch"
  /\ UNCHANGED <<rcvToggle, retry_count, chip, keyboard, made, shown, losses, plugs>>

Nak ==
  /\ Done /\ hrsl = "NAK"
  /\ nak_count' = nak_count + 1
  /\ pc' = IF nak_count' = NakLimit THEN "idle" ELSE "launch"
  /\ UNCHANGED <<rcvToggle, retry_count, chip, keyboard, made, shown, losses, plugs>>

Retry ==
  /\ Done /\ hrsl = "TIMEOUT"
  /\ retry_count' = retry_count + 1
  /\ pc' = IF retry_count' = RetryLimit THEN "idle" ELSE "launch"
  /\ UNCHANGED <<rcvToggle, nak_count, chip, keyboard, made, shown, losses, plugs>>

\* A toggle error or any other, or no packet (0xf0): the poll is given up.
GiveUp ==
  /\ Done /\ hrsl \notin {"NAK", "TIMEOUT"}
  /\ ~(hrsl = "success" /\ rcvdav)
  /\ pc' = "idle"
  /\ UNCHANGED <<rcvToggle, nak_count, retry_count, chip, keyboard, made, shown,
                 losses, plugs>>

Received ==
  /\ Done /\ hrsl = "success" /\ rcvdav
  /\ pc' = "read"
  /\ UNCHANGED <<rcvToggle, nak_count, retry_count, chip, keyboard, made, shown,
                 losses, plugs>>

\* The packet is read, the toggle saved, and main writes the keycode.
Read ==
  /\ pc = "read" /\ pc' = "idle"
  /\ rcvdav' = FALSE
  /\ rcvToggle' = toggle
  /\ shown' = fifo
  /\ UNCHANGED <<nak_count, retry_count, toggle, busy, hrsl, fifo, keyboard, made,
                 losses, plugs>>

Firmware == \/ StartPoll \/ Launch
            \/ Nak \/ Retry \/ GiveUp \/ Received \/ Read

\* Mutant of Enumerate: the class driver's endpoints are not initialized again.
EnumerateOnly ==
  /\ pc = "idle" /\ ~present /\ plugs > 0
  /\ plugs' = plugs - 1
  /\ present' = TRUE /\ devToggle' = 0 /\ pending' = FALSE
  /\ made' = shown
  /\ UNCHANGED <<firmware, chip, shown, losses>>

\* A keyboard is plugged in and enumerated, between two polls: SET_CONFIGURATION
\* resets the device's toggle and HID_init, which HIDKProbe calls, the host's.
Enumerate ==
  /\ pc = "idle" /\ ~present /\ plugs > 0
  /\ plugs' = plugs - 1
  /\ present' = TRUE /\ devToggle' = 0 /\ pending' = FALSE
  /\ rcvToggle' = 0
  /\ made' = shown
  /\ UNCHANGED <<pc, nak_count, retry_count, chip, shown, losses>>

-----------------------------------------------------------------------------
(* The controller, the bus and the keyboard.                               *)

Answer(result) == /\ busy /\ busy' = FALSE
                  /\ hrsl' = result
                  /\ UNCHANGED <<firmware, present, made, shown, plugs>>

\* The controller acknowledges; the keyboard hears it unless the bus loses it.
Acknowledge ==
  \/ /\ pending' = FALSE
     /\ devToggle' = 1 - devToggle
     /\ UNCHANGED losses
  \/ /\ losses > 0 /\ losses' = losses - 1
     /\ UNCHANGED <<pending, devToggle>>

NothingToReport ==
  /\ present /\ ~pending
  /\ Answer("NAK")
  /\ UNCHANGED <<toggle, rcvdav, fifo, pending, devToggle, losses>>

NewReport ==
  /\ present /\ pending /\ devToggle = toggle
  /\ Answer("success")
  /\ rcvdav' = TRUE /\ fifo' = made
  /\ toggle' = 1 - toggle
  /\ Acknowledge

\* The controller drops a packet with the other toggle.
OldReport ==
  /\ present /\ pending /\ devToggle # toggle
  /\ Answer("TOGERR")
  /\ UNCHANGED <<toggle, rcvdav, fifo>>
  /\ Acknowledge

\* The request or the report is lost or disturbed.
Lost ==
  /\ present /\ losses > 0 /\ losses' = losses - 1
  /\ \E result \in {"TIMEOUT", "error"} : Answer(result)
  /\ UNCHANGED <<toggle, rcvdav, fifo, pending, devToggle>>

NobodyThere ==
  /\ ~present
  /\ Answer("TIMEOUT")
  /\ UNCHANGED <<toggle, rcvdav, fifo, pending, devToggle, losses>>

Transfer == NothingToReport \/ NewReport \/ OldReport \/ Lost \/ NobodyThere

MakeReport ==
  /\ present /\ ~pending /\ made < MaxReports
  /\ pending' = TRUE /\ made' = made + 1
  /\ UNCHANGED <<firmware, chip, present, devToggle, shown, losses, plugs>>

Unplug ==
  /\ present /\ present' = FALSE
  /\ UNCHANGED <<firmware, chip, devToggle, pending, made, shown, losses, plugs>>

Next == Firmware \/ Enumerate \/ Transfer \/ MakeReport \/ Unplug

\* The main loop goes round and the controller ends what was launched.
Spec == Init /\ [][Next]_vars /\ WF_vars(Firmware) /\ WF_vars(Transfer)
-----------------------------------------------------------------------------
TypeOK == /\ pc \in {"idle", "launch", "wait", "read"}
          /\ {rcvToggle, toggle, devToggle} \subseteq 0..1
          /\ nak_count \in 0..NakLimit /\ retry_count \in 0..RetryLimit
          /\ hrsl \in Results
          /\ {busy, rcvdav, present, pending} \subseteq BOOLEAN
          /\ {made, shown, fifo} \subseteq 0..MaxReports
          /\ losses \in 0..MaxLosses /\ plugs \in 0..MaxPlugs

\* A packet that is taken for a new report is the one after the last report
\* shown, whatever packet or acknowledgement was lost: none is shown twice and
\* none is passed over (transfer.c:198,215-223).
NextReport == pc = "read" => fifo = shown + 1

\* Between polls the saved toggle is the keyboard's, unless the keyboard is
\* about to send again what was shown.  The controller's own toggle is not
\* trusted (transfer.c:198, HID.c:157).
TogglesAgree ==
  pc = "idle" /\ present =>
    (rcvToggle = devToggle) = ~(pending /\ made = shown)

\* Every report is shown once and in order.
Delivery == INSTANCE ReportDelivery
DeliversReports == Delivery!Spec

\* Every poll ends, whatever the keyboard answers: NAKs and bus timeouts are
\* counted over the whole poll (transfer.c:165-182).
PollEnds == pc # "idle" ~> pc = "idle"

\* A report of a keyboard that stays plugged in is shown.
ReportsArrive ==
  \A n \in 1..MaxReports : made = n /\ shown < n ~> shown >= n \/ ~present
=============================================================================
