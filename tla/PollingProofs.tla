---------------------------- MODULE PollingProofs ---------------------------
(***************************************************************************)
(* The keyboard poll, for any limits, any number of reports, of packets    *)
(* lost and of keyboards.                                                  *)
(***************************************************************************)
EXTENDS Polling, TLAPS

\* A packet in the controller's buffer counts as taken: last is the report
\* that the host has, expected the toggle of the report that it wants next.
last == IF rcvdav THEN fifo ELSE shown
expected == IF rcvdav THEN toggle ELSE rcvToggle

\* Where in a poll the controller is busy and holds a packet.
Phases == /\ busy => pc = "wait"
          /\ rcvdav => ~busy /\ hrsl = "success" /\ pc \in {"wait", "read"}
          /\ pc = "read" => rcvdav

\* The controller uses the saved toggle until it has received a packet.
Toggles == /\ pc \in {"launch", "wait"} /\ ~rcvdav => toggle = rcvToggle
           /\ rcvdav => toggle = 1 - rcvToggle

\* A poll that goes on has not reached a limit.
Counts == pc \in {"launch", "wait"} =>
            nak_count < NakLimit /\ retry_count < RetryLimit

\* The keyboard is at most one report ahead, and its toggle is the one that
\* the host expects unless it is about to send the last report again.
InStep == /\ rcvdav => fifo = shown + 1
          /\ made = last \/ (made = last + 1 /\ pending)
          /\ expected = devToggle <=> ~(pending /\ made = last)

\* The inductive invariant.
Inv == TypeOK /\ Phases /\ Toggles /\ Counts /\ InStep

-----------------------------------------------------------------------------
LEMMA InitInv == Init => Inv
<1> SUFFICES ASSUME Init PROVE Inv
  OBVIOUS
<1>1. TypeOK
  <2>1. {rcvToggle, toggle, devToggle} \subseteq 0..1
    BY DEF Init
  <2>2. {busy, rcvdav, present, pending} \subseteq BOOLEAN
    BY DEF Init
  <2>3. {made, shown, fifo} \subseteq 0..MaxReports
    BY PollingAssumption DEF Init
  <2>4. losses \in 0..MaxLosses /\ plugs \in 0..MaxPlugs
    BY PollingAssumption DEF Init
  <2>5. nak_count \in 0..NakLimit /\ retry_count \in 0..RetryLimit
    BY PollingAssumption DEF Init
  <2>6. pc \in {"idle", "launch", "wait", "read"} /\ hrsl \in Results
    BY DEF Init, Results
  <2> QED
    BY <2>1, <2>2, <2>3, <2>4, <2>5, <2>6 DEF TypeOK
<1>2. Phases /\ Toggles /\ InStep
  BY DEF Init, Phases, Toggles, InStep, last, expected
<1>3. Counts
  BY PollingAssumption DEF Init, Counts
<1> QED
  BY <1>1, <1>2, <1>3 DEF Inv

LEMMA StartPollInv == Inv /\ StartPoll => Inv'
  BY PollingAssumption
  DEF StartPoll, Inv, TypeOK, Phases, Toggles, Counts, InStep, last, expected,
      keyboard

LEMMA LaunchInv == Inv /\ Launch => Inv'
  BY DEF Launch, Inv, TypeOK, Phases, Toggles, Counts, InStep, last, expected,
         keyboard

LEMMA NakInv == Inv /\ Nak => Inv'
  BY PollingAssumption
  DEF Nak, Done, Inv, TypeOK, Phases, Toggles, Counts, InStep, last, expected,
      chip, keyboard

LEMMA RetryInv == Inv /\ Retry => Inv'
  BY PollingAssumption
  DEF Retry, Done, Inv, TypeOK, Phases, Toggles, Counts, InStep, last, expected,
      chip, keyboard

LEMMA GiveUpInv == Inv /\ GiveUp => Inv'
  BY DEF GiveUp, Done, Inv, TypeOK, Phases, Toggles, Counts, InStep, last, expected,
         chip, keyboard

LEMMA ReceivedInv == Inv /\ Received => Inv'
  BY DEF Received, Done, Inv, TypeOK, Phases, Toggles, Counts, InStep, last,
         expected, chip, keyboard

LEMMA ReadInv == Inv /\ Read => Inv'
<1> SUFFICES ASSUME Inv, Read PROVE Inv'
  OBVIOUS
<1> USE DEF Inv, Read
<1>1. TypeOK'
  BY DEF TypeOK, keyboard
<1>2. Phases'
  BY DEF Phases, keyboard
<1>3. Toggles' /\ Counts'
  BY DEF TypeOK, Phases, Toggles, Counts
<1>4. InStep'
  <2>1. rcvdav /\ ~rcvdav'
    BY DEF Phases
  <2>2. last' = last /\ expected' = expected
    BY <2>1 DEF last, expected
  <2> QED
    BY <2>1, <2>2 DEF InStep, keyboard
<1> QED
  BY <1>1, <1>2, <1>3, <1>4

LEMMA EnumerateInv == Inv /\ Enumerate => Inv'
<1> SUFFICES ASSUME Inv, Enumerate PROVE Inv'
  OBVIOUS
<1> USE DEF Inv, Enumerate
<1>1. TypeOK'
  <2>1. {rcvToggle', toggle', devToggle'} \subseteq 0..1
    BY DEF TypeOK, chip
  <2>2. {busy', rcvdav', present', pending'} \subseteq BOOLEAN
    BY DEF TypeOK, chip
  <2>3. {made', shown', fifo'} \subseteq 0..MaxReports
    BY DEF TypeOK, chip
  <2>4. losses' \in 0..MaxLosses /\ plugs' \in 0..MaxPlugs
    BY PollingAssumption DEF TypeOK
  <2> QED
    BY <2>1, <2>2, <2>3, <2>4 DEF TypeOK, chip
<1>2. Phases'
  BY DEF Phases, chip
<1>3. Toggles' /\ Counts'
  BY DEF Phases, Toggles, Counts, chip
<1>4. InStep'
  <2>1. ~rcvdav /\ ~rcvdav'
    BY DEF Phases, chip
  <2> QED
    BY <2>1 DEF InStep, last, expected, chip
<1> QED
  BY <1>1, <1>2, <1>3, <1>4
-----------------------------------------------------------------------------
LEMMA NothingToReportInv == Inv /\ NothingToReport => Inv'
<1> SUFFICES ASSUME Inv, NothingToReport PROVE Inv'
  OBVIOUS
<1> USE DEF Inv, NothingToReport, Answer, firmware
<1>1. TypeOK'
  <2>1. hrsl' \in Results
    BY DEF Results
  <2>2. {busy', rcvdav', present', pending'} \subseteq BOOLEAN
    BY DEF TypeOK
  <2> QED
    BY <2>1, <2>2 DEF TypeOK
<1>2. Phases' /\ Toggles' /\ Counts'
  BY DEF Phases, Toggles, Counts
<1>3. InStep'
  BY DEF Phases, InStep, last, expected
<1> QED
  BY <1>1, <1>2, <1>3

LEMMA LostInv == Inv /\ Lost => Inv'
<1> SUFFICES ASSUME Inv, Lost PROVE Inv'
  OBVIOUS
<1> USE DEF Inv, Lost, Answer, firmware
<1>1. TypeOK'
  <2>1. losses' \in 0..MaxLosses
    BY PollingAssumption DEF TypeOK
  <2>2. hrsl' \in Results
    BY DEF Results
  <2>3. {busy', rcvdav', present', pending'} \subseteq BOOLEAN
    BY DEF TypeOK
  <2> QED
    BY <2>1, <2>2, <2>3 DEF TypeOK
<1>2. Phases' /\ Toggles' /\ Counts'
  BY DEF Phases, Toggles, Counts
<1>3. InStep'
  BY DEF InStep, last, expected
<1> QED
  BY <1>1, <1>2, <1>3

LEMMA NobodyThereInv == Inv /\ NobodyThere => Inv'
<1> SUFFICES ASSUME Inv, NobodyThere PROVE Inv'
  OBVIOUS
<1> USE DEF Inv, NobodyThere, Answer, firmware
<1>1. TypeOK'
  <2>1. hrsl' \in Results
    BY DEF Results
  <2>2. {busy', rcvdav', present', pending'} \subseteq BOOLEAN
    BY DEF TypeOK
  <2> QED
    BY <2>1, <2>2 DEF TypeOK
<1>2. Phases' /\ Toggles' /\ Counts'
  BY DEF Phases, Toggles, Counts
<1>3. InStep'
  BY DEF Phases, InStep, last, expected
<1> QED
  BY <1>1, <1>2, <1>3

\* An acknowledgement is heard, which turns the keyboard's toggle, or lost.
LEMMA Acknowledged ==
  ASSUME TypeOK, Acknowledge
  PROVE  /\ devToggle' \in 0..1
         /\ pending' \in BOOLEAN
         /\ losses' \in 0..MaxLosses
<1>1. devToggle \in 0..1 /\ pending \in BOOLEAN
  BY DEF TypeOK
<1>2. losses \in 0..MaxLosses /\ MaxLosses \in Nat
  BY PollingAssumption DEF TypeOK
<1>3. devToggle' \in {devToggle, 1 - devToggle} /\ pending' \in {pending, FALSE}
  BY DEF Acknowledge
<1>4. losses' = losses \/ (losses > 0 /\ losses' = losses - 1)
  BY DEF Acknowledge
<1>5. losses' \in 0..MaxLosses
  BY <1>2, <1>4
<1>6. devToggle' \in 0..1
  BY <1>1, <1>3
<1>7. pending' \in BOOLEAN
  BY <1>1, <1>3
<1> QED
  BY <1>5, <1>6, <1>7

\* The report after the last one is taken; the keyboard may not hear of it.
LEMMA NewReportInv == Inv /\ NewReport => Inv'
<1> SUFFICES ASSUME Inv, NewReport PROVE Inv'
  OBVIOUS
<1> USE DEF Inv, NewReport, Answer, firmware
<1>1. ~rcvdav /\ pc = "wait" /\ toggle = rcvToggle
  BY DEF Phases, Toggles
<1>2. made = shown + 1
  BY <1>1 DEF InStep, last, expected
<1>3. /\ toggle \in 0..1 /\ devToggle \in 0..1 /\ rcvToggle \in 0..1
      /\ made \in 0..MaxReports
  BY DEF TypeOK
<1>4. /\ devToggle' \in 0..1 /\ toggle' \in 0..1
      /\ pending' \in BOOLEAN /\ losses' \in 0..MaxLosses
  BY <1>3, Acknowledged
<1>5. TypeOK'
  <2>1. {rcvToggle', toggle', devToggle'} \subseteq 0..1
    BY <1>3, <1>4
  <2>2. {busy', rcvdav', present', pending'} \subseteq BOOLEAN
    BY <1>4 DEF TypeOK
  <2>3. {made', shown', fifo'} \subseteq 0..MaxReports
    BY DEF TypeOK
  <2>4. hrsl' \in Results
    BY DEF Results
  <2> QED
    BY <1>4, <2>1, <2>2, <2>3, <2>4 DEF TypeOK
<1>6. Phases' /\ Toggles' /\ Counts'
  BY <1>1 DEF Phases, Toggles, Counts
<1>7. InStep'
  <2>1. last' = made /\ expected' = 1 - toggle
    BY DEF last, expected
  <2>2. \/ ~pending' /\ devToggle' = 1 - toggle
        \/ pending' /\ devToggle' = toggle
    BY DEF Acknowledge
  <2>3. toggle # 1 - toggle
    BY <1>3
  <2> QED
    BY <1>1, <1>2, <1>3, <2>1, <2>2, <2>3 DEF InStep
<1> QED
  BY <1>5, <1>6, <1>7

\* The last report is dropped; the keyboard may not hear of it this time either.
LEMMA OldReportInv == Inv /\ OldReport => Inv'
<1> SUFFICES ASSUME Inv, OldReport PROVE Inv'
  OBVIOUS
<1> USE DEF Inv, OldReport, Answer, firmware
<1>1. ~rcvdav /\ pc = "wait" /\ toggle = rcvToggle
  BY DEF Phases, Toggles
<1>2. made = shown
  BY <1>1 DEF InStep, last, expected
<1>3. toggle \in 0..1 /\ devToggle \in 0..1 /\ rcvToggle \in 0..1
  BY DEF TypeOK
<1>4. /\ devToggle' \in 0..1
      /\ pending' \in BOOLEAN /\ losses' \in 0..MaxLosses
  BY <1>3, Acknowledged
<1>5. TypeOK'
  <2>1. {rcvToggle', toggle', devToggle'} \subseteq 0..1
    BY <1>3, <1>4
  <2>2. {busy', rcvdav', present', pending'} \subseteq BOOLEAN
    BY <1>4 DEF TypeOK
  <2>3. hrsl' \in Results
    BY DEF Results
  <2> QED
    BY <1>4, <2>1, <2>2, <2>3 DEF TypeOK
<1>6. Phases' /\ Toggles' /\ Counts'
  BY <1>1 DEF Phases, Toggles, Counts
<1>7. InStep'
  <2>1. last' = shown /\ expected' = rcvToggle /\ ~rcvdav'
    BY <1>1 DEF last, expected
  <2>2. \/ ~pending' /\ devToggle' = 1 - devToggle
        \/ pending' /\ devToggle' = devToggle
    BY DEF Acknowledge, TypeOK
  <2> QED
    BY <1>1, <1>2, <1>3, <2>1, <2>2 DEF InStep
<1> QED
  BY <1>5, <1>6, <1>7

LEMMA MakeReportInv == Inv /\ MakeReport => Inv'
<1> SUFFICES ASSUME Inv, MakeReport PROVE Inv'
  OBVIOUS
<1> USE DEF Inv, MakeReport, firmware, chip
<1>1. TypeOK'
  <2>1. {busy', rcvdav', present', pending'} \subseteq BOOLEAN
    BY DEF TypeOK
  <2>2. {made', shown', fifo'} \subseteq 0..MaxReports
    BY PollingAssumption DEF TypeOK
  <2> QED
    BY <2>1, <2>2 DEF TypeOK
<1>2. Phases' /\ Toggles' /\ Counts'
  BY DEF Phases, Toggles, Counts
<1>3. InStep'
  BY DEF InStep, last, expected, TypeOK
<1> QED
  BY <1>1, <1>2, <1>3

LEMMA UnplugInv == Inv /\ Unplug => Inv'
<1> SUFFICES ASSUME Inv, Unplug PROVE Inv'
  OBVIOUS
<1> USE DEF Inv, Unplug, firmware, chip
<1>1. {busy', rcvdav', present', pending'} \subseteq BOOLEAN
  BY DEF TypeOK
<1>2. TypeOK'
  BY <1>1 DEF TypeOK
<1>3. Phases' /\ Toggles' /\ Counts' /\ InStep'
  BY DEF Phases, Toggles, Counts, InStep, last, expected
<1> QED
  BY <1>2, <1>3

LEMMA NextInv == Inv /\ [Next]_vars => Inv'
<1> SUFFICES ASSUME Inv, [Next]_vars PROVE Inv'
  OBVIOUS
<1>1. CASE Firmware
  BY <1>1, StartPollInv, LaunchInv, NakInv, RetryInv, GiveUpInv, ReceivedInv, ReadInv
  DEF Firmware
<1>2. CASE Enumerate
  BY <1>2, EnumerateInv
<1>3. CASE Transfer
  BY <1>3, NothingToReportInv, NewReportInv, OldReportInv, LostInv, NobodyThereInv
  DEF Transfer
<1>4. CASE MakeReport
  BY <1>4, MakeReportInv
<1>5. CASE Unplug
  BY <1>5, UnplugInv
<1>6. CASE UNCHANGED vars
  BY <1>6 DEF vars, firmware, chip, keyboard, Inv, TypeOK, Phases, Toggles, Counts,
              InStep, last, expected
<1> QED
  BY <1>1, <1>2, <1>3, <1>4, <1>5, <1>6 DEF Next

\* The toggles, the buffer and the reports stay in step, whatever packets are
\* lost and whenever a keyboard is pulled out.
THEOREM Invariance == Spec => []Inv
<1>1. Init => Inv
  BY InitInv
<1>2. Inv /\ [Next]_vars => Inv'
  BY NextInv
<1> QED
  BY <1>1, <1>2, PTL DEF Spec

\* The counters stay within their limits, so that nak_count and retry_count fit
\* in a BYTE and a char.
THEOREM TypeCorrect == Spec => []TypeOK
<1>1. Inv => TypeOK
  BY DEF Inv
<1> QED
  BY <1>1, Invariance, PTL

\* The packet that kbdPoll returns is always the next report: none is shown
\* twice and none is passed over, however many packets are lost.
THEOREM NothingTwice == Spec => []NextReport
<1>1. Inv => NextReport
  BY DEF Inv, Phases, InStep, NextReport
<1> QED
  BY <1>1, Invariance, PTL

\* Between polls the saved toggle is the keyboard's, unless a report that was
\* shown will be sent again.
THEOREM TogglesCorrect == Spec => []TogglesAgree
<1>1. Inv => TogglesAgree
  BY DEF Inv, Phases, InStep, TogglesAgree, last, expected
<1> QED
  BY <1>1, Invariance, PTL

\* The poll implements the delivery of every report, once and in order.
THEOREM Refinement == Spec => DeliversReports
<1>1. Init => Delivery!Init
  BY DEF Init, Delivery!Init
<1>2. Inv /\ [Next]_vars => [Delivery!Next]_<<made, shown>>
  <2> SUFFICES ASSUME Inv, [Next]_vars
               PROVE  Delivery!Next \/ UNCHANGED <<made, shown>>
    OBVIOUS
  <2>1. CASE Read
    <3>1. shown < made /\ fifo = shown + 1
      BY <2>1 DEF Read, Inv, TypeOK, Phases, InStep, last
    <3> QED
      BY <2>1, <3>1 DEF Read, Delivery!Next, Delivery!Show
  <2>2. CASE Enumerate
    BY <2>2 DEF Enumerate, Delivery!Next, Delivery!Withdraw
  <2>3. CASE MakeReport
    BY <2>3 DEF MakeReport, Delivery!Next, Delivery!Make
  <2>4. CASE StartPoll \/ Launch \/ Nak \/ Retry \/ GiveUp \/ Received
    BY <2>4 DEF StartPoll, Launch, Nak, Retry, GiveUp, Received
  <2>5. CASE Transfer
    BY <2>5 DEF Transfer, NothingToReport, NewReport, OldReport, Lost, NobodyThere,
                Answer
  <2>6. CASE Unplug
    BY <2>6 DEF Unplug
  <2>7. CASE UNCHANGED vars
    BY <2>7 DEF vars
  <2> QED
    BY <2>1, <2>2, <2>3, <2>4, <2>5, <2>6, <2>7 DEF Next, Firmware
<1> QED
  BY <1>1, <1>2, Invariance, PTL DEF Spec, DeliversReports, Delivery!Spec
=============================================================================
