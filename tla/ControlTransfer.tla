---------------------------- MODULE ControlTransfer ---------------------------
(***************************************************************************)
(* Control transfers packet by packet: XferCtrlReq with XferCtrlData or    *)
(* XferCtrlND, over XferInTransfer and XferDispatchPkt (transfer.c).  A    *)
(* transfer is a SETUP packet, for a read any number of IN packets, and a  *)
(* status packet.  Host and device each decide by themselves where the     *)
(* data ends, from the length of the request and the first short packet;   *)
(* the bus may lose or disturb any packet or acknowledgement.              *)
(*                                                                         *)
(* The controller ends every packet well before the deadline of 5 seconds. *)
(***************************************************************************)
EXTENDS Integers, SequencesExt

CONSTANTS Requests,      \* records: type, nbytes, length, maxpktsize
          DevicePkt,     \* the packet size of the device's endpoint 0
          NakLimit,      \* USB_NAK_LIMIT, 200
          RetryLimit,    \* USB_RETRY_LIMIT, 3
          MaxRequests,   \* bound: requests that are made
          MaxFaults      \* bound: packets lost or disturbed, and stalls

\* The host asks with the packet size of the device, or, before it knows it,
\* for no more than fits in a packet of the size that it assumes.
ASSUME ControlAssumption ==
  /\ \A r \in Requests :
       /\ r.type \in {"get", "set"}
       /\ r.nbytes \in Nat /\ r.length \in Nat
       /\ r.maxpktsize \in 1..DevicePkt
       /\ r.maxpktsize = DevicePkt \/ r.nbytes <= r.maxpktsize
  /\ DevicePkt \in Nat /\ MaxRequests \in Nat /\ MaxFaults \in Nat
  /\ NakLimit \in 1..255 /\ RetryLimit \in 1..127

VARIABLES
  \* the firmware
  stage, step,              \* where XferCtrlReq and XferDispatchPkt are
  current,                  \* the request, numbered
  data, result,             \* the caller's buffer, the code it gets
  nak_count, retry_count,
  \* the controller
  toggle, busy, hrsl, rcvdav, fifo,
  \* the device
  present, job,             \* the request of the last SETUP packet it took
  phase, sent, devToggle,   \* the stage it is in, bytes acknowledged
  faults                    \* what is left of the bound

firmware == <<stage, step, current, data, result, nak_count, retry_count>>
chip == <<toggle, busy, hrsl, rcvdav, fifo>>
device == <<job, phase, sent, devToggle>>
vars == <<firmware, chip, device, present, faults>>

\* The device has no more than its length, and sends no more than asked for.
Answer(c) ==
  IF c.request.type = "set" THEN <<>>
  ELSE [i \in 1..(IF c.request.nbytes < c.request.length
                  THEN c.request.nbytes ELSE c.request.length) |-> <<c.number, i>>]

Init ==
  /\ stage = "idle" /\ step = "launch"
  /\ \E r \in Requests : current = [number |-> 0, request |-> r]
  /\ data = <<>> /\ result = "success" /\ nak_count = 0 /\ retry_count = 0
  /\ toggle = 0 /\ busy = FALSE /\ hrsl = "success" /\ rcvdav = FALSE /\ fifo = <<>>
  /\ present = TRUE /\ job = current /\ phase = "idle" /\ sent = 0 /\ devToggle = 0
  /\ faults = MaxFaults

-----------------------------------------------------------------------------
(* The firmware.                                                           *)

\* XferDispatchPkt is called for the packet of a stage.
Dispatch(to) == /\ stage' = to /\ step' = "launch"
                /\ nak_count' = 0 /\ retry_count' = 0

Return(code) == /\ stage' = "idle" /\ result' = code
                /\ UNCHANGED <<step, nak_count, retry_count>>

XferCtrlReq ==
  /\ stage = "idle" /\ current.number < MaxRequests
  /\ \E r \in Requests :
       current' = [number |-> current.number + 1, request |-> r]
  /\ data' = <<>> /\ result' = "none"
  /\ Dispatch("setup")
  /\ UNCHANGED <<chip, device, present, faults>>

Launch ==
  /\ stage # "idle" /\ step = "launch" /\ step' = "wait"
  /\ busy' = TRUE
  /\ UNCHANGED <<stage, current, data, result, nak_count, retry_count,
                 toggle, hrsl, rcvdav, fifo, device, present, faults>>

Done == stage # "idle" /\ step = "wait" /\ ~busy

\* Mutant of Again: the count starts over with every packet launched.
AgainForever(count, limit) ==
  UNCHANGED count /\ step' = "launch" /\ UNCHANGED <<stage, result>>

\* A NAK or a bus timeout: the packet is launched again, up to a limit.
Again(count, limit) ==
  /\ count' = count + 1
  /\ \/ count' # limit /\ step' = "launch" /\ UNCHANGED <<stage, result>>
     \/ count' = limit /\ stage' = "idle" /\ result' = "failed" /\ UNCHANGED step

Nak == /\ Done /\ hrsl = "NAK" /\ Again(nak_count, NakLimit)
       /\ UNCHANGED <<current, data, retry_count, chip, device, present, faults>>

Retry == /\ Done /\ hrsl = "TIMEOUT" /\ Again(retry_count, RetryLimit)
         /\ UNCHANGED <<current, data, nak_count, chip, device, present, faults>>

\* Any other error of the packet, or a success without a packet (0xf0).
Error ==
  /\ Done /\ hrsl \notin {"NAK", "TIMEOUT"}
  /\ ~(hrsl = "success" /\ (stage = "data" => rcvdav))
  /\ Return("failed")
  /\ UNCHANGED <<current, data, chip, device, present, faults>>

Succeeded(in) == Done /\ hrsl = "success" /\ stage = in

\* The data stage begins with DATA1.
SetupDone ==
  /\ Succeeded("setup")
  /\ \/ current.request.type = "get" /\ Dispatch("data") /\ toggle' = 1
     \/ current.request.type = "set" /\ Dispatch("status") /\ UNCHANGED toggle
  /\ UNCHANGED <<current, data, result, busy, hrsl, rcvdav, fifo,
                 device, present, faults>>

\* Mutant of EndOfData: only the length that was asked for ends the data.
EndAtLength(pktsize, xfrlen) == xfrlen >= current.request.nbytes

\* Mutant of EndOfData: a full packet ends the data as well.
EndAtPacket(pktsize, xfrlen) ==
  pktsize <= current.request.maxpktsize \/ xfrlen >= current.request.nbytes

\* A short packet, or all that was asked for.
EndOfData(pktsize, xfrlen) ==
  pktsize < current.request.maxpktsize \/ xfrlen >= current.request.nbytes

Read ==
  /\ Succeeded("data") /\ rcvdav
  /\ data' = data \o fifo /\ rcvdav' = FALSE
  /\ \/ EndOfData(Len(fifo), Len(data')) /\ Dispatch("status")
     \/ ~EndOfData(Len(fifo), Len(data')) /\ Dispatch("data")
  /\ UNCHANGED <<current, result, toggle, busy, hrsl, fifo, device, present, faults>>

StatusDone ==
  /\ Succeeded("status") /\ Return("success")
  /\ UNCHANGED <<current, data, chip, device, present, faults>>

Firmware == \/ Launch \/ Nak \/ Retry \/ Error
            \/ SetupDone \/ Read \/ StatusDone

-----------------------------------------------------------------------------
(* The controller, the bus and the device.                                 *)

\* What the packet is, by the stage that the host is in.
Token == CASE stage = "setup" -> "SETUP"
           [] stage = "data" -> "IN"
           [] stage = "status" -> IF current.request.type = "get" THEN "OUTHS"
                                  ELSE "INHS"

Answers(with) == /\ busy' = FALSE
                 /\ hrsl' = with
                 /\ UNCHANGED <<firmware, present>>

\* The bus works, or fails once more.
Fault == faults > 0 /\ faults' = faults - 1

\* A device takes every SETUP packet, whatever it was in the middle of.
TakeSetup ==
  /\ present /\ Token = "SETUP"
  /\ \/ Answers("success") /\ UNCHANGED faults
     \/ Answers("TIMEOUT") /\ Fault
  /\ job' = current /\ sent' = 0 /\ devToggle' = 1
  /\ phase' = IF current.request.type = "get" THEN "data" ELSE "status"
  /\ UNCHANGED <<toggle, rcvdav, fifo>>

Packet == SubSeq(Answer(job), sent + 1,
                 IF sent + DevicePkt < Len(Answer(job)) THEN sent + DevicePkt
                 ELSE Len(Answer(job)))

\* The device hears the acknowledgement, or the bus loses it.
Acknowledged ==
  \/ /\ sent' = sent + Len(Packet) /\ devToggle' = 1 - devToggle
     /\ phase' = IF Len(Packet) < DevicePkt \/ sent' = job.request.nbytes
                 THEN "status" ELSE "data"
     /\ UNCHANGED <<job, faults>>
  \/ Fault /\ UNCHANGED device

SendPacket ==
  /\ present /\ Token = "IN" /\ phase = "data"
  /\ \/ /\ devToggle = toggle /\ Answers("success")
        /\ rcvdav' = TRUE /\ fifo' = Packet /\ toggle' = 1 - toggle
     \/ /\ devToggle # toggle /\ Answers("TOGERR")
        /\ UNCHANGED <<rcvdav, fifo, toggle>>
  /\ Acknowledged

\* A read may be ended by the host at any time; its last packet may come twice.
TakeStatus ==
  /\ present /\ Token = "OUTHS" /\ job.request.type = "get"
  /\ \/ Answers("success") /\ UNCHANGED faults
     \/ Answers("TIMEOUT") /\ Fault
  /\ phase' = "idle"
  /\ UNCHANGED <<toggle, rcvdav, fifo, job, sent, devToggle>>

SendStatus ==
  /\ present /\ Token = "INHS" /\ phase = "status" /\ job.request.type = "set"
  /\ Answers("success")
  /\ \/ phase' = "idle" /\ UNCHANGED faults
     \/ UNCHANGED phase /\ Fault
  /\ UNCHANGED <<toggle, rcvdav, fifo, job, sent, devToggle>>

NotReady ==
  /\ present /\ Token # "SETUP" /\ phase # "idle"
  /\ Answers("NAK")
  /\ UNCHANGED <<toggle, rcvdav, fifo, device, faults>>

\* The device has no more data to send, or does not support the request.
Stall ==
  /\ present /\ Token # "SETUP"
  /\ IF Token = "IN" /\ phase # "data" THEN UNCHANGED faults
     ELSE phase # "idle" /\ Fault
  /\ Answers("STALL")
  /\ UNCHANGED <<toggle, rcvdav, fifo, device>>

\* Nobody is there, or the packet or its answer is lost or disturbed.
Lost ==
  /\ \/ ~present /\ Answers("TIMEOUT") /\ UNCHANGED faults
     \/ present /\ Fault /\ Answers("TIMEOUT")
     \/ present /\ Fault /\ Token \in {"IN", "INHS"} /\ Answers("error")
  /\ UNCHANGED <<toggle, rcvdav, fifo, device>>

Transfer == /\ busy
            /\ \/ TakeSetup \/ SendPacket \/ TakeStatus \/ SendStatus
               \/ NotReady \/ Stall \/ Lost

Unplug == present /\ present' = FALSE /\ UNCHANGED <<firmware, chip, device, faults>>

Next == XferCtrlReq \/ Firmware \/ Transfer \/ Unplug

\* The firmware goes on and the controller ends what was launched.
Spec == Init /\ [][Next]_vars /\ WF_vars(Firmware) /\ WF_vars(Transfer)
-----------------------------------------------------------------------------
\* A request that succeeds was taken by the device and brings the whole answer,
\* and nothing of an earlier request that was given up in the middle
\* (transfer.c:77-136,195-226).
Promise == INSTANCE ControlRequest
KeepsPromise == Promise!Spec

\* Host and device agree where the data ends, also when the device has less
\* than was asked for, or ends with a full packet: with a device that is there
\* and ready, and a bus that loses nothing, no request fails
\* (transfer.c:214-223).
FailsForAReason ==
  result = "failed" => faults < MaxFaults \/ ~present \/ nak_count = NakLimit

\* Every request returns, whatever device and bus do (transfer.c:143-190).
RequestsEnd == result = "none" ~> result # "none"
=============================================================================
