---------------------------- MODULE ControlRequest ----------------------------
(***************************************************************************)
(* What XferCtrlReq (transfer.c) promises the state machine and the class  *)
(* probes: a request that succeeds was taken by the device, and its buffer *)
(* holds the whole answer to this request; one that fails may leave the    *)
(* first part of the answer, but never anything else.                      *)
(***************************************************************************)
EXTENDS Naturals, SequencesExt

CONSTANTS Requests,   \* what may be asked for
          Answer(_)   \* the data that a device has for a numbered request

VARIABLES current, job, data, result
vars == <<current, job, data, result>>

Init == current.number = 0 /\ job = current /\ data = <<>> /\ result = "success"

Ask == /\ result # "none"
       /\ \E r \in Requests :
            current' = [number |-> current.number + 1, request |-> r]
       /\ data' = <<>> /\ result' = "none"
       /\ UNCHANGED job

Take == result = "none" /\ job' = current /\ UNCHANGED <<current, data, result>>

Receive == /\ result = "none" /\ job = current
           /\ IsPrefix(data, data') /\ IsPrefix(data', Answer(current))
           /\ UNCHANGED <<current, job, result>>

Succeed == /\ result = "none" /\ job = current
           /\ data = Answer(current) /\ result' = "success"
           /\ UNCHANGED <<current, job, data>>

Fail == result = "none" /\ result' = "failed" /\ UNCHANGED <<current, job, data>>

Spec == Init /\ [][Ask \/ Take \/ Receive \/ Succeed \/ Fail]_vars
=============================================================================
