-------------------------- MODULE MCControlTransfer ---------------------------
(***************************************************************************)
(* A device with packets of 4 bytes, of which the host assumes 2 at first. *)
(* The requests: the first look at a descriptor, whole descriptors that    *)
(* end with a short and with a full packet, descriptors that turn out      *)
(* shorter than asked for, again with both ends, and one without data.     *)
(***************************************************************************)
EXTENDS ControlTransfer

Get(asked, has, pkt) ==
  [type |-> "get", nbytes |-> asked, length |-> has, maxpktsize |-> pkt]

MCRequests == {Get(2, 5, 2), Get(5, 5, 4), Get(8, 8, 4), Get(6, 5, 4), Get(6, 4, 4),
               [type |-> "set", nbytes |-> 0, length |-> 0, maxpktsize |-> 4]}
=============================================================================
