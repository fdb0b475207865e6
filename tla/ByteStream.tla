----------------------------- MODULE ByteStream ------------------------------
(***************************************************************************)
(* What the console promises to the host: the bytes that were accepted     *)
(* from a writer, each once and in their order, and never more than        *)
(* Capacity of them on the way.  Bytes are numbered modulo Numbers, more   *)
(* than are ever on the way.                                               *)
(***************************************************************************)
EXTENDS Integers

CONSTANTS Capacity, Numbers

VARIABLES accepted, delivered   \* numbers of the next bytes

stream == <<accepted, delivered>>

OnTheWay == (accepted - delivered) % Numbers

Init == accepted = 0 /\ delivered = 0

Accept == \E n \in 1..Capacity - OnTheWay :
            accepted' = (accepted + n) % Numbers /\ UNCHANGED delivered

Deliver == /\ OnTheWay > 0
           /\ delivered' = (delivered + 1) % Numbers
           /\ UNCHANGED accepted

Spec == Init /\ [][Accept \/ Deliver]_stream
=============================================================================
