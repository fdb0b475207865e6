----------------------------- MODULE ChipAccess ------------------------------
(***************************************************************************)
(* What an access to the MAX3421E promises: in one selection, the chip     *)
(* hears the bytes written and then a zero for every byte to be read, and  *)
(* the caller gets the chip's answers to those zeros.  Bytes and answers   *)
(* are numbered from the selection on.                                     *)
(*                                                                         *)
(* An access may be abandoned half-way, which leaves the chip selected.    *)
(* Then registers are not accessed before the chip was reset, but for one  *)
(* write of two bytes, which the chip hears in the old selection.          *)
(***************************************************************************)
EXTENDS Integers, Sequences

CONSTANT MaxBytes        \* data bytes of one access

VARIABLES starting,        \* the chip is to be reset
          access,          \* <<bytes to write, bytes to read>>, or None
          selected,        \* the chip is
          heard, read      \* bytes in its selection, the outcome of the last access

None == <<>>

\* The first n bytes of an access that writes w of them.
Bytes(w, n) == [i \in 1..n |-> IF i <= w THEN i ELSE 0]
Answers(w, r) == [i \in 1..r |-> w + i]

Init == /\ starting = TRUE /\ access = None
        /\ selected = FALSE /\ heard = <<>> /\ read = <<>>

Begin == /\ access = None /\ ~starting /\ ~selected
         /\ \E w \in 1..MaxBytes + 1, r \in 0..MaxBytes : access' = <<w, r>>
         /\ selected' = TRUE /\ heard' = <<>> /\ read' = <<>>
         /\ UNCHANGED starting

SetPins == /\ access = None /\ starting
           /\ access' = <<2, 0>>
           /\ selected' = TRUE /\ heard' = IF selected THEN heard ELSE <<>>
           /\ read' = <<>>
           /\ UNCHANGED starting

Return == /\ access # None /\ access' = None
          /\ selected' = FALSE
          /\ heard' = heard \o Bytes(access[1], access[1] + access[2])
          /\ read' = Answers(access[1], access[2])
          /\ UNCHANGED starting

ResetChip == /\ access = None /\ starting /\ ~selected
             /\ starting' = FALSE
             /\ UNCHANGED <<access, selected, heard, read>>

Abandon == /\ starting' = TRUE /\ access' = None /\ read' = <<>>
           /\ \/ access = None /\ UNCHANGED heard
              \/ /\ access # None
                 /\ \E n \in 0..access[1] + access[2] :
                      heard' = heard \o Bytes(access[1], n)
           /\ UNCHANGED selected

Next == Begin \/ SetPins \/ Return \/ ResetChip \/ Abandon

Spec == Init /\ [][Next]_<<starting, access, selected, heard, read>>
=============================================================================
