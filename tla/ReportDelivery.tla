--------------------------- MODULE ReportDelivery ---------------------------
(***************************************************************************)
(* What the game expects of the way from the keyboard to its register:     *)
(* every report is shown once, in the order of the key strokes.  A report  *)
(* that was not shown when its keyboard is pulled out is withdrawn.        *)
(***************************************************************************)
EXTENDS Integers

VARIABLES made,     \* reports that the keyboard has made and not withdrawn
          shown     \* reports that have reached the register

Init == made = 0 /\ shown = 0

Make == made' = made + 1 /\ UNCHANGED shown

Show == shown < made /\ shown' = shown + 1 /\ UNCHANGED made

Withdraw == made' = shown /\ UNCHANGED shown

Next == Make \/ Show \/ Withdraw

Spec == Init /\ [][Next]_<<made, shown>>
=============================================================================
