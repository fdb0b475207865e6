---------------------------- MODULE MouthCounter ----------------------------
(***************************************************************************)
(* The animation of the player's mouth (counter.sv), clocked by the VGA    *)
(* controller: it opens or closes every eleventh frame in which the player *)
(* is on his way.  hasMoved is a register of ball.sv, clocked by the same  *)
(* edge.                                                                   *)
(***************************************************************************)
EXTENDS VgaTiming

CONSTANT Frames   \* 10: the count at which the mouth changes

ASSUME FramesAssumption == Frames \in 1..15

VARIABLES counter, closePacman,
          hasMoved,
          ticks,    \* history: frame edges since the last Reset, up to 2
          lines     \* history: lines since the last frame edge

mouth == <<counter, closePacman>>
mouthVars == <<timing, mouth, hasMoved, ticks, lines>>

FrameLines == vlines + 1

MouthInit == /\ VgaInit
             /\ counter = 0 /\ closePacman = FALSE /\ hasMoved = FALSE
             /\ ticks = 0 /\ lines = 0

Reset == /\ VgaReset
         /\ counter' = 0 /\ closePacman' = FALSE /\ hasMoved' = FALSE
         /\ ticks' = 0 /\ lines' = 0

-----------------------------------------------------------------------------
\* The mouth changes at the full count, whether the player moves or not.
Chew ==
  \/ counter = Frames /\ closePacman' = ~closePacman /\ counter' = 0
  \/ /\ counter # Frames
     /\ counter' = IF hasMoved THEN (counter + 1) % 16 ELSE counter
     /\ UNCHANGED closePacman

\* All registers of the game at one edge; hasMoved rises with a key and falls
\* with a life (ball.sv).
MouthTick == /\ FrameEdge
             /\ Chew
             /\ hasMoved' \in BOOLEAN
             /\ ticks' = IF ticks < 2 THEN ticks + 1 ELSE ticks
             /\ lines' = 0

NoTick == /\ ~FrameEdge
          /\ lines' = IF hc' = 0 /\ hc # 0 /\ lines <= FrameLines THEN lines + 1 ELSE lines
          /\ UNCHANGED <<mouth, hasMoved, ticks>>

Frame == Clk /\ MouthTick
ClockEdge == Frame \/ (Clk /\ NoTick)
MouthNext == Reset \/ ClockEdge

\* The board's clock never stops.
MouthSpec == MouthInit /\ [][MouthNext]_mouthVars /\ WF_mouthVars(ClockEdge)

\* Reset is pressed again and again.
AlwaysReset == []<><<Reset>>_mouthVars

-----------------------------------------------------------------------------
MouthTypeOK == /\ clkdiv \in BOOLEAN /\ hs \in BOOLEAN /\ vs \in BOOLEAN
               /\ hc \in 0..hpixels /\ vc \in 0..vlines
               /\ counter \in 0..Frames /\ closePacman \in BOOLEAN
               /\ hasMoved \in BOOLEAN
               /\ ticks \in 0..2 /\ lines \in 0..FrameLines

\* The game's clock is the frame rate: every edge of VGA_VS comes a whole frame
\* after the last one, but for the two after a Reset, which itself pulls VGA_VS
\* low: one with the first pixel after it, one at the first sync pulse
\* (VGA_controller.sv:102-106).
FrameTime ==
  [][Frame => /\ hc = 0
              /\ ticks = 0 => vc = 0
              /\ ticks = 1 => lines = VSyncFirst + 1
              /\ ticks = 2 => lines = FrameLines]_mouthVars

\* The mouth never changes in the middle of a picture: VGA_VS rises outside the
\* display, and the tick that a Reset adds to the game inside of it comes with
\* the counter at 0 (VGA_controller.sv:103, counter.sv:10).
SteadyPicture ==
  [][~Reset /\ closePacman' # closePacman => ~display /\ ~display']_mouthVars

\* The game never stands still: VGA_VS rises again and again, unless Reset is
\* pressed for ever.  It is the fairness that GameRules asks for.
TicksNeverStop == AlwaysReset \/ []<><<Frame>>_mouthVars
=============================================================================
