----------------------------- MODULE VgaTiming ------------------------------
(***************************************************************************)
(* The timing of the picture (VGA_controller.sv): pixel clock, pixel and   *)
(* line counters, and the sync signals.  VGA_VS also clocks the game: its  *)
(* rising edge is the Tick of every register of ball.sv, ghost.sv,         *)
(* lab62.sv and counter.sv.                                                *)
(***************************************************************************)
EXTENDS Integers

CONSTANTS hpixels, vlines,               \* last pixel of a line, last line
          HDisplay, HSyncFirst, HSyncEnd,  \* 640, 656, 752
          VDisplay, VSyncFirst             \* 480, 490

\* The order of display, sync pulse and the end of the line or the frame; the
\* counters have 10 bits.
ASSUME TimingAssumption ==
  /\ HDisplay \in 1..1023 /\ HSyncFirst \in HDisplay + 1..1023
  /\ HSyncEnd \in HSyncFirst + 1..1023 /\ hpixels \in HSyncEnd..1023
  /\ VDisplay \in 1..1023 /\ VSyncFirst \in VDisplay + 2..1023
  /\ vlines \in VSyncFirst + 2..1023

VARIABLES clkdiv,    \* the pixel clock, half the board's clock
          hc, vc, hs, vs

timing == <<clkdiv, hc, vc, hs, vs>>

\* Powered up or reset: the registers are low, and with them both syncs.
VgaInit == clkdiv = FALSE /\ hc = 0 /\ vc = 0 /\ hs = FALSE /\ vs = FALSE
VgaReset == clkdiv' = FALSE /\ hc' = 0 /\ vc' = 0 /\ hs' = FALSE /\ vs' = FALSE

-----------------------------------------------------------------------------
display == hc < HDisplay /\ vc < VDisplay

\* Mutant of Count: the line is counted before the last pixel's edge.
CountShort == IF hc = hpixels
              THEN hc' = 0 /\ vc' = IF vc + 1 = vlines THEN 0 ELSE vc + 1
              ELSE hc' = hc + 1 /\ UNCHANGED vc

Count == IF hc = hpixels
         THEN hc' = 0 /\ vc' = IF vc = vlines THEN 0 ELSE vc + 1
         ELSE hc' = hc + 1 /\ UNCHANGED vc

InHSync(pixel) == HSyncFirst <= pixel /\ pixel < HSyncEnd

\* Mutant of InVSync: & for |.
InVSyncNever(line) == line = VSyncFirst /\ line = VSyncFirst + 1

\* Mutant of InVSync: the last lines of the display.
InVSyncEarly(line) == line = VDisplay - 2 \/ line = VDisplay - 1

InVSync(line) == line = VSyncFirst \/ line = VSyncFirst + 1

\* A rising edge of the pixel clock.  The syncs are registers, computed for
\* the next pixel and the next line.
Pixel == /\ Count
         /\ hs' = ~InHSync(hc + 1)
         /\ vs' = ~InVSync(vc + 1)

Clk == /\ clkdiv' = ~clkdiv
       /\ \/ ~clkdiv /\ Pixel
          \/ clkdiv /\ UNCHANGED <<hc, vc, hs, vs>>

\* The rising edge of VGA_VS.
FrameEdge == ~vs /\ vs'
=============================================================================
