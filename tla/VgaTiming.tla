------------------------------ MODULE VgaTiming ------------------------------
(***************************************************************************)
(* VGA_controller.sv: the pixel clock, which is half the 50 MHz clock, the *)
(* counters of the column and the line, and the vertical sync.  The module *)
(* has no specification of its own: the modules that extend it step with   *)
(* each edge of the 50 MHz clock (Tick), or with the rising edges of the   *)
(* pixel clock only (PixelEdge).                                           *)
(***************************************************************************)
EXTENDS Integers

CONSTANTS
  HVisible,   \* columns of the picture: 640
  HTotal,     \* columns of a line: 800
  VVisible,   \* lines of the picture: 480
  VSyncLine,  \* the line number the sync is compared with: 490
  VTotal      \* lines of a frame: 525

ASSUME GeometryAssumption ==
  /\ {HVisible, HTotal, VVisible, VSyncLine, VTotal} \subseteq Nat \ {0}
  /\ HVisible < HTotal
  /\ VVisible < VSyncLine
  /\ VSyncLine + 1 < VTotal

VARIABLES
  pixel_clk,     \* the pixel clock, 1 in the first half of a pixel
  DrawX, DrawY,  \* the column and the line
  VS,            \* the vertical sync, low for two lines
  Reset          \* the reset switch

vgaVars == <<pixel_clk, DrawX, DrawY, VS>>

VgaTypeOK ==
  /\ pixel_clk \in {0, 1}
  /\ DrawX \in 0..HTotal - 1
  /\ DrawY \in 0..VTotal - 1
  /\ VS \in {0, 1}
  /\ Reset \in BOOLEAN

\* The picture is on the screen.
Visible == DrawX < HVisible /\ DrawY < VVisible

\* The reset of the counters and of the sync is asynchronous.
VgaCleared == pixel_clk' = 0 /\ DrawX' = 0 /\ DrawY' = 0 /\ VS' = 0

\* Mutant of PixelEdge: the sync is high for its two lines and low else.
PixelEdgeSyncHigh ==
  /\ DrawX' = (DrawX + 1) % HTotal
  /\ DrawY' = IF DrawX = HTotal - 1 THEN (DrawY + 1) % VTotal ELSE DrawY
  /\ VS' = IF DrawY + 1 \in {VSyncLine, VSyncLine + 1} THEN 1 ELSE 0

\* On the rising edge of the pixel clock the column advances, and the sync
\* takes the value for the line that was current.
PixelEdge ==
  /\ DrawX' = (DrawX + 1) % HTotal
  /\ DrawY' = IF DrawX = HTotal - 1 THEN (DrawY + 1) % VTotal ELSE DrawY
  /\ VS' = IF DrawY + 1 \in {VSyncLine, VSyncLine + 1} THEN 0 ELSE 1

\* What an edge of the 50 MHz clock does.
Tick ==
  /\ pixel_clk' = 1 - pixel_clk
  /\ IF pixel_clk = 0 THEN PixelEdge ELSE UNCHANGED <<DrawX, DrawY, VS>>

VSRises == VS = 0 /\ VS' = 1
=============================================================================
