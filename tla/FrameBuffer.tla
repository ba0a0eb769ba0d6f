----------------------------- MODULE FrameBuffer -----------------------------
(***************************************************************************)
(* FrameBuffer.sv and frameRAM.sv under the timing of VGA_controller.sv.   *)
(* A state machine alternates between waiting and writing while the        *)
(* picture is on the screen: it waits in the first half of a pixel, in     *)
(* which the memory is read, and writes in the second half.  In START it   *)
(* writes back what it has read.  In PLAY it writes the pixel of the game, *)
(* one address lower while the level scrolls.                              *)
(* A stored pixel is its address in the title picture, or Game.            *)
(***************************************************************************)
EXTENDS VgaTiming

VARIABLES
  frameState,    \* "Wait" or "Read_Write"
  mem,           \* the memory, preloaded with the title picture
  pixelOut,      \* the registered output of the memory
  pixelIn,       \* the registered pixel of pixelLogic.sv
  ScrollEnable,  \* the frame's register of the scroll request
  gameState,     \* "Start" or "Play"
  firstLine      \* the picture has been visible since the last reset

vars == <<vgaVars, Reset, frameState, mem, pixelOut, pixelIn, ScrollEnable,
          gameState, firstLine>>

Addresses == 0..HVisible * VVisible - 1
Game == -1          \* a pixel of the game
Garbage == -2       \* what is read where there is no memory
Transparent == -3   \* the code 15 of a pixel that shows what is below
Stored == Addresses \cup {Game}

TypeOK ==
  /\ VgaTypeOK
  /\ frameState \in {"Wait", "Read_Write"}
  /\ DOMAIN mem = Addresses
  /\ pixelIn \in {Game, Transparent}
  /\ ScrollEnable \in BOOLEAN
  /\ gameState \in {"Start", "Play"}
  /\ firstLine \in BOOLEAN

Init ==
  /\ pixel_clk = 0 /\ DrawX = 0 /\ DrawY = 0 /\ VS = 0 /\ Reset = TRUE
  /\ frameState = "Wait"
  /\ mem = [a \in Addresses |-> a]
  /\ pixelOut = 0
  /\ pixelIn = Transparent
  /\ ScrollEnable = FALSE
  /\ gameState = "Start"
  /\ firstLine = TRUE

-----------------------------------------------------------------------------
Address == DrawX + DrawY * HVisible
Read(a) == IF a \in Addresses THEN mem[a] ELSE Garbage

\* The memory has no word at the address -1 that scrolling gives pixel 0.
WriteAddress == IF ScrollEnable THEN Address - 1 ELSE Address

\* A mutant of PixelWrite: a game pixel is kept when it is opaque.
PixelWriteSwapped ==
  IF gameState = "Start" \/ pixelIn # Transparent THEN pixelOut ELSE Game

PixelWrite ==
  IF gameState = "Start" \/ pixelIn = Transparent THEN pixelOut ELSE pixelIn

\* Mutants of NextFrameState: the machine does not wait for the picture; it
\* goes on writing while the picture is visible.
NextFrameStateFree ==
  IF frameState = "Wait" THEN "Read_Write" ELSE "Wait"

NextFrameStateBusy ==
  IF Visible THEN "Read_Write" ELSE "Wait"

NextFrameState ==
  IF frameState = "Wait" /\ Visible THEN "Read_Write" ELSE "Wait"

\* One edge of the 50 MHz clock: the memory, its output, the state machine
\* and the counters all go by the values of before the edge.  The request to
\* scroll is registered when the sync rises; the player of a game that has
\* not started is at the left of the screen and does not ask for it.
Clk ==
  /\ ~Reset
  /\ mem' = IF frameState = "Read_Write" /\ WriteAddress \in Addresses
            THEN [mem EXCEPT ![WriteAddress] = PixelWrite]
            ELSE mem
  /\ pixelOut' = Read(Address)
  /\ frameState' = NextFrameState
  /\ Tick
  /\ IF VSRises
     THEN ScrollEnable' \in (IF gameState = "Start" THEN {FALSE} ELSE BOOLEAN)
     ELSE UNCHANGED ScrollEnable
  /\ pixelIn' \in {Game, Transparent}
  /\ firstLine' = (firstLine /\ Visible)
  /\ UNCHANGED <<Reset, gameState>>

\* The player presses a key.
StartGame ==
  /\ ~Reset
  /\ gameState = "Start"
  /\ gameState' = "Play"
  /\ UNCHANGED <<vgaVars, Reset, frameState, mem, pixelOut, pixelIn,
                 ScrollEnable, firstLine>>

\* The reset switch goes on: all but the memory and the scroll register.  The
\* counters are cleared before the state machine sees a clock, so a write in
\* progress goes to pixel 0.
ResetOn ==
  /\ ~Reset
  /\ Reset' = TRUE
  /\ VgaCleared
  /\ frameState' = "Wait"
  /\ gameState' = "Start"
  /\ pixelIn' = Transparent
  /\ mem' = IF frameState = "Read_Write" /\ ~ScrollEnable
            THEN [mem EXCEPT ![0] = PixelWrite]
            ELSE mem
  /\ pixelOut' = mem'[0]
  /\ firstLine' = TRUE
  /\ UNCHANGED ScrollEnable

ResetOff ==
  /\ Reset
  /\ Reset' = FALSE
  /\ UNCHANGED <<vgaVars, frameState, mem, pixelOut, pixelIn, ScrollEnable,
                 gameState, firstLine>>

Next == Clk \/ StartGame \/ ResetOn \/ ResetOff

Spec == Init /\ [][Next]_vars /\ WF_vars(Clk) /\ WF_vars(ResetOff)

-----------------------------------------------------------------------------
(* What should hold. *)

\* In START the buffer copies itself into itself (README.md:36): once the
\* first line after the reset is over, and until the next one, no write changes
\* a pixel, whatever the phase of the two clocks was when the switch went off.
StartKeepsPicture ==
  [][gameState = "Start" /\ ~firstLine /\ ~Reset' => mem' = mem]_vars

\* What the memory does not have is never written into the picture, and
\* every register keeps its type.
NoGarbage == TypeOK /\ \A a \in Addresses : mem[a] \in Stored

\* While the game draws opaque pixels the whole picture becomes the game's,
\* but for the last pixel, which scrolling never reaches.
PictureReplaced ==
  <>[](gameState = "Play" /\ pixelIn = Game)
    => <>(\A a \in Addresses : a # HVisible * VVisible - 1 => mem[a] = Game)

\* The registers clocked by the sync change between two pictures, so the
\* scroll request and the level's window are constant while one is drawn
\* (but for the edge at the end of a reset).
SyncOutsidePicture ==
  VS = 0 /\ ~Reset /\ ~firstLine => DrawY >= VVisible
=============================================================================
