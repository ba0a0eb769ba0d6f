-------------------------- MODULE FrameBufferProofs --------------------------
(***************************************************************************)
(* Proofs about FrameBuffer.tla under the timing of VgaTiming.tla, for     *)
(* every size of the picture and of its blanking.                          *)
(***************************************************************************)
EXTENDS FrameBuffer, TLAPS

(* Lemmas on the operators. *)

\* The sizes are numbers, and the sync does not reach the picture.
LEMMA Geometry ==
  /\ HVisible \in Nat /\ HVisible > 0 /\ HTotal \in Nat /\ HVisible < HTotal
  /\ VVisible \in Nat /\ VVisible > 0 /\ VSyncLine \in Nat /\ VVisible < VSyncLine
  /\ VTotal \in Nat /\ VSyncLine + 1 < VTotal
BY GeometryAssumption

\* Each visible pixel has an address of its own picture.
LEMMA VisibleHasAddress ==
  ASSUME VgaTypeOK, Visible
  PROVE  Address \in Addresses
<1>. USE Geometry DEF VgaTypeOK, Visible
<1>1. DrawX \in Nat /\ DrawX < HVisible /\ DrawY \in Nat /\ DrawY + 1 <= VVisible
  OBVIOUS
<1>2. \A m, n, k \in Nat : m <= n => m * k <= n * k
  OBVIOUS
<1>3. (DrawY + 1) * HVisible <= VVisible * HVisible
  BY <1>1, <1>2
<1>4. /\ (DrawY + 1) * HVisible = DrawY * HVisible + HVisible
      /\ VVisible * HVisible = HVisible * VVisible
      /\ DrawY * HVisible \in Nat
  BY <1>1
<1>. QED BY <1>1, <1>3, <1>4 DEF Address, Addresses

\* A counter that starts again.
LEMMA StepsRound ==
  ASSUME NEW n \in Nat \ {0}, NEW i \in 0..n - 1
  PROVE  (i + 1) % n = IF i + 1 = n THEN 0 ELSE i + 1
OBVIOUS

\* An edge of the 50 MHz clock moves the counters half a pixel on.
LEMMA TickMoves ==
  ASSUME VgaTypeOK, Tick, UNCHANGED Reset
  PROVE  /\ VgaTypeOK'
         /\ pixel_clk' = 1 - pixel_clk
         /\ pixel_clk = 1 => UNCHANGED <<DrawX, DrawY, VS>>
         /\ pixel_clk = 0 =>
              /\ DrawX' = IF DrawX + 1 = HTotal THEN 0 ELSE DrawX + 1
              /\ DrawY' = IF DrawX + 1 # HTotal THEN DrawY
                          ELSE IF DrawY + 1 = VTotal THEN 0 ELSE DrawY + 1
              /\ VS' = IF DrawY \in VSyncLine - 1..VSyncLine THEN 0 ELSE 1
<1>. USE Geometry DEF VgaTypeOK, Tick
<1>1. CASE pixel_clk = 1
  BY <1>1
<1>2. CASE pixel_clk = 0
  <2>1. /\ (DrawX + 1) % HTotal = IF DrawX + 1 = HTotal THEN 0 ELSE DrawX + 1
        /\ (DrawY + 1) % VTotal = IF DrawY + 1 = VTotal THEN 0 ELSE DrawY + 1
    BY StepsRound
  <2>2. /\ DrawX' = IF DrawX + 1 = HTotal THEN 0 ELSE DrawX + 1
        /\ DrawY' = IF DrawX + 1 # HTotal THEN DrawY
                    ELSE IF DrawY + 1 = VTotal THEN 0 ELSE DrawY + 1
    BY <1>2, <2>1 DEF PixelEdge
  <2>3. VS' = IF DrawY \in VSyncLine - 1..VSyncLine THEN 0 ELSE 1
    BY <1>2 DEF PixelEdge
  <2>. QED BY <1>2, <2>2, <2>3
<1>. QED BY <1>1, <1>2

-----------------------------------------------------------------------------
(* The invariant. *)

\* The memory holds pixels only, and so does its output when it is written.
MemoryOK ==
  /\ mem \in [Addresses -> Stored]
  /\ frameState = "Read_Write" => pixelOut \in Stored

\* The sync is low in the lines around VSyncLine, and after a reset until the
\* first pixel is over.
FirstPixel == DrawX = 0 /\ DrawY = 0 /\ pixel_clk = 0 /\ firstLine
SyncOK == VS = 0 => FirstPixel \/ DrawY \in VSyncLine - 1..VSyncLine + 1

\* The scroll request that a reset left is gone after the first pixel.
ScrollOK == gameState = "Start" /\ ScrollEnable => VS = 0 /\ FirstPixel

\* After the first line the machine waits in the first half of a pixel and
\* writes in the second, what it has read of this pixel.
PhaseOK ==
  ~firstLine =>
    /\ frameState = "Read_Write" =>
         Visible /\ pixel_clk = 0 /\ pixelOut = mem[Address]
    /\ frameState = "Wait" /\ Visible => pixel_clk = 1

\* The inductive invariant.
IInv == TypeOK /\ MemoryOK /\ SyncOK /\ ScrollOK /\ PhaseOK

-----------------------------------------------------------------------------
(* Every step keeps the invariant. *)

\* The write is of a pixel: what was read of the picture, or the game's.
LEMMA WriteIsPixel ==
  ASSUME TypeOK, MemoryOK, frameState = "Read_Write"
  PROVE  PixelWrite \in Stored
BY DEF TypeOK, MemoryOK, PixelWrite, Stored

LEMMA ClkKeeps ==
  ASSUME IInv, Clk
  PROVE  IInv'
<1>. USE Geometry DEF IInv
<1>1. VgaTypeOK /\ Tick /\ UNCHANGED Reset
  BY DEF TypeOK, Clk
<1>2. mem' \in [Addresses -> Stored]
  BY WriteIsPixel DEF Clk, MemoryOK
<1>3. TypeOK'
  BY <1>1, <1>2, TickMoves DEF TypeOK, Clk, NextFrameState
<1>4. frameState' = "Read_Write" <=> frameState = "Wait" /\ Visible
  BY DEF Clk, NextFrameState
<1>5. MemoryOK'
  <2>1. Visible => Read(Address) \in Stored
    BY <1>1, VisibleHasAddress DEF Read, MemoryOK
  <2>. QED BY <1>2, <1>4, <2>1 DEF MemoryOK, Clk
<1>6. SyncOK'
  <2>1. CASE pixel_clk = 1
    BY <1>1, <2>1, TickMoves DEF SyncOK, FirstPixel
  <2>2. CASE pixel_clk = 0
    BY <1>1, <2>2, TickMoves DEF SyncOK, VgaTypeOK
  <2>. QED BY <1>1, <2>1, <2>2 DEF VgaTypeOK
<1>7. ScrollOK'
  <2>1. CASE VSRises
    BY <2>1 DEF Clk, ScrollOK
  <2>2. CASE ~VSRises
    <3>1. VS = 0 /\ FirstPixel => VS' = 1
      BY <1>1, TickMoves DEF FirstPixel
    <3>2. ~(VS = 0 /\ FirstPixel)
      BY <2>2, <3>1 DEF VSRises
    <3>. QED BY <2>2, <3>2 DEF Clk, ScrollOK
  <2>. QED BY <2>1, <2>2
<1>8. PhaseOK'
  <2>. SUFFICES ASSUME ~firstLine'
                PROVE  /\ frameState' = "Read_Write" =>
                            Visible' /\ pixel_clk' = 0 /\ pixelOut' = mem'[Address']
                       /\ frameState' = "Wait" /\ Visible' => pixel_clk' = 1
    BY DEF PhaseOK
  <2>1. ~firstLine \/ ~Visible
    BY DEF Clk
  <2>2. CASE frameState' = "Read_Write"
    <3>1. ~firstLine /\ frameState = "Wait" /\ Visible /\ pixel_clk = 1
      BY <1>4, <2>1, <2>2 DEF PhaseOK
    <3>2. UNCHANGED <<DrawX, DrawY>> /\ pixel_clk' = 0
      BY <1>1, <3>1, TickMoves
    <3>3. mem' = mem /\ pixelOut' = mem[Address]
      BY <1>1, <3>1, VisibleHasAddress DEF Clk, Read
    <3>4. Visible' /\ Address' = Address
      BY <3>1, <3>2 DEF Visible, Address
    <3>. QED BY <2>2, <3>2, <3>3, <3>4
  <2>3. CASE frameState' # "Read_Write" /\ Visible'
    <3>1. ~Visible \/ frameState = "Read_Write"
      BY <1>4, <2>3 DEF TypeOK
    <3>2. CASE pixel_clk = 1
      <4>1. Visible
        BY <1>1, <2>3, <3>2, TickMoves DEF Visible
      <4>. QED BY <2>1, <3>1, <3>2, <4>1 DEF PhaseOK
    <3>3. CASE pixel_clk = 0
      BY <1>1, <2>3, <3>3, TickMoves
    <3>. QED BY <1>1, <3>2, <3>3 DEF VgaTypeOK
  <2>. QED BY <2>2, <2>3
<1>. QED BY <1>3, <1>5, <1>6, <1>7, <1>8

LEMMA ResetOnKeeps ==
  ASSUME IInv, ResetOn
  PROVE  IInv'
<1>. USE Geometry DEF IInv, ResetOn, VgaCleared
<1>1. mem' \in [Addresses -> Stored]
  BY WriteIsPixel DEF MemoryOK
<1>2. VgaTypeOK'
  BY DEF VgaTypeOK
<1>3. firstLine' \in BOOLEAN /\ ScrollEnable' \in BOOLEAN
  BY DEF TypeOK
<1>4. TypeOK'
  BY <1>1, <1>2, <1>3 DEF TypeOK
<1>5. MemoryOK'
  BY <1>1 DEF MemoryOK
<1>6. SyncOK' /\ ScrollOK' /\ PhaseOK'
  BY DEF SyncOK, ScrollOK, PhaseOK, FirstPixel
<1>. QED BY <1>4, <1>5, <1>6

\* The invariant holds when the power comes on, and every step keeps it.
THEOREM Invariance == Spec => []IInv
<1>1. Init => IInv
  <2>. SUFFICES ASSUME Init
                PROVE  IInv
    OBVIOUS
  <2>. USE Geometry DEF Init
  <2>1. VgaTypeOK /\ firstLine \in BOOLEAN /\ ScrollEnable \in BOOLEAN
    <3>1. Reset \in BOOLEAN /\ firstLine \in BOOLEAN /\ ScrollEnable \in BOOLEAN
      BY Zenon
    <3>2. /\ pixel_clk \in {0, 1} /\ VS \in {0, 1}
          /\ DrawX \in 0..HTotal - 1 /\ DrawY \in 0..VTotal - 1
      OBVIOUS
    <3>. QED BY <3>1, <3>2 DEF VgaTypeOK
  <2>2. mem \in [Addresses -> Stored]
    BY DEF Stored
  <2>3. TypeOK /\ MemoryOK
    BY <2>1, <2>2 DEF TypeOK, MemoryOK
  <2>4. SyncOK /\ ScrollOK /\ PhaseOK
    BY DEF SyncOK, ScrollOK, PhaseOK, FirstPixel
  <2>. QED BY <2>3, <2>4 DEF IInv
<1>2. IInv /\ [Next]_vars => IInv'
  <2>. SUFFICES ASSUME IInv, [Next]_vars
                PROVE  IInv'
    OBVIOUS
  <2>1. CASE Clk
    BY <2>1, ClkKeeps
  <2>2. CASE ResetOn
    BY <2>2, ResetOnKeeps
  <2>3. CASE StartGame
    BY <2>3 DEF StartGame, vgaVars, IInv, TypeOK, VgaTypeOK, MemoryOK, SyncOK,
       ScrollOK, PhaseOK, FirstPixel, Visible, Address
  <2>4. CASE ResetOff
    BY <2>4 DEF ResetOff, vgaVars, IInv, TypeOK, VgaTypeOK, MemoryOK, SyncOK,
       ScrollOK, PhaseOK, FirstPixel, Visible, Address
  <2>5. CASE UNCHANGED vars
    BY <2>5 DEF vars, vgaVars, IInv, TypeOK, VgaTypeOK, MemoryOK, SyncOK,
       ScrollOK, PhaseOK, FirstPixel, Visible, Address
  <2>. QED BY <2>1, <2>2, <2>3, <2>4, <2>5 DEF Next
<1>. QED BY <1>1, <1>2, PTL DEF Spec

\* What the memory does not have never gets into the picture, however the
\* clocks, the scrolling and the resets meet.
THEOREM PictureIsClean == Spec => []NoGarbage
<1>1. IInv => NoGarbage
  BY DEF IInv, MemoryOK, NoGarbage
<1>. QED BY <1>1, Invariance, PTL

\* The sync, and with it every register of the frame, is away from the picture.
THEOREM SyncIsOutside == Spec => []SyncOutsidePicture
<1>1. IInv => SyncOutsidePicture
  BY Geometry DEF IInv, TypeOK, VgaTypeOK, SyncOK, FirstPixel, SyncOutsidePicture
<1>. QED BY <1>1, Invariance, PTL

\* Before the game starts the buffer writes back what it has read: from the
\* second line after a reset on no write changes a pixel.
THEOREM TitleStays == Spec => StartKeepsPicture
<1>1. ASSUME IInv, [Next]_vars, gameState = "Start", ~firstLine, ~Reset'
      PROVE  mem' = mem
  <2>1. CASE Clk
    <3>1. ~ScrollEnable
      BY <1>1 DEF IInv, ScrollOK, FirstPixel
    <3>2. CASE frameState = "Read_Write"
      <4>1. Address \in Addresses /\ pixelOut = mem[Address]
        BY <1>1, <3>2, VisibleHasAddress DEF IInv, TypeOK, PhaseOK
      <4>2. WriteAddress = Address /\ PixelWrite = pixelOut
        BY <1>1, <3>1 DEF WriteAddress, PixelWrite
      <4>3. mem' = [mem EXCEPT ![Address] = mem[Address]]
        BY <2>1, <3>2, <4>1, <4>2 DEF Clk
      <4>. QED BY <1>1, <4>3 DEF IInv, MemoryOK
    <3>3. CASE frameState # "Read_Write"
      BY <2>1, <3>3 DEF Clk
    <3>. QED BY <3>2, <3>3
  <2>2. CASE StartGame \/ ResetOff \/ UNCHANGED vars
    BY <2>2 DEF StartGame, ResetOff, vars
  <2>3. CASE ResetOn
    BY <1>1, <2>3 DEF ResetOn
  <2>. QED BY <1>1, <2>1, <2>2, <2>3 DEF Next
<1>2. IInv /\ [Next]_vars
        => [gameState = "Start" /\ ~firstLine /\ ~Reset' => mem' = mem]_vars
  BY <1>1
<1>. QED BY <1>2, Invariance, PTL DEF Spec, StartKeepsPicture
=============================================================================
