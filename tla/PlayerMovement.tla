---------------------------- MODULE PlayerMovement ----------------------------
(***************************************************************************)
(* playerMovement.sv frame by frame: walking, jumping, gravity, the test   *)
(* of the platform and the request to scroll, with the parts that close    *)
(* the loop: the sprite sizes of AnimationMux.sv, the frame counter that   *)
(* clocks the gravity, the registers of the frame, the frame pointer, and  *)
(* the platform that the detector finds (its promise, FindsFirst of        *)
(* PlatformDetector.tla).  Positions are unsigned and wrap.                *)
(* VSFall is the picture and the edge that ends it, VSRise the edge that   *)
(* moves the player; the reset switch holds the sync low.                  *)
(***************************************************************************)
EXTENDS Integers, FiniteSetsExt

CONSTANTS
  Mod,                 \* 2 to the width of a position: 1024
  XStart, YStart,      \* the player after a reset: 30, 168
  XRestart, YRestart,  \* and after a fall: 30, 75
  XMin, ScrollMax,     \* the player walks between 20 and 320
  XMax, YMax,          \* the last column and line: 639, 479
  Step, ScrollStep,    \* pixels walked and scrolled in a frame: 2, 2
  Jump,                \* pixels risen in a frame of a jump: 70
  GravityStep, GravityTop,  \* the fall's speed goes up by 3 to 6
  Above, Below, Gap,   \* the feet in the platform test: 12, 8; standing: 2
  Lift, Drop,          \* a sprite in the air, with the up or down key: 23, 36
  Height, Width,       \* the sprites of the codes 0 to 8, and in the Air
  CountMod, GravityBit,\* the frame counter's modulus and tick weight: 64, 8
  LastPtr,             \* the frame pointer stops adding at this value: 3473
  HVisible, TestColumn,\* columns of the screen, and of the end test: 640, 500
  Codes,               \* the key codes the player uses
  Levels               \* what a level may be: sets of platforms

Air == 9

\* The band and the steps of a walk out of it are positions.  What a jump
\* rises in two frames, after any fall, is more than the platform test allows
\* and less than what wraps round to it: 140, 20 and 1024 in the circuit.
ASSUME PlayerAssumption ==
  /\ {Mod, Step, ScrollStep, Jump, GravityStep, GravityBit} \subseteq Nat \ {0}
  /\ {XMin, ScrollMax, XMax, YMax, GravityTop, LastPtr, HVisible} \subseteq Nat
  /\ {Above, Below, Gap, Lift, Drop} \subseteq Nat
  /\ CountMod \in Nat /\ CountMod >= 2
  /\ {XStart, XRestart} \subseteq XMin..ScrollMax
  /\ {YStart, YRestart} \subseteq 0..YMax
  /\ XMax < Mod /\ YMax < Mod /\ HVisible < Mod /\ TestColumn \in 1..Mod
  /\ 3 * Step <= XMin + 1 /\ ScrollMax + 3 * Step < Mod
  /\ Above + Below < 2 * Jump
  /\ 2 * Jump + GravityTop + GravityStep + Above + Below < Mod
  /\ Height \in [0..Air -> 0..Mod - 1] /\ Width \in [0..Air -> 0..Mod - 1]
  /\ Codes \subseteq 0..8 /\ 0 \in Codes
  /\ \A level \in Levels : \A p \in level :
       /\ p.x1 \in Nat /\ p.x2 \in Nat /\ p.x1 <= p.x2
       /\ p.y \in 0..YMax

VARIABLES
  X, Y,             \* Player_X_Pos, Player_Y_Pos
  XMotion, YMotion, \* the last frame's motion
  Direction,        \* the way the player faces
  onPlatform,
  gravityTime,      \* the speed of a fall
  keycode, Jumping, \* the frame's register of the keys
  FrameCount,       \* the frame counter
  counted,          \* the frame counter has seen this sync
  scrollBuff, FramePtr,
  platform,         \* what the detector has: x1, x2 and y
  level,
  VS,               \* the vertical sync
  stale,            \* the platform is of before the last reset
  missed            \* a picture since the platform's showed none, and scrolled

position == <<X, Y, XMotion, YMotion, Direction, onPlatform>>
counter == <<gravityTime, FrameCount, counted>>
frameVars == <<keycode, Jumping, scrollBuff, FramePtr>>
vars == <<position, counter, frameVars, platform, level, VS, stale, missed>>

TypeOK ==
  /\ X \in 0..Mod - 1 /\ Y \in 0..Mod - 1
  /\ XMotion \in {-Step, 0, Step}
  /\ YMotion \in {-Jump, 0} \cup 0..GravityTop + GravityStep
  /\ Direction \in {"Right", "Left"}
  /\ onPlatform \in BOOLEAN /\ Jumping \in BOOLEAN /\ scrollBuff \in BOOLEAN
  /\ gravityTime \in 0..GravityTop + GravityStep
  /\ keycode \in Codes
  /\ FrameCount \in 0..CountMod - 1 /\ counted \in BOOLEAN
  /\ FramePtr \in 0..LastPtr + ScrollStep
  /\ {platform.x1, platform.x2, platform.y} \subseteq 0..Mod - 1
  /\ level \in Levels
  /\ {VS, stale, missed} \subseteq BOOLEAN

AtStart ==
  /\ X' = XStart /\ Y' = YStart
  /\ XMotion' = 0 /\ YMotion' = 0
  /\ Direction' = "Right"
  /\ onPlatform' = TRUE

Init ==
  /\ X = XStart /\ Y = YStart /\ XMotion = 0 /\ YMotion = 0
  /\ Direction = "Right" /\ onPlatform = TRUE
  /\ gravityTime = 0
  /\ keycode = 0 /\ Jumping = FALSE
  /\ FrameCount = 0 /\ counted = FALSE
  /\ scrollBuff = FALSE /\ FramePtr = 0
  /\ platform = [x1 |-> 0, x2 |-> 0, y |-> 0]
  /\ level \in Levels
  /\ VS = FALSE /\ stale = TRUE /\ missed = FALSE

-----------------------------------------------------------------------------
(* What is shown: the sprite and its place. *)
Sprite == IF ~onPlatform \/ Jumping THEN Air ELSE keycode
PlayerHeight == Height[Sprite]
PlayerWidth == Width[Sprite]

PlayerY ==
  (CASE onPlatform /\ Jumping -> Y + YMotion
     [] onPlatform /\ ~Jumping -> platform.y - PlayerHeight - Gap
     [] ~onPlatform /\ keycode = 1 -> Y - Lift
     [] ~onPlatform /\ keycode = 3 -> Y + Drop
     [] OTHER -> Y) % Mod

Centre == (X + PlayerWidth \div 2) % Mod
Feet == (PlayerY + PlayerHeight) % Mod

\* The platform test, in unsigned arithmetic.
OnPlatformNext ==
  LET depth == (platform.y - PlayerY) % Mod
  IN /\ platform.x1 <= Centre /\ Centre <= platform.x2
     /\ PlayerHeight - Below <= depth /\ depth <= PlayerHeight + Above

OffScreen == X > XMax \/ Y > YMax

-----------------------------------------------------------------------------
(* The controls.  keyPress is the keyboard's signal of this moment, which is
   low from the release of a key on, also while others are held. *)
GoesLeft == keycode \in {2, 5, 7}
GoesRight == keycode \in {4, 6, 8}
TakesOff(keyPress) == keyPress /\ Jumping /\ onPlatform
Walks(keyPress) == keyPress /\ ~TakesOff(keyPress)

\* Mutant of XMotionNext: the jump key keeps the last motion, also in the air.
XMotionNextHeld(keyPress) ==
  CASE keyPress /\ Jumping -> XMotion
    [] keyPress /\ ~Jumping /\ GoesLeft /\ X > XMin -> -Step
    [] keyPress /\ ~Jumping /\ GoesRight /\ X <= ScrollMax -> Step
    [] OTHER -> 0

\* In the frames of a jump the last motion is kept.
XMotionNext(keyPress) ==
  CASE TakesOff(keyPress) -> XMotion
    [] Walks(keyPress) /\ GoesLeft /\ X > XMin -> -Step
    [] Walks(keyPress) /\ GoesRight /\ X <= ScrollMax -> Step
    [] OTHER -> 0

YMotionNext(keyPress) ==
  IF TakesOff(keyPress) THEN -Jump ELSE IF onPlatform THEN 0 ELSE gravityTime

DirectionNext(keyPress) ==
  CASE Walks(keyPress) /\ GoesLeft -> "Left"
    [] Walks(keyPress) /\ GoesRight -> "Right"
    [] OTHER -> Direction

ScrollEnable(keyPress) == X > ScrollMax /\ Walks(keyPress) /\ GoesRight

-----------------------------------------------------------------------------
(* The frame counter and the gravity. *)

\* Mutant of CountNext: the last value lasts a frame, as the others do.
CountNextEven == (FrameCount + 1) % CountMod

\* The counter's last value lasts one pixel only.
CountNext == (FrameCount + 1) % (CountMod - 1)

GravityTick == (FrameCount \div GravityBit) % 2 = 0
            /\ ((FrameCount + 1) \div GravityBit) % 2 = 1

\* The negative gravity of a jump is never taken: while the player is on the
\* platform, as he is in the frames of a jump, the tick clears the gravity.
Gravity(grounded) ==
  IF grounded THEN 0
  ELSE IF gravityTime >= GravityTop THEN gravityTime ELSE gravityTime + GravityStep

Count(grounded) ==
  /\ FrameCount' = CountNext
  /\ gravityTime' = IF GravityTick THEN Gravity(grounded) ELSE gravityTime
  /\ counted' = TRUE

-----------------------------------------------------------------------------
(* The detector: the leftmost platform of the first line, from the feet on,
   that shows one; it looks while the player is off the ground or the level
   scrolls.  A platform's columns are noted one late, as PlatformDetector
   shows, and its end before the test column. *)
Shown == {p \in level : p.y >= Feet /\ p.x2 >= FramePtr /\ p.x1 < FramePtr + HVisible}

\* Mutant of Searching: it does not look while the level scrolls.
SearchingInAir == ~onPlatform /\ Shown # {}

Searching == (~onPlatform \/ scrollBuff) /\ Shown # {}

Found ==
  LET first == CHOOSE p \in Shown : \A q \in Shown :
                 p.y < q.y \/ (p.y = q.y /\ p.x1 <= q.x1)
  IN [x1 |-> Max({first.x1 - FramePtr, 0}) + 1,
      x2 |-> Min({first.x2 - FramePtr + 1, TestColumn - 1}),
      y |-> first.y]

\* The picture is drawn and the sync falls; two pixels later the frame
\* counter counts.
VSFall ==
  /\ VS
  /\ VS' = FALSE
  /\ platform' = IF Searching THEN Found ELSE platform
  /\ stale' = (stale /\ ~Searching)
  /\ missed' = (~Searching /\ (missed \/ (scrollBuff /\ Shown = {})))
  /\ Count(onPlatform \/ OffScreen)
  /\ UNCHANGED <<position, frameVars, level>>

Restart ==
  /\ X' = XRestart /\ Y' = YRestart
  /\ XMotion' = 0 /\ YMotion' = 0
  /\ Direction' = "Right"
  /\ onPlatform' = FALSE

Move(keyPress) ==
  /\ XMotion' = XMotionNext(keyPress)
  /\ YMotion' = YMotionNext(keyPress)
  /\ X' = (X + XMotion') % Mod
  /\ Y' = (Y + YMotion') % Mod
  /\ Direction' = DirectionNext(keyPress)
  /\ onPlatform' = OnPlatformNext

\* The rising edge of the sync.  After a reset the frame counter sees the
\* sync of the reset only now, when the player has moved.
VSRise ==
  /\ ~VS
  /\ VS' = TRUE
  /\ \E keyPress \in BOOLEAN :
       /\ IF OffScreen THEN Restart ELSE Move(keyPress)
       /\ scrollBuff' = ScrollEnable(keyPress)
  /\ FramePtr' = IF scrollBuff /\ FramePtr < LastPtr THEN FramePtr + ScrollStep ELSE FramePtr
  /\ IF counted THEN UNCHANGED counter
     ELSE Count(onPlatform' \/ X' > XMax \/ Y' > YMax)
  /\ keycode' \in Codes
  /\ Jumping' \in BOOLEAN
  /\ UNCHANGED <<platform, level, stale, missed>>

\* The reset switch goes on and off.  The sync falls with it and the clocks
\* stand still: the registers of the frame, the gravity, the counter and the
\* detector keep their values.  A search that it cuts has noted a platform,
\* or only its beginning, or nothing yet.
ResetSwitch ==
  /\ VS' = FALSE
  /\ AtStart
  /\ FramePtr' = 0
  /\ counted' = (counted /\ ~VS)
  /\ \/ platform' = platform
     \/ VS /\ Searching /\ platform' = Found
     \/ VS /\ Searching /\ platform' = [Found EXCEPT !.x2 = platform.x2]
  /\ stale' = TRUE /\ missed' = FALSE
  /\ UNCHANGED <<gravityTime, FrameCount, keycode, Jumping, scrollBuff, level>>

Next == VSFall \/ VSRise \/ ResetSwitch

(* The sync has edges for ever, whatever the player does. *)
Spec == Init /\ [][Next]_vars /\ WF_VS(VS' = ~VS)

-----------------------------------------------------------------------------
(* What should hold. *)

\* The player stays in the band of the screen that the level scrolls in, up
\* to a step of his walk and the two frames of a jump that keep the last
\* motion; every register keeps its type.
InBand == TypeOK /\ X \in XMin + 1 - 3 * Step..ScrollMax + 3 * Step

\* Who is found to be on a platform has one of the level under his middle:
\* what the detector noted is never older than one scrolled frame, unless it
\* is of before a reset, or a scrolled picture showed no platform below the feet.
StandsOnGround ==
  [][~VS /\ VS' /\ onPlatform' /\ ~stale /\ ~missed =>
       \E p \in level :
         /\ p.y = platform.y
         /\ Centre + FramePtr \in p.x1 + 1..p.x2 + 1 + ScrollStep]_vars

\* With the keys up, no more resets and a platform noted since the last one,
\* the player stands or falls in the end: a player at the edge of a platform,
\* who is over it with the sprite in the air and not over it with the one that
\* waits, does not hang between the two.
Settles ==
  <>[](keycode = 0 /\ ~Jumping /\ ~stale) => <>[]onPlatform \/ []<>OffScreen
=============================================================================
