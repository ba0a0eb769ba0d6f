------------------------------- MODULE Bullet -------------------------------
(***************************************************************************)
(* bullet.sv: the one bullet of the player.  On each vertical sync a state *)
(* machine (shootFlag) and the position advance; the rising edge of the    *)
(* fire key, which may come at any time, saves the direction of the shot.  *)
(* The position has 10 bits and wraps: a bullet that leaves the screen at  *)
(* the left or the top is found at a coordinate beyond the right or bottom *)
(* edge.  The player and the code of his keys are inputs that change with  *)
(* the same sync.                                                          *)
(***************************************************************************)
EXTENDS Integers

CONSTANTS
  Mod,            \* 2 to the width of a coordinate: 1024
  XMax, YMax,     \* the last column and line of the screen: 639, 479
  Step,           \* pixels a bullet moves in a frame: 3
  Edge, Mid, Low, \* offsets of the muzzle in the sprite: 5, 3, 10
  Width, Height,  \* the player's sprite
  PlayerXs, PlayerYs   \* where the player may be

ASSUME GeometryAssumption ==
  /\ {Mod, XMax, YMax, Step, Width, Height} \subseteq Nat \ {0}
  /\ {Edge, Mid, Low} \subseteq Nat
  /\ XMax + Step < Mod /\ YMax + Step < Mod
  /\ PlayerXs \subseteq 0..Mod - 1 /\ PlayerYs \subseteq 0..Mod - 1

VARIABLES
  shootFlag,        \* "shootWait", "shootPressed" or "shootEnd"
  X, Y,             \* the position of the bullet
  motion,           \* its direction, <<0, 0>> at rest
  saved,            \* the direction when the fire key went down last
  shootingEnable,   \* the fire key
  keycode,          \* the code of the player's keys
  direction,        \* the way the player faces
  PlayerX, PlayerY, \* the player
  again,            \* the fire key went down again during this flight
  cut               \* the player was reset in this frame

playerVars == <<keycode, direction, PlayerX, PlayerY>>
vars == <<shootFlag, X, Y, motion, saved, shootingEnable, playerVars, again, cut>>

Vectors == (-1..1) \X (-1..1)
Rest == <<0, 0>>

TypeOK ==
  /\ shootFlag \in {"shootWait", "shootPressed", "shootEnd"}
  /\ X \in 0..Mod - 1 /\ Y \in 0..Mod - 1
  /\ motion \in Vectors /\ saved \in Vectors
  /\ shootingEnable \in BOOLEAN
  /\ keycode \in 0..8
  /\ direction \in {"Right", "Left"}
  /\ PlayerX \in PlayerXs /\ PlayerY \in PlayerYs
  /\ again \in BOOLEAN /\ cut \in BOOLEAN

Init ==
  /\ shootFlag = "shootWait"
  /\ X = 0 /\ Y = 0 /\ motion = Rest /\ saved = Rest
  /\ shootingEnable = FALSE
  /\ keycode = 0 /\ direction = "Right"
  /\ PlayerX \in PlayerXs /\ PlayerY \in PlayerYs
  /\ again = FALSE /\ cut = FALSE

-----------------------------------------------------------------------------
\* The way a bullet goes for a code: the codes name one or two keys.
Facing(d) == IF d = "Right" THEN 1 ELSE -1

Aim(k, d) ==
  CASE k \in {0, 3} -> <<Facing(d), 0>>
    [] k = 1 -> <<0, -1>>
    [] k = 2 -> <<-1, 0>>
    [] k = 4 -> <<1, 0>>
    [] k = 5 -> <<-1, -1>>
    [] k = 6 -> <<1, -1>>
    [] k = 7 -> <<-1, 1>>
    [] k = 8 -> <<1, 1>>

\* Where a bullet starts, in the sprite: the side or middle the code shows.
MuzzleX(k, d) ==
  CASE k \in {6, 8} \/ (k \in {0, 3} /\ d = "Right") -> PlayerX + Width - Edge
    [] k \in {2, 5, 7} \/ (k \in {0, 3} /\ d = "Left") -> PlayerX + Edge
    [] k = 4 \/ (k = 1 /\ d = "Right") -> PlayerX + Width \div 2 + Mid
    [] OTHER -> PlayerX + Width \div 2 - Mid

MuzzleY(k) ==
  CASE k \in {0, 2, 4} -> PlayerY + Height \div 2 - Edge
    [] k \in {1, 5, 6} -> PlayerY + Edge
    [] k = 3 -> PlayerY + Height \div 2
    [] OTHER -> PlayerY + Height - Low

\* A mutant of OffScreen: the columns only.
OffScreenColumns == X > XMax

\* The tests against the left and top edges, position < 0, are never true.
OffScreen == X > XMax \/ Y > YMax

\* finalProjectTopLevel.sv:98 ties the collision input to 0.
Collision == FALSE

\* Mutants of NextFlag: a flight ends when the fire key comes up; the gun is
\* ready again while the key is still down.
NextFlagRelease ==
  CASE shootFlag = "shootWait" /\ shootingEnable -> "shootPressed"
    [] shootFlag = "shootPressed" /\ (OffScreen \/ ~shootingEnable) -> "shootEnd"
    [] shootFlag = "shootEnd" /\ ~shootingEnable -> "shootWait"
    [] OTHER -> shootFlag

NextFlagAutofire ==
  CASE shootFlag = "shootWait" /\ shootingEnable -> "shootPressed"
    [] shootFlag = "shootPressed" /\ OffScreen -> "shootEnd"
    [] shootFlag = "shootEnd" -> "shootWait"
    [] OTHER -> shootFlag

NextFlag ==
  CASE shootFlag = "shootWait" /\ shootingEnable -> "shootPressed"
    [] shootFlag = "shootPressed" /\ OffScreen -> "shootEnd"
    [] shootFlag = "shootEnd" /\ ~shootingEnable -> "shootWait"
    [] OTHER -> shootFlag

-----------------------------------------------------------------------------
\* A mutant of FireDown: the way the player faces is saved, not his keys.
FireDownFacing ==
  /\ ~shootingEnable
  /\ shootingEnable' = TRUE
  /\ saved' = <<Facing(direction), 0>>
  /\ again' = (again \/ shootFlag = "shootPressed")
  /\ UNCHANGED <<shootFlag, X, Y, motion, playerVars, cut>>

\* The fire key goes down: the direction of this moment is saved, in
\* whatever state the gun is.
FireDown ==
  /\ ~shootingEnable
  /\ shootingEnable' = TRUE
  /\ saved' = Aim(keycode, direction)
  /\ again' = (again \/ shootFlag = "shootPressed")
  /\ UNCHANGED <<shootFlag, X, Y, motion, playerVars, cut>>

FireUp ==
  /\ shootingEnable
  /\ shootingEnable' = FALSE
  /\ UNCHANGED <<shootFlag, X, Y, motion, saved, playerVars, again, cut>>

\* Mutant of Move: the bullet follows the keys in flight.
MoveFollowing ==
  IF shootFlag = "shootPressed" /\ ~OffScreen /\ ~Collision
  THEN /\ motion' = Aim(keycode, direction)
       /\ X' = (X + Step * motion[1]) % Mod
       /\ Y' = (Y + Step * motion[2]) % Mod
  ELSE /\ motion' = Rest
       /\ IF shootFlag = "shootWait"
          THEN X' = MuzzleX(keycode, direction) % Mod /\ Y' = MuzzleY(keycode) % Mod
          ELSE UNCHANGED <<X, Y>>

\* At rest the bullet is at the muzzle, in flight it moves by the direction
\* that it took over one frame before.
Move ==
  IF shootFlag = "shootPressed" /\ ~OffScreen /\ ~Collision
  THEN /\ motion' = saved
       /\ X' = (X + Step * motion[1]) % Mod
       /\ Y' = (Y + Step * motion[2]) % Mod
  ELSE /\ motion' = Rest
       /\ IF shootFlag = "shootWait"
          THEN X' = MuzzleX(keycode, direction) % Mod /\ Y' = MuzzleY(keycode) % Mod
          ELSE UNCHANGED <<X, Y>>

\* The rising edge of the vertical sync.  The register of the key code and
\* the player's position and direction take new values at the same edge.
VSRise ==
  /\ shootFlag' = NextFlag
  /\ Move
  /\ keycode' \in 0..8
  /\ direction' \in {"Right", "Left"}
  /\ PlayerX' \in PlayerXs /\ PlayerY' \in PlayerYs
  /\ again' = (again /\ shootFlag' = "shootPressed")
  /\ cut' = FALSE
  /\ UNCHANGED <<saved, shootingEnable>>

\* The reset switch: the gun's own reset is read on the sync, which stays
\* low while the switch is on; the player is put back and turned right.
ResetPlayer ==
  /\ direction' = "Right"
  /\ PlayerX' \in PlayerXs /\ PlayerY' \in PlayerYs
  /\ cut' = TRUE
  /\ UNCHANGED <<shootFlag, X, Y, motion, saved, shootingEnable, keycode, again>>

Next == FireDown \/ FireUp \/ VSRise \/ ResetPlayer

(* The sync never stops for good. *)
Spec == Init /\ [][Next]_vars /\ WF_vars(VSRise)

-----------------------------------------------------------------------------
(* What should hold. *)

\* A bullet whose flight is over has its centre off the screen, where it stays
\* until the fire key is up: the flight does not end on the screen.  A ready
\* gun's bullet lies at the muzzle and is not meant.  Every register keeps its
\* type.
SpentIsHidden == TypeOK /\ (shootFlag = "shootEnd" => OffScreen)

\* A shot goes the way the keys and the player showed when its start was
\* chosen, though the edge that saves the way and the sync that takes the
\* start are two clocks.
ShotMatchesAim ==
  [][shootFlag = "shootWait" /\ shootFlag' = "shootPressed" /\ ~cut
       => saved = Aim(keycode, direction)]_vars

\* A bullet in flight keeps its way, whatever the player does with the other
\* keys, unless the fire key goes down again.
StraightUnlessAgain ==
  [][shootFlag = "shootPressed" /\ shootFlag' = "shootPressed" /\ motion # Rest
       => motion' = motion \/ again]_vars

\* If the fire key stays up in the end, the gun gets ready: every flight
\* ends, also those that leave at the left or the top by wrapping.
GunReady == <>[](~shootingEnable) => <>[](shootFlag = "shootWait")

\* If the fire key stays down in the end, there is one last shot and the gun
\* waits for the key to come up.
HeldFiresOnce == <>[]shootingEnable => <>[](shootFlag = "shootEnd")
=============================================================================
