----------------------------- MODULE BulletProofs -----------------------------
(***************************************************************************)
(* Proofs about Bullet.tla, for every screen, width of the coordinates,    *)
(* speed of the bullet, sprite and set of places of the player; and about  *)
(* GameControl.tla, which gives the bullet its keys, for every length of   *)
(* the level and number of held keys.                                      *)
(***************************************************************************)
EXTENDS Bullet, GameControl, SequenceTheorems, TLAPS

\* While the gun is ready and the fire key is down, the way that is saved is
\* the one the player shows: the key went down in this frame, and what he shows
\* changes with the sync only, or by a reset (cut).
SavedIsAim ==
  shootFlag = "shootWait" /\ shootingEnable /\ ~cut => saved = Aim(keycode, direction)

\* A bullet that moves goes the way that is saved, unless the fire key went
\* down again during its flight.
MovesAsSaved ==
  shootFlag = "shootPressed" /\ motion # Rest => motion = saved \/ again

\* The inductive invariant.
IInv == SpentIsHidden /\ SavedIsAim /\ MovesAsSaved

-----------------------------------------------------------------------------
(* Lemmas on the operators. *)

LEMMA Geometry ==
  /\ Mod \in Nat \ {0} /\ XMax \in Nat /\ YMax \in Nat
  /\ Step \in Nat /\ Width \in Nat /\ Height \in Nat
  /\ Edge \in Nat /\ Mid \in Nat /\ Low \in Nat
  /\ PlayerXs \subseteq 0..Mod - 1 /\ PlayerYs \subseteq 0..Mod - 1
BY GeometryAssumption

\* Every code shows one of the eight ways or, with the facing, one of two.
LEMMA AimIsVector ==
  ASSUME NEW k \in 0..8, NEW d \in {"Right", "Left"}
  PROVE  Aim(k, d) \in Vectors
<1>1. Facing(d) \in {-1, 1}
  BY DEF Facing
<1>2. k \in {0, 1, 2, 3, 4, 5, 6, 7, 8}
  OBVIOUS
<1>. QED BY <1>1, <1>2 DEF Aim, Vectors

\* The muzzle is a place, before it is cut to the width of a coordinate.
LEMMA MuzzleIsPlace ==
  ASSUME NEW k \in 0..8, NEW d \in {"Right", "Left"},
         PlayerX \in PlayerXs, PlayerY \in PlayerYs
  PROVE  MuzzleX(k, d) \in Int /\ MuzzleY(k) \in Int
<1>1. /\ PlayerX \in Int /\ PlayerY \in Int
      /\ Width \div 2 \in Int /\ Height \div 2 \in Int
  BY Geometry
<1>2. MuzzleX(k, d) \in Int
  BY <1>1, Geometry DEF MuzzleX
<1>3. MuzzleY(k) \in Int
  BY <1>1, Geometry DEF MuzzleY
<1>. QED BY <1>2, <1>3

\* A step of the bullet, or a muzzle, is cut to the width of a coordinate.
LEMMA CutToWidth ==
  ASSUME NEW i \in Int
  PROVE  i % Mod \in 0..Mod - 1
BY Geometry

LEMMA StepIsPlace ==
  ASSUME NEW i \in 0..Mod - 1, NEW m \in -1..1
  PROVE  i + Step * m \in Int
BY Geometry

-----------------------------------------------------------------------------
(* Every step keeps the invariant. *)

\* The position and the direction of a bullet after a frame.
LEMMA MoveTypes ==
  ASSUME TypeOK, Move
  PROVE  /\ X' \in 0..Mod - 1 /\ Y' \in 0..Mod - 1
         /\ motion' \in Vectors
<1>. USE DEF TypeOK
<1>1. motion[1] \in -1..1 /\ motion[2] \in -1..1 /\ Rest \in Vectors
  BY DEF Vectors, Rest
<1>2. CASE shootFlag = "shootPressed" /\ ~OffScreen /\ ~Collision
  <2>1. X + Step * motion[1] \in Int /\ Y + Step * motion[2] \in Int
    BY <1>1, StepIsPlace
  <2>. QED BY <1>2, <2>1, CutToWidth DEF Move
<1>3. CASE ~(shootFlag = "shootPressed" /\ ~OffScreen /\ ~Collision)
  <2>1. MuzzleX(keycode, direction) \in Int /\ MuzzleY(keycode) \in Int
    BY MuzzleIsPlace
  <2>. QED BY <1>1, <1>3, <2>1, CutToWidth DEF Move
<1>. QED BY <1>2, <1>3

\* What the sync does to the gun: a shot begins with the key down, and ends
\* off the screen, where the bullet is left.
LEMMA FlagSteps ==
  ASSUME TypeOK, VSRise
  PROVE  /\ shootFlag' \in {"shootWait", "shootPressed", "shootEnd"}
         /\ shootFlag' = "shootWait" => ~shootingEnable
         /\ shootFlag' = "shootPressed" =>
              IF shootFlag = "shootWait" THEN motion' = Rest ELSE motion' = saved
         /\ shootFlag' = "shootEnd" =>
              /\ UNCHANGED <<X, Y>>
              /\ shootFlag = "shootEnd" \/ OffScreen
<1>. USE DEF TypeOK, VSRise, NextFlag, Move, Collision
<1>1. CASE shootFlag = "shootWait"
  BY <1>1
<1>2. CASE shootFlag = "shootPressed"
  BY <1>2
<1>3. CASE shootFlag = "shootEnd"
  BY <1>3
<1>. QED BY <1>1, <1>2, <1>3

LEMMA VSRiseKeeps ==
  ASSUME IInv, VSRise
  PROVE  IInv'
<1>. USE DEF IInv, SpentIsHidden
<1>1. TypeOK'
  <2>1. again' \in BOOLEAN /\ cut' \in BOOLEAN
    BY DEF VSRise, TypeOK
  <2>. QED BY <2>1, FlagSteps, MoveTypes DEF TypeOK, VSRise
<1>2. shootFlag' = "shootEnd" => OffScreen'
  BY FlagSteps DEF OffScreen
<1>3. SavedIsAim'
  BY FlagSteps DEF SavedIsAim, VSRise
<1>4. MovesAsSaved'
  BY FlagSteps DEF MovesAsSaved, VSRise
<1>. QED BY <1>1, <1>2, <1>3, <1>4

\* The invariant holds at the start, and every step keeps it.
THEOREM Invariance == Spec => []IInv
<1>1. Init => IInv
  <2>. SUFFICES ASSUME Init
                PROVE  IInv
    OBVIOUS
  <2>1. shootingEnable \in BOOLEAN /\ again \in BOOLEAN /\ cut \in BOOLEAN
    BY Zenon DEF Init
  <2>2. 0 \in 0..Mod - 1 /\ Rest \in Vectors
    BY Geometry DEF Rest, Vectors
  <2>. QED BY <2>1, <2>2 DEF Init, IInv, TypeOK, SpentIsHidden, SavedIsAim,
              MovesAsSaved
<1>2. IInv /\ [Next]_vars => IInv'
  <2>. SUFFICES ASSUME IInv, [Next]_vars
                PROVE  IInv'
    OBVIOUS
  <2>. USE DEF IInv, TypeOK, SpentIsHidden, SavedIsAim, MovesAsSaved, OffScreen,
               playerVars
  <2>1. CASE FireDown
    <3>1. saved' \in Vectors
      BY <2>1, AimIsVector DEF FireDown
    <3>2. shootingEnable' \in BOOLEAN /\ again' \in BOOLEAN
      BY <2>1 DEF FireDown
    <3>. QED BY <2>1, <3>1, <3>2 DEF FireDown
  <2>2. CASE FireUp
    <3>1. shootingEnable' \in BOOLEAN
      BY <2>2 DEF FireUp
    <3>. QED BY <2>2, <3>1 DEF FireUp
  <2>3. CASE VSRise
    BY <2>3, VSRiseKeeps
  <2>4. CASE ResetPlayer
    BY <2>4 DEF ResetPlayer
  <2>5. CASE UNCHANGED vars
    BY <2>5 DEF vars
  <2>. QED BY <2>1, <2>2, <2>3, <2>4, <2>5 DEF Next
<1>. QED BY <1>1, <1>2, PTL DEF Spec

\* A flight ends with the bullet's centre beyond the screen's right or bottom
\* edge, where a wrap at the left or the top takes it too, and there it stays
\* until the gun is ready again; no register leaves its width.
THEOREM SpentStaysHidden == Spec => []SpentIsHidden
<1>1. IInv => SpentIsHidden
  BY DEF IInv
<1>. QED BY <1>1, Invariance, PTL

\* The shot goes the way the player aimed, though two clocks take its parts.
THEOREM ShotGoesAsAimed == Spec => ShotMatchesAim
<1>1. ASSUME IInv, [Next]_vars,
             shootFlag = "shootWait", shootFlag' = "shootPressed", ~cut
      PROVE  saved = Aim(keycode, direction)
  <2>1. VSRise
    BY <1>1 DEF Next, FireDown, FireUp, ResetPlayer, vars
  <2>2. shootingEnable
    BY <1>1, <2>1 DEF VSRise, NextFlag
  <2>. QED BY <1>1, <2>2 DEF IInv, SavedIsAim
<1>2. IInv /\ [Next]_vars
        => [shootFlag = "shootWait" /\ shootFlag' = "shootPressed" /\ ~cut
              => saved = Aim(keycode, direction)]_vars
  BY <1>1
<1>. QED BY <1>2, Invariance, PTL DEF Spec, ShotMatchesAim

\* A bullet in flight keeps its way unless the fire key goes down again.
THEOREM FlightIsStraight == Spec => StraightUnlessAgain
<1>1. ASSUME IInv, [Next]_vars, shootFlag = "shootPressed",
             shootFlag' = "shootPressed", motion # Rest
      PROVE  motion' = motion \/ again
  <2>1. CASE VSRise
    <3>1. motion' = saved
      BY <1>1, <2>1, FlagSteps DEF IInv, SpentIsHidden
    <3>. QED BY <1>1, <3>1 DEF IInv, MovesAsSaved
  <2>2. CASE ~VSRise
    BY <1>1, <2>2 DEF Next, FireDown, FireUp, ResetPlayer, vars
  <2>. QED BY <2>1, <2>2
<1>2. IInv /\ [Next]_vars
        => [shootFlag = "shootPressed" /\ shootFlag' = "shootPressed" /\ motion # Rest
              => motion' = motion \/ again]_vars
  BY <1>1
<1>. QED BY <1>2, Invariance, PTL DEF Spec, StraightUnlessAgain

-----------------------------------------------------------------------------
(* GameControl.tla, which gives the bullet its keys: the window on the      *)
(* level, for every length of the level and number of held keys.           *)

\* A code is one of the nine whatever the keys are.
LEMMA KeyCodeIsCode ==
  ASSUME NEW n \in Nat, NEW k1, NEW k2
  PROVE  KeyCode(n, k1, k2) \in Codes
<1>1. Single(k1) \in 0..8
  BY DEF Single
<1>2. Pair(k1, k2) \in 0..8
  BY <1>1 DEF Pair
<1>. QED BY <1>1, <1>2 DEF KeyCode, Codes

\* A key that comes up leaves a list that is one shorter.
LEMMA RemovedIsShorter ==
  ASSUME NEW s \in Seq(Letters), NEW i \in DOMAIN s
  PROVE  /\ List!RemoveAt(s, i) \in Seq(Letters)
         /\ Len(List!RemoveAt(s, i)) = Len(s) - 1
BY DEF List!RemoveAt

LEMMA WindowAtFirst ==
  ASSUME ControlInit
  PROVE  WindowInLevel
<1>1. held \in Seq(Letters) /\ Len(held) <= 4
  BY DEF ControlInit
<1>2. completeKeyCode \in [code : Codes, jump : BOOLEAN]
  BY DEF ControlInit, NoCode, Codes
<1>3. FramePtr \in Nat /\ FramePtr <= LastPtr + 1
  BY BoundAssumption DEF ControlInit
<1>. QED BY <1>1, <1>2, <1>3, Zenon
       DEF ControlInit, ControlTypeOK, WindowInLevel

LEMMA WindowStep ==
  ASSUME WindowInLevel, [ControlNext]_controlVars
  PROVE  WindowInLevel'
<1>. USE DEF WindowInLevel, ControlTypeOK, keyboardVars, frameVars
<1>1. CASE LetterKey
  <2>1. PICK k \in Letters :
          \/ Len(held) < MaxHeld /\ List!Press(k)
          \/ List!Release(k)
    BY <1>1 DEF LetterKey
  <2>2. held' \in Seq(Letters) /\ Len(held') <= 4
    <3>1. CASE Len(held) < MaxHeld /\ List!Press(k)
      <4>1. held' = Append(held, k)
        BY <3>1 DEF List!Press
      <4>. QED BY <3>1, <4>1, BoundAssumption
    <3>2. CASE List!Release(k)
      <4>1. PICK i \in DOMAIN held : held' = List!RemoveAt(held, i)
        BY <3>2 DEF List!Release
      <4>. QED BY <4>1, RemovedIsShorter
    <3>. QED BY <2>1, <3>1, <3>2
  <2>. QED BY <1>1, <2>2, Zenon DEF LetterKey
<1>2. CASE FlagKey
  <2>1. Shooting' \in BOOLEAN /\ Jumping' \in BOOLEAN
    BY <1>2 DEF FlagKey
  <2>. QED BY <1>2, <2>1, Zenon DEF FlagKey
<1>3. CASE ScrollRequest
  <2>1. scrollEnable' \in BOOLEAN
    BY <1>3 DEF ScrollRequest
  <2>. QED BY <1>3, <2>1, Zenon DEF ScrollRequest
<1>4. CASE Clk
  <2>1. /\ key1' \in Letters \cup {None}
        /\ key2' \in Letters \cup {None}
    BY <1>4 DEF Clk
  <2>2. gameState' \in {"Start", "Play", "GameOver"}
    BY <1>4 DEF Clk, NextGameState
  <2>. QED BY <1>4, <2>1, <2>2, Zenon DEF Clk
<1>5. CASE SyncFall
  BY <1>5 DEF SyncFall
<1>6. CASE SyncRise
  <2>1. completeKeyCode' \in [code : Codes, jump : BOOLEAN]
    <3>1. KeyCode(Len(held), key1, key2) \in Codes
      BY KeyCodeIsCode
    <3>. QED BY <1>6, <3>1 DEF SyncRise
  <2>2. FramePtr' \in Nat /\ FramePtr' <= LastPtr + 1
    BY <1>6, BoundAssumption DEF SyncRise
  <2>3. scrollBuff' \in BOOLEAN /\ VS' \in BOOLEAN
    BY <1>6 DEF SyncRise
  <2>. QED BY <1>6, <2>1, <2>2, <2>3, Zenon DEF SyncRise
<1>7. CASE ResetOn
  <2>1. /\ held' \in Seq(Letters) /\ Len(held') <= 4
        /\ FramePtr' \in Nat /\ FramePtr' <= LastPtr + 1
    BY <1>7, BoundAssumption DEF ResetOn
  <2>. QED BY <1>7, <2>1, Zenon DEF ResetOn
<1>8. CASE ResetOff
  BY <1>8 DEF ResetOff
<1>9. CASE UNCHANGED controlVars
  BY <1>9, Zenon DEF controlVars
<1>. QED BY <1>1, <1>2, <1>3, <1>4, <1>5, <1>6, <1>7, <1>8, <1>9 DEF ControlNext

\* The window on the level never passes the level's right end, although the
\* pointer goes on by two columns and is compared with the end before.
THEOREM WindowStays == ControlSpec => []WindowInLevel
<1>1. ControlInit => WindowInLevel
  BY WindowAtFirst
<1>2. WindowInLevel /\ [ControlNext]_controlVars => WindowInLevel'
  BY WindowStep
<1>. QED BY <1>1, <1>2, PTL DEF ControlSpec
=============================================================================
