----------------------------- MODULE GameControl -----------------------------
(***************************************************************************)
(* From the keyboard block to the state of the game: keyCodeGenerator.sv   *)
(* turns the list of held keys into one code, a register clocked by the    *)
(* vertical sync (Register5Bits) holds the code for a frame,               *)
(* GameController.sv decides what is on the screen from the register, and  *)
(* Register1Bit and FramePtrRegister.sv, clocked by the same sync, move    *)
(* the window on the level.  Three clocks meet here: the 50 MHz clock, the *)
(* vertical sync, and the reset switch, which holds the sync low.          *)
(* The keyboard block is the list of KeyList.tla with its two first        *)
(* entries registered one clock later (Keyboard.tla).                      *)
(***************************************************************************)
EXTENDS Naturals, Sequences

CONSTANTS
  MaxHeld,    \* bound: letter keys held at once
  LastPtr     \* FramePtrRegister.sv stops adding at this value: 3473

ASSUME BoundAssumption == MaxHeld \in 0..4 /\ LastPtr \in Nat

Letters == {"W", "A", "S", "D"}
None == "none"

VARIABLES
  held,             \* the keyboard block's list of letter keys
  Shooting, Jumping,\* its flags for the fire and the jump key
  key1, key2,       \* its registered outputs
  completeKeyCode,  \* the register of the frame: the code and the jump flag
  gameState,        \* the state of the game controller
  scrollEnable,     \* the player asks the level to scroll
  scrollBuff,       \* the register of that request
  FramePtr,         \* the column of the level at the left of the screen
  VS,               \* the vertical sync
  reset             \* the reset switch

keyboardVars == <<held, Shooting, Jumping>>
frameVars == <<completeKeyCode, scrollBuff, FramePtr>>
controlVars == <<keyboardVars, key1, key2, frameVars, gameState,
                 scrollEnable, VS, reset>>

List == INSTANCE KeyList WITH Keys <- Letters

Codes == 0..8
NoCode == [code |-> 0, jump |-> FALSE]

ControlTypeOK ==
  /\ held \in Seq(Letters) /\ Len(held) <= 4
  /\ Shooting \in BOOLEAN /\ Jumping \in BOOLEAN
  /\ key1 \in Letters \cup {None} /\ key2 \in Letters \cup {None}
  /\ completeKeyCode \in [code : Codes, jump : BOOLEAN]
  /\ gameState \in {"Start", "Play", "GameOver"}
  /\ scrollEnable \in BOOLEAN /\ scrollBuff \in BOOLEAN
  /\ FramePtr \in Nat
  /\ VS \in BOOLEAN /\ reset \in BOOLEAN

ControlInit ==
  /\ held = <<>> /\ Shooting = FALSE /\ Jumping = FALSE
  /\ key1 = None /\ key2 = None
  /\ completeKeyCode = NoCode
  /\ gameState = "Start"
  /\ scrollEnable = FALSE /\ scrollBuff = FALSE
  /\ FramePtr = 0
  /\ VS = FALSE /\ reset = TRUE

-----------------------------------------------------------------------------
(* keyCodeGenerator.sv *)

Single(k) == CASE k = "W" -> 1 [] k = "A" -> 2 [] k = "S" -> 3 [] k = "D" -> 4
               [] OTHER -> 0

Pair(k1, k2) ==
  CASE {k1, k2} = {"W", "A"} -> 5
    [] {k1, k2} = {"W", "D"} -> 6
    [] {k1, k2} = {"S", "A"} -> 7
    [] {k1, k2} = {"S", "D"} -> 8
    [] OTHER -> Single(k1)

\* The code of the number of keys and of the two registered keys, of which
\* the number may be one clock ahead.
KeyCode(count, k1, k2) ==
  IF count = 1 THEN Single(k1) ELSE IF count = 2 THEN Pair(k1, k2) ELSE 0

(* GameController.sv *)
NextGameState(state, anyKey, playerDead) ==
  CASE state = "Start" /\ anyKey -> "Play"
    [] state = "Play" /\ playerDead -> "GameOver"
    [] state = "GameOver" /\ anyKey -> "Play"
    [] OTHER -> state

\* finalProjectTopLevel.sv leaves the input playerDead open.
PlayerDead == FALSE

\* A mutant of AnyKey: the register of the frame is not connected.
AnyKeyFireOnly == Shooting

\* The keys the controller sees: the fire key as it is, the others as the
\* frame's register has them.
AnyKey == Shooting \/ completeKeyCode # NoCode

-----------------------------------------------------------------------------
(* The keyboard block reports a change; its outputs follow with the clock. *)
LetterKey ==
  /\ ~reset
  /\ \E k \in Letters :
       \/ /\ Len(held) < MaxHeld /\ List!Press(k)
       \/ /\ List!Release(k)
  /\ UNCHANGED <<Shooting, Jumping, key1, key2, frameVars, gameState,
                 scrollEnable, VS, reset>>

FlagKey ==
  /\ ~reset
  /\ \/ Shooting' = ~Shooting /\ Jumping' = Jumping
     \/ Jumping' = ~Jumping /\ Shooting' = Shooting
  /\ UNCHANGED <<held, key1, key2, frameVars, gameState, scrollEnable, VS, reset>>

\* The player's position asks for scrolling or no longer does.
ScrollRequest ==
  /\ ~reset
  /\ scrollEnable' = ~scrollEnable
  /\ UNCHANGED <<keyboardVars, key1, key2, frameVars, gameState, VS, reset>>

\* One edge of the 50 MHz clock.
Clk ==
  /\ ~reset
  /\ key1' = IF Len(held) >= 1 THEN held[1] ELSE None
  /\ key2' = IF Len(held) >= 2 THEN held[2] ELSE None
  /\ gameState' = NextGameState(gameState, AnyKey, PlayerDead)
  /\ UNCHANGED <<keyboardVars, frameVars, scrollEnable, VS, reset>>

\* The vertical sync goes low at the end of the picture ...
SyncFall ==
  /\ VS /\ ~reset
  /\ VS' = FALSE
  /\ UNCHANGED <<keyboardVars, key1, key2, frameVars, gameState, scrollEnable,
                 reset>>

\* Mutants of SyncRise: a code of no key does not replace the last one; the
\* frame pointer has no end.
SyncRiseKeepingCode ==
  /\ ~VS /\ ~reset
  /\ VS' = TRUE
  /\ LET c == KeyCode(Len(held), key1, key2) IN
       completeKeyCode' = [code |-> IF c = 0 THEN completeKeyCode.code ELSE c,
                           jump |-> Jumping]
  /\ scrollBuff' = scrollEnable
  /\ FramePtr' = IF scrollBuff /\ FramePtr < LastPtr THEN FramePtr + 2 ELSE FramePtr
  /\ UNCHANGED <<keyboardVars, key1, key2, gameState, scrollEnable, reset>>

SyncRiseUnbounded ==
  /\ ~VS /\ ~reset
  /\ VS' = TRUE
  /\ completeKeyCode' = [code |-> KeyCode(Len(held), key1, key2), jump |-> Jumping]
  /\ scrollBuff' = scrollEnable
  /\ FramePtr' = IF scrollBuff THEN FramePtr + 2 ELSE FramePtr
  /\ UNCHANGED <<keyboardVars, key1, key2, gameState, scrollEnable, reset>>

\* ... and its rising edge clocks the registers of the frame.  Their reset
\* is read at that edge only, and there is no edge while the switch is on.
SyncRise ==
  /\ ~VS /\ ~reset
  /\ VS' = TRUE
  /\ completeKeyCode' = [code |-> KeyCode(Len(held), key1, key2), jump |-> Jumping]
  /\ scrollBuff' = scrollEnable
  /\ FramePtr' = IF scrollBuff /\ FramePtr < LastPtr THEN FramePtr + 2 ELSE FramePtr
  /\ UNCHANGED <<keyboardVars, key1, key2, gameState, scrollEnable, reset>>

\* The reset switch: everything on the 50 MHz clock is cleared but the two
\* flags, the frame pointer is cleared at once, and the sync stays low.
ResetOn ==
  /\ ~reset
  /\ reset' = TRUE
  /\ held' = <<>> /\ key1' = None /\ key2' = None
  /\ gameState' = "Start"
  /\ FramePtr' = 0
  /\ VS' = FALSE
  /\ scrollEnable' = FALSE
  /\ UNCHANGED <<Shooting, Jumping, completeKeyCode, scrollBuff>>

ResetOff ==
  /\ reset
  /\ reset' = FALSE
  /\ UNCHANGED <<keyboardVars, key1, key2, frameVars, gameState, scrollEnable,
                 VS>>

ControlNext ==
  \/ LetterKey \/ FlagKey \/ ScrollRequest
  \/ Clk \/ SyncFall \/ SyncRise
  \/ ResetOn \/ ResetOff

(* The clock and the sync run; the switch is not left on. *)
ControlSpec ==
  /\ ControlInit
  /\ [][ControlNext]_controlVars
  /\ WF_controlVars(Clk) /\ WF_controlVars(SyncFall)
  /\ WF_controlVars(SyncRise) /\ WF_controlVars(ResetOff)

-----------------------------------------------------------------------------
(* What should hold. *)

\* Holding one or two letter keys starts the game, although the code passes
\* the skew of the keyboard's outputs and the register of the frame first.
KeyStartsGame ==
  <>[](Len(held) \in {1, 2} /\ ~reset) => <>[](gameState = "Play")

\* When the letter keys are up the player's code becomes 0 and stays so: no
\* order of releases, clocks and syncs leaves a direction behind.
MotionStops ==
  <>[](held = <<>> /\ ~reset) => <>[](completeKeyCode.code = 0)

\* The screen's window on the level never passes the level's right end, and
\* every register keeps its type.
WindowInLevel == ControlTypeOK /\ FramePtr <= LastPtr + 1
=============================================================================
