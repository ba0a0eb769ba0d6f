---------------------------- MODULE TypingSession ----------------------------
(***************************************************************************)
(* A player at a PS/2 keyboard in front of keyboard.sv.  The PS/2 keyboard *)
(* is outside the repository: it sends a key's code when it goes down and, *)
(* for the key pressed last, again while it stays down; F0 and the code    *)
(* when a key comes up; E0 before either for the extended keys (the left   *)
(* arrow is E0 6B, so it fires like the 6B of the keypad).  The codes wait *)
(* in the keyboard until the wire is free.  The question is whether what   *)
(* the game sees is what the player holds.                                 *)
(***************************************************************************)
EXTENDS Keyboard, Sequences, SequencesExt

CONSTANT
  MaxDown    \* bound: letter keys the player holds at once

VARIABLES
  down,      \* the letter keys held, in the order in which they went down
  fresh,     \* the letter keys that went down after the last reset
  repeating, \* the key pressed last while it is held, None if there is none
  fire, jump,\* the fire key, the jump key is held
  wire       \* the codes the keyboard has not sent yet

userVars == <<down, fresh, repeating, fire, jump>>
allVars == <<vars, userVars, wire>>

SessionInit ==
  /\ Init
  /\ down = <<>> /\ fresh = {} /\ repeating = None
  /\ fire = FALSE /\ jump = FALSE
  /\ wire = <<>>

\* The codes of one event are sent before the next event: the order of the
\* codes is the order of the events, however long they wait in the keyboard.
Enqueue(codes) ==
  /\ window = 0
  /\ wire = <<>>
  /\ wire' = codes

PressLetter(k) ==
  /\ ~Contains(down, k)
  /\ Len(down) < MaxDown
  /\ Enqueue(<<k>>)
  /\ down' = Append(down, k)
  /\ fresh' = fresh \cup {k}
  /\ repeating' = k
  /\ UNCHANGED <<vars, fire, jump>>

ReleaseLetter(k) ==
  /\ \E i \in DOMAIN down : down[i] = k /\ down' = RemoveAt(down, i)
  /\ Enqueue(<<Break, k>>)
  /\ fresh' = fresh \ {k}
  /\ repeating' = IF repeating = k THEN None ELSE repeating
  /\ UNCHANGED <<vars, fire, jump>>

\* The fire and the jump key, on the keypad or extended.
PressFire ==
  /\ \E prefix \in {<<>>, <<Extend>>} :
       \/ ~fire /\ Enqueue(prefix \o <<Shoot>>) /\ fire' = TRUE /\ jump' = jump
                /\ repeating' = Shoot
       \/ ~jump /\ Enqueue(prefix \o <<Jump>>) /\ jump' = TRUE /\ fire' = fire
                /\ repeating' = Jump
  /\ UNCHANGED <<vars, down, fresh>>

ReleaseFire ==
  /\ \E prefix \in {<<>>, <<Extend>>} :
       \/ /\ fire /\ Enqueue(prefix \o <<Break, Shoot>>)
          /\ fire' = FALSE /\ jump' = jump
          /\ repeating' = IF repeating = Shoot THEN None ELSE repeating
       \/ /\ jump /\ Enqueue(prefix \o <<Break, Jump>>)
          /\ jump' = FALSE /\ fire' = fire
          /\ repeating' = IF repeating = Jump THEN None ELSE repeating
  /\ UNCHANGED <<vars, down, fresh>>

\* A key the game does not know goes down or comes up.
OtherKey ==
  /\ \E codes \in {<<Other>>, <<Break, Other>>} : Enqueue(codes)
  /\ repeating' = None
  /\ UNCHANGED <<vars, down, fresh, fire, jump>>

RepeatKey ==
  /\ repeating # None
  /\ Enqueue(<<repeating>>)
  /\ UNCHANGED <<vars, userVars>>

Send ==
  /\ wire # <<>>
  /\ Packet(Head(wire))
  /\ wire' = Tail(wire)
  /\ UNCHANGED userVars

ClkStep == Clk /\ UNCHANGED <<userVars, wire>>

\* The reset switch, at rest of the wire.  A reset that cuts into a code, or
\* between F0 and the key it announces, loses what it cuts: the next code is
\* misread, so nothing is promised until the player has pressed and released
\* that key again.  Keyboard.tla takes resets at any time.
ResetSwitch ==
  /\ wire = <<>> /\ window = 0
  /\ Reset
  /\ fresh' = {}
  /\ UNCHANGED <<down, repeating, fire, jump, wire>>

SessionNext ==
  \/ \E k \in Keys : PressLetter(k) \/ ReleaseLetter(k)
  \/ PressFire \/ ReleaseFire \/ OtherKey \/ RepeatKey
  \/ Send
  \/ ClkStep
  \/ ResetSwitch

(* The clock runs, and the keyboard sends what it has when it can. *)
SessionSpec ==
  /\ SessionInit
  /\ [][SessionNext]_allVars
  /\ WF_allVars(ClkStep)
  /\ WF_allVars(Send)

-----------------------------------------------------------------------------
Quiet == wire = <<>> /\ window = 0
Shown == [p \in 1..keyCounter |-> key[p]]
Before(s, k, l) == \E i, j \in DOMAIN s : i < j /\ s[i] = k /\ s[j] = l

\* When the wire is quiet, the outputs show the letter keys pressed since
\* the last reset and still held, each once, in the order in which they went
\* down, and a key that is shown is held; the fire and jump outputs are those
\* keys.  It covers repeats, prefixes and releases in every order, and resets
\* with keys held.
ShowsWhatIsHeld ==
  Quiet => /\ \A k \in fresh : Contains(Shown, k)
           /\ \A k, l \in fresh : Before(Shown, k, l) <=> Before(down, k, l)
           /\ \A p \in DOMAIN Shown : Contains(down, Shown[p])
           /\ Shooting = fire /\ Jumping = jump

\* A letter key pressed after a reset is seen before long, even if it was
\* the key whose repeats were being ignored when the reset came.
IsShown(k) == \E p \in 1..keyCounter : key[p] = k
PressIsSeen == \A k \in Keys : k \in fresh ~> IsShown(k) \/ k \notin fresh
=============================================================================
