------------------------------- MODULE KeyList -------------------------------
(***************************************************************************)
(* What the PS/2 keyboard block promises to the rest of the game: the list *)
(* of the letter keys that are held, oldest first.  A key that goes down   *)
(* joins the end of the list, a key that comes up leaves it and the others *)
(* keep their order, and a reset empties it.  Keyboard.tla implements this *)
(* list with numbered slots and a priority in each.                        *)
(***************************************************************************)
EXTENDS Sequences, SequencesExt

CONSTANT Keys

VARIABLE held   \* the held keys, in the order in which they went down

Init == held = <<>>

\* A key that is not in the list goes down.
Press(k) ==
  /\ ~Contains(held, k)
  /\ held' = Append(held, k)

\* A key comes up; every other key keeps its place relative to the others.
Release(k) ==
  \E i \in DOMAIN held : held[i] = k /\ held' = RemoveAt(held, i)

\* The reset switch.
Clear == held' = <<>>

Next ==
  \/ \E k \in Keys : Press(k) \/ Release(k)
  \/ Clear

Spec == Init /\ [][Next]_held
=============================================================================
