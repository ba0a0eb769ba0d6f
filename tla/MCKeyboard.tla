----------------------------- MODULE MCKeyboard -----------------------------
(* Keyboard.tla for TLC: the letter keys are interchangeable. *)
EXTENDS Keyboard, TLC

KeySymmetry == Permutations(Keys)
=============================================================================
