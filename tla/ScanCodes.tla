------------------------------ MODULE ScanCodes ------------------------------
(***************************************************************************)
(* What the receiver of keyboard.sv promises to its decoder: scan codes    *)
(* come one at a time, each is shown with the code before it for           *)
(* WindowClks clocks, and nothing changes in the window.  Keyboard takes   *)
(* its codes in this way.                                                  *)
(***************************************************************************)
EXTENDS Naturals

CONSTANTS Codes, None, WindowClks

VARIABLES Byte_1, Byte_2, window

vars == <<Byte_1, Byte_2, window>>

Init == Byte_1 = None /\ Byte_2 = None /\ window = 0

Packet(c) ==
  /\ window = 0
  /\ Byte_1' = Byte_2 /\ Byte_2' = c
  /\ window' = WindowClks

Clk ==
  /\ window > 0
  /\ window' = window - 1
  /\ UNCHANGED <<Byte_1, Byte_2>>

Next == Clk \/ \E c \in Codes : Packet(c)

Spec == Init /\ [][Next]_vars
=============================================================================
