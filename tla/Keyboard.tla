------------------------------- MODULE Keyboard -------------------------------
(***************************************************************************)
(* keyboard.sv: the PS/2 keyboard block.  Scan codes arrive in an 11-bit   *)
(* register Byte_2, the code before it in Byte_1.  While the bit counter   *)
(* stands at 11 the decoder looks at both on every clock; what it decides  *)
(* is applied one clock later to four numbered slots, each holding a key   *)
(* code and a priority, and one clock later still the outputs key1..key4   *)
(* show the code whose slot has priority 1..4.                             *)
(*                                                                         *)
(* One Clk step is one edge of the 50 MHz clock: decoder, slots and        *)
(* outputs all read the values of before the edge.  Packet(c) is the end   *)
(* of the transmission of one scan code; the keyboard may send any code    *)
(* in any order (TypingSession.tla restricts it to what a keyboard sends). *)
(***************************************************************************)
EXTENDS Integers, FiniteSets, FiniteSetsExt

CONSTANTS
  Keys,         \* the scan codes of W, A, S and D
  Shoot,        \* 6B, the fire key
  Jump,         \* 73, the jump key
  Extend,       \* E0, the prefix of the extended keys
  Break,        \* F0, the prefix of a key that comes up
  Other,        \* any other scan code
  None,         \* 00, no code
  NumSlots,     \* the number of slots: 4
  CounterMod,   \* 2 to the width of keyCounter: 128
  PriorityMod,  \* 2 to the width of a keyPriority: 8
  WindowClks    \* clocks for which the bit counter stays at 11: 512

Slots == 1..NumSlots
Codes == Keys \cup {Shoot, Jump, Extend, Break, Other}

ASSUME KeysAssumption ==
  /\ IsFiniteSet(Keys)
  /\ Keys \cap {Shoot, Jump, Extend, Break, Other, None} = {}
  /\ Cardinality({Shoot, Jump, Extend, Break, Other, None}) = 6
  /\ None \notin Codes

ASSUME WidthAssumption ==
  /\ NumSlots \in Nat
  /\ CounterMod \in Nat
  /\ PriorityMod \in Nat
  /\ Cardinality(Keys) <= NumSlots
  /\ NumSlots < CounterMod
  /\ NumSlots < PriorityMod
  /\ WindowClks \in Nat
  /\ WindowClks >= 3

VARIABLES
  Byte_1, Byte_2,     \* the last code but one, and the last code
  window,             \* clocks for which the bit counter will still be 11
  Press,              \* the decoder's order to the slots: 01, 00 or 10
  Data,               \* the key to insert when Press is "insert"
  keyReleased,        \* the key to remove when Press is "remove"
  Typematic,          \* the key whose repeats are ignored
  Shooting, Jumping,  \* the fire key, the jump key is held
  keyCode,            \* the key in each slot, None in a free one
  keyPriority,        \* the rank of each slot's key, 0 for none
  keyCounter,         \* the number of keys held
  key                 \* the registered outputs key1, key2, ...

decoderVars == <<Press, Data, keyReleased, Typematic, Shooting, Jumping>>
slotVars == <<keyCode, keyPriority, keyCounter>>
vars == <<Byte_1, Byte_2, window, decoderVars, slotVars, key>>

TypeOK ==
  /\ Byte_1 \in Codes \cup {None}
  /\ Byte_2 \in Codes \cup {None}
  /\ window \in 0..WindowClks
  /\ window > 0 => Byte_2 # None
  /\ Press \in {"insert", "remove", "nothing"}
  /\ Data \in Keys \cup {None}
  /\ keyReleased \in Codes \cup {None}
  /\ Typematic \in Keys \cup {None}
  /\ Shooting \in BOOLEAN
  /\ Jumping \in BOOLEAN
  /\ keyCode \in [Slots -> Keys \cup {None}]
  /\ keyPriority \in [Slots -> 0..NumSlots]
  /\ keyCounter \in 0..NumSlots
  /\ key \in [Slots -> Keys \cup {None}]

-----------------------------------------------------------------------------
(* The registers of the FPGA hold 0 when it has been configured; the value  *)
(* 0 of Press orders the removal of key 00, which is in every free slot.    *)
PowerUp ==
  /\ Byte_1 = None /\ Byte_2 = None /\ window = 0
  /\ Press = "remove" /\ Data = None /\ keyReleased = None
  /\ Typematic = None /\ Shooting = FALSE /\ Jumping = FALSE
  /\ keyCode = [i \in Slots |-> None]
  /\ keyPriority = [i \in Slots |-> 0]
  /\ keyCounter = 0
  /\ key = [i \in Slots |-> None]

(* The game is started by the reset switch: power-up, then Reset. *)
Init ==
  /\ Byte_1 = None /\ Byte_2 = None /\ window = 0
  /\ Press = "nothing" /\ Data = None /\ keyReleased = None
  /\ Typematic = None /\ Shooting = FALSE /\ Jumping = FALSE
  /\ keyCode = [i \in Slots |-> None]
  /\ keyPriority = [i \in Slots |-> 0]
  /\ keyCounter = 0
  /\ key = [i \in Slots |-> None]

-----------------------------------------------------------------------------
(* The decoder: the branches of the if of keyboard.sv, in its order, as    *)
(* disjuncts with disjoint guards.                                         *)

\* A prefix: the code it announces is still to come.
Prefix ==
  /\ Byte_2 \in {Extend, Break}
  /\ Press' = "nothing"
  /\ UNCHANGED <<Data, keyReleased, Typematic, Shooting, Jumping>>

\* A mutant of KeyUp: the repeats are still ignored when the key is up.
KeyUpKeepsTypematic ==
  /\ Byte_1 = Break
  /\ Byte_2 \notin {Extend, Break, Shoot, Jump}
  /\ keyReleased' = Byte_2
  /\ Press' = "remove"
  /\ UNCHANGED <<Data, Typematic, Shooting, Jumping>>

\* The end of a key that is up.  The comparison with Typematic reads the
\* key released before this one, until the window's second clock.
KeyUp ==
  /\ Byte_1 = Break
  /\ Byte_2 \notin {Extend, Break, Shoot, Jump}
  /\ keyReleased' = Byte_2
  /\ Press' = "remove"
  /\ Typematic' = IF keyReleased = Typematic THEN None ELSE Typematic
  /\ UNCHANGED <<Data, Shooting, Jumping>>

\* A mutant of FireUp: either key's release clears both flags.
FireUpBoth ==
  /\ Byte_1 = Break
  /\ Byte_2 \in {Shoot, Jump}
  /\ Shooting' = FALSE
  /\ Jumping' = FALSE
  /\ UNCHANGED <<Press, Data, keyReleased, Typematic>>

FireUp ==
  /\ Byte_1 = Break
  /\ Byte_2 \in {Shoot, Jump}
  /\ Shooting' = (Shooting /\ Byte_2 # Shoot)
  /\ Jumping' = (Jumping /\ Byte_2 # Jump)
  /\ UNCHANGED <<Press, Data, keyReleased, Typematic>>

FireDown ==
  /\ Byte_1 # Break
  /\ Byte_2 \in {Shoot, Jump}
  /\ Press' = "nothing"
  /\ Shooting' = (Shooting \/ Byte_2 = Shoot)
  /\ Jumping' = (Jumping \/ Byte_2 = Jump)
  /\ UNCHANGED <<Data, keyReleased, Typematic>>

\* The keyboard repeats the code of a key that stays down; the window's own
\* second clock looks like a repeat too, so an insertion lasts one clock.
Repeat ==
  /\ Byte_1 # Break
  /\ Byte_2 = Typematic
  /\ Press' = "nothing"
  /\ UNCHANGED <<Data, keyReleased, Typematic, Shooting, Jumping>>

KeyDown ==
  /\ Byte_1 # Break
  /\ Byte_2 \in Keys \ {Typematic}
  /\ Data' = Byte_2
  /\ Press' = "insert"
  /\ Typematic' = Byte_2
  /\ UNCHANGED <<keyReleased, Shooting, Jumping>>

\* A key the game does not know: no branch applies.
Unknown ==
  /\ Byte_1 # Break
  /\ Byte_2 = Other
  /\ UNCHANGED decoderVars

Decode ==
  \/ Prefix
  \/ KeyUp \/ FireUp
  \/ FireDown \/ Repeat \/ KeyDown \/ Unknown

-----------------------------------------------------------------------------
(* The slots. *)

Free == {i \in Slots : keyCode[i] = None}
Held == {i \in Slots : keyCode[i] # None}
Removed == {i \in Slots : keyCode[i] = keyReleased}

\* Mutants of Insert: the last free slot; no test for a key already there.
InsertLast ==
  LET i == Max(Free) IN
  IF Free # {} /\ \A j \in Slots : keyCode[j] # Data
  THEN /\ keyCode' = [keyCode EXCEPT ![i] = Data]
       /\ keyPriority' = [keyPriority EXCEPT ![i] = (keyCounter + 1) % PriorityMod]
       /\ keyCounter' = (keyCounter + 1) % CounterMod
  ELSE UNCHANGED slotVars

InsertTwice ==
  LET i == Min(Free) IN
  IF Free # {}
  THEN /\ keyCode' = [keyCode EXCEPT ![i] = Data]
       /\ keyPriority' = [keyPriority EXCEPT ![i] = (keyCounter + 1) % PriorityMod]
       /\ keyCounter' = (keyCounter + 1) % CounterMod
  ELSE UNCHANGED slotVars

\* The key takes the first free slot and the last rank; it is dropped when
\* it is in a slot already or every slot is taken.
Insert ==
  LET i == Min(Free) IN
  IF Free # {} /\ \A j \in Slots : keyCode[j] # Data
  THEN /\ keyCode' = [keyCode EXCEPT ![i] = Data]
       /\ keyPriority' = [keyPriority EXCEPT ![i] = (keyCounter + 1) % PriorityMod]
       /\ keyCounter' = (keyCounter + 1) % CounterMod
  ELSE UNCHANGED slotVars

\* A mutant of MovesUp: nobody moves up.
MovesUpNever(j) == FALSE

\* The four ifs of the release branch assign without blocking: the last
\* slot that assigns the rank of slot j decides it.
MovesUp(j) ==
  \E i \in Removed : /\ keyPriority[j] > keyPriority[i]
                     /\ j \in Removed => i > j

\* Mutants of RemoveKey: the counter goes down for a key nobody holds; the
\* slot that is freed keeps its rank.
RemoveUncounted ==
  /\ keyCode' = [i \in Slots |-> IF i \in Removed THEN None ELSE keyCode[i]]
  /\ keyPriority' = [j \in Slots |-> IF MovesUp(j) THEN keyPriority[j] - 1
                                     ELSE IF j \in Removed THEN 0
                                     ELSE keyPriority[j]]
  /\ keyCounter' = (keyCounter - 1) % CounterMod

RemoveKeepingRank ==
  IF Removed # {}
  THEN /\ keyCode' = [i \in Slots |-> IF i \in Removed THEN None ELSE keyCode[i]]
       /\ keyPriority' = [j \in Slots |-> IF MovesUp(j) THEN keyPriority[j] - 1
                                          ELSE keyPriority[j]]
       /\ keyCounter' = (keyCounter - 1) % CounterMod
  ELSE UNCHANGED slotVars

\* The key leaves its slot and the keys behind it move up one rank.
RemoveKey ==
  IF Removed # {}
  THEN /\ keyCode' = [i \in Slots |-> IF i \in Removed THEN None ELSE keyCode[i]]
       /\ keyPriority' = [j \in Slots |-> IF MovesUp(j) THEN keyPriority[j] - 1
                                          ELSE IF j \in Removed THEN 0
                                          ELSE keyPriority[j]]
       /\ keyCounter' = (keyCounter - 1) % CounterMod
  ELSE UNCHANGED slotVars

UpdateSlots ==
  \/ Press = "insert" /\ Insert
  \/ Press = "remove" /\ RemoveKey
  \/ Press = "nothing" /\ UNCHANGED slotVars

\* The slots of rank p: the lookup takes the first of them.
Ranked(p) == {i \in Slots : keyPriority[i] = p}
Lookup(p) == IF Ranked(p) = {} THEN None ELSE keyCode[Min(Ranked(p))]

-----------------------------------------------------------------------------
(* The steps. *)

\* One edge of the 50 MHz clock.
Clk ==
  /\ IF window > 0
     THEN Decode /\ window' = window - 1
     ELSE UNCHANGED <<window, decoderVars>>
  /\ UpdateSlots
  /\ key' = [p \in Slots |-> Lookup(p)]
  /\ UNCHANGED <<Byte_1, Byte_2>>

\* A mutant of Packet: the bit counter stays at 11 for one clock only.
PacketOneClk(c) ==
  /\ window = 0
  /\ Byte_1' = Byte_2
  /\ Byte_2' = c
  /\ window' = 1
  /\ UNCHANGED <<decoderVars, slotVars, key>>

\* The keyboard has sent a scan code.  Two codes are at least half a
\* millisecond apart, the window lasts ten microseconds (Ps2Receiver has the
\* bits, and shows that codes come in this way).
Packet(c) ==
  /\ window = 0
  /\ Byte_1' = Byte_2
  /\ Byte_2' = c
  /\ window' = WindowClks
  /\ UNCHANGED <<decoderVars, slotVars, key>>

\* The reset switch, held for many clocks.  Ranks, Typematic, Data and the
\* two held flags have no reset; the ranks of the free slots go stale.
Reset ==
  /\ Byte_1' = None /\ Byte_2' = None
  /\ window' = 0
  /\ Press' = "nothing"
  /\ keyCode' = [i \in Slots |-> None]
  /\ keyCounter' = 0
  /\ key' = [i \in Slots |-> None]
  /\ UNCHANGED <<Data, keyReleased, Typematic, Shooting, Jumping, keyPriority>>

Next ==
  \/ Clk
  \/ \E c \in Codes : Packet(c)
  \/ Reset

Spec == Init /\ [][Next]_vars

\* The same machine when nobody resets it first.
PowerUpSpec == PowerUp /\ [][Next]_vars


-----------------------------------------------------------------------------
(* What makes the block correct. *)

\* No key is in two slots (keyboard.sv, the test before an insertion).
NoDuplicate ==
  \A i, j \in Held : keyCode[i] = keyCode[j] => i = j

\* The keys held have the ranks 1, 2, ..., keyCounter, each exactly once,
\* whatever is inserted, removed and reset in whatever order: a rank lost or
\* doubled would make a held key invisible to the game for good.
RanksExact ==
  /\ \A i \in Held : keyPriority[i] \in 1..keyCounter
  /\ \A i, j \in Held : keyPriority[i] = keyPriority[j] => i = j
  /\ \A p \in 1..keyCounter : \E i \in Held : keyPriority[i] = p

\* A rank that a reset left in a free slot is only in slots behind every
\* slot in use, so the lookup, which takes the first slot, does not meet it.
StaleBehind ==
  \A i \in Free : keyPriority[i] # 0 => \A j \in Held : j < i

\* The list that the lookups of key1..key4 show is the list of the keys
\* held: a held key is found at its rank, and nothing behind the last one.
ListExact ==
  /\ \A i \in Held : Lookup(keyPriority[i]) = keyCode[i]
  /\ \A p \in Slots : p > keyCounter => Lookup(p) = None

\* When the decoder is idle the registered outputs show the list: the two
\* clocks from a decision to the slots and the outputs have passed.
OutputsSettled ==
  window = 0 => \A p \in Slots : key[p] = Lookup(p)

\* The decoder's orders are about keys; in particular it never orders the
\* removal of code 00, which every free slot holds.
OrdersValid ==
  /\ Press = "insert" => Data \in Keys
  /\ Press = "remove" => keyReleased # None

\* A machine that nobody resets after power-up counts its free slots down
\* (PowerUp), and its ranks are garbage; from the first reset on the list is
\* exact for good, although the reset clears neither ranks nor Typematic.
Clean == Held = {} /\ keyCounter = 0 /\ Press = "nothing"
HealsForGood == [](Clean => [](RanksExact /\ ListExact))

\* The slots implement the list of KeyList: the codes in the order of their
\* ranks are the keys held, oldest first.
List == INSTANCE KeyList WITH held <- [p \in 1..keyCounter |-> Lookup(p)]
ImplementsKeyList == List!Spec
=============================================================================
