---------------------------- MODULE KeyboardProofs ----------------------------
(***************************************************************************)
(* Proofs about Keyboard.tla and TypingSession.tla, for every set of keys, *)
(* number of slots and width of the counters that the assumptions allow.   *)
(***************************************************************************)
EXTENDS TypingSession, FiniteSetTheorems, SequenceTheorems, WellFoundedInduction, TLAPS

\* Every register holds a value of its width.
WidthOK ==
  /\ Byte_1 \in Codes \cup {None}
  /\ Byte_2 \in Codes \cup {None}
  /\ window \in 0..WindowClks
  /\ window > 0 => Byte_2 # None
  /\ Press \in {"insert", "remove", "nothing"}
  /\ Data \in Keys \cup {None}
  /\ keyReleased \in Codes \cup {None}
  /\ Typematic \in Keys \cup {None}
  /\ Shooting \in BOOLEAN
  /\ Jumping \in BOOLEAN
  /\ keyCode \in [Slots -> Keys \cup {None}]
  /\ keyPriority \in [Slots -> 0..PriorityMod - 1]
  /\ keyCounter \in 0..CounterMod - 1
  /\ key \in [Slots -> Keys \cup {None}]

\* The inductive invariant: the ranks of the held keys are exactly
\* 1..keyCounter (RanksExact); the keys behind a removed one can move up
\* without meeting another only because of that.  A lookup is exact because
\* stale ranks are behind the held keys (StaleBehind), and a removal removes
\* one slot because no key is in two and none is "no key".  It holds from the
\* first reset on whatever was in the ranks before; when the first reset is
\* the first step of all, no stale rank is above the number of slots either.
Healed == WidthOK /\ NoDuplicate /\ RanksExact /\ StaleBehind /\ OrdersValid
IInv == Healed /\ keyPriority \in [Slots -> 0..NumSlots]

\* The lookups and the insertion take the first slot of a set: it is in the
\* set and no other is before it.
LEMMA FirstSlot ==
  ASSUME NEW S, S \subseteq Slots, S # {}
  PROVE  /\ Min(S) \in S
         /\ \A j \in S : Min(S) <= j
<1>. DEFINE Less == {ss \in Nat \X Nat : ss[1] < ss[2]}
<1>1. IsWellFoundedOn(Less, Nat)
  BY NatLessThanWellFounded DEF OpToRel
<1>2. S \subseteq Nat
  BY WidthAssumption DEF Slots
<1>3. \E x \in S : \A y \in S : <<y, x>> \notin Less
  <2>. HIDE DEF Less
  <2>. QED BY <1>1, <1>2, WFMin, Zenon
<1>4. \A x, y \in Nat : <<y, x>> \notin Less => x <= y
  OBVIOUS
<1>5. \E x \in S : \A y \in S : x <= y
  <2>. HIDE DEF Less
  <2>. QED BY <1>2, <1>3, <1>4
<1>. QED BY <1>5 DEF Min

\* No more keys are held than there are slots, and fewer while a slot is free,
\* so the counter and the ranks fit their registers.
LEMMA RoomForOne ==
  ASSUME WidthOK, RanksExact
  PROVE  /\ keyCounter <= NumSlots
         /\ Free # {} => keyCounter < NumSlots
<1>1. /\ IsFiniteSet(Slots)
      /\ Cardinality(Slots) = NumSlots
  BY WidthAssumption, FS_Interval DEF Slots
<1>2. /\ Held \subseteq Slots
      /\ Free # {} => Held # Slots
  BY DEF Held, Free
<1>3. /\ IsFiniteSet(Held)
      /\ Cardinality(Held) <= NumSlots
      /\ Free # {} => Cardinality(Held) # NumSlots
  BY <1>1, <1>2, FS_Subset
<1>4. /\ IsFiniteSet(1..keyCounter)
      /\ Cardinality(1..keyCounter) = keyCounter
  BY WidthAssumption, FS_Interval DEF WidthOK
<1>5. ~ Cardinality(Held) < Cardinality(1..keyCounter)
  <2>. DEFINE f == [p \in 1..keyCounter |-> CHOOSE i \in Held : keyPriority[i] = p]
  <2>1. \A p \in 1..keyCounter : f[p] \in Held /\ keyPriority[f[p]] = p
    BY DEF RanksExact
  <2>2. f \in [1..keyCounter -> Held]
    BY <2>1
  <2>. HIDE DEF f
  <2>3. ASSUME Cardinality(Held) < Cardinality(1..keyCounter)
        PROVE  \E p, q \in 1..keyCounter : p # q /\ f[p] = f[q]
    BY <1>3, <1>4, <2>2, <2>3, FS_PigeonHole
  <2>. QED BY <2>1, <2>3
<1>6. Cardinality(Held) \in Nat
  BY <1>3, FS_CardinalityType
<1>. QED BY <1>3, <1>4, <1>5, <1>6, WidthAssumption DEF WidthOK

-----------------------------------------------------------------------------
(* The parts of the invariant that speak of the decoder, of the registers  *)
(* of the slots, and of the slots' ranks.                                  *)

DecoderOK ==
  /\ Byte_1 \in Codes \cup {None}
  /\ Byte_2 \in Codes \cup {None}
  /\ window \in 0..WindowClks
  /\ window > 0 => Byte_2 # None
  /\ Press \in {"insert", "remove", "nothing"}
  /\ Data \in Keys \cup {None}
  /\ keyReleased \in Codes \cup {None}
  /\ Typematic \in Keys \cup {None}
  /\ Shooting \in BOOLEAN
  /\ Jumping \in BOOLEAN

RegistersOK ==
  /\ keyCode \in [Slots -> Keys \cup {None}]
  /\ keyPriority \in [Slots -> 0..PriorityMod - 1]
  /\ keyCounter \in 0..CounterMod - 1

RanksOK == NoDuplicate /\ RanksExact /\ StaleBehind

LEMMA Parts == WidthOK <=> DecoderOK /\ RegistersOK /\ key \in [Slots -> Keys \cup {None}]
BY DEF WidthOK, DecoderOK, RegistersOK

\* A decoding clock gives an order of the right type, and a valid one: the key
\* of an insertion is a letter key, the code of a removal is the one received.
LEMMA DecodeOK ==
  ASSUME DecoderOK, Decode, window > 0, window' = window - 1,
         UNCHANGED <<Byte_1, Byte_2>>
  PROVE  DecoderOK' /\ (OrdersValid => OrdersValid')
<1>. USE DEF DecoderOK, OrdersValid
<1>1. window' \in 0..WindowClks /\ (window' > 0 => Byte_2' # None)
  BY WidthAssumption
<1>2. CASE Prefix
  BY <1>1, <1>2 DEF Prefix
<1>3. CASE KeyUp
  BY <1>1, <1>3 DEF KeyUp
<1>4. CASE FireUp
  BY <1>1, <1>4 DEF FireUp
<1>5. CASE FireDown
  BY <1>1, <1>5 DEF FireDown
<1>6. CASE Repeat
  BY <1>1, <1>6 DEF Repeat
<1>7. CASE KeyDown
  BY <1>1, <1>7 DEF KeyDown
<1>8. CASE Unknown
  BY <1>1, <1>8 DEF Unknown, decoderVars
<1>. QED BY <1>2, <1>3, <1>4, <1>5, <1>6, <1>7, <1>8 DEF Decode

\* The registers of the slots keep their widths whatever the order is.
LEMMA RegistersStep ==
  ASSUME WidthOK, UpdateSlots
  PROVE  RegistersOK'
<1>. USE WidthAssumption DEF WidthOK, RegistersOK
<1>1. CASE UNCHANGED slotVars
  BY <1>1 DEF slotVars
<1>2. CASE Insert /\ ~UNCHANGED slotVars
  <2>1. /\ (keyCounter + 1) % CounterMod \in 0..CounterMod - 1
        /\ (keyCounter + 1) % PriorityMod \in 0..PriorityMod - 1
    OBVIOUS
  <2>. QED BY <1>2, <2>1 DEF Insert
<1>3. CASE RemoveKey /\ ~UNCHANGED slotVars
  <2>1. (keyCounter - 1) % CounterMod \in 0..CounterMod - 1
    OBVIOUS
  <2>2. \A j \in Slots : MovesUp(j) => keyPriority[j] > 0
    BY DEF MovesUp, Removed
  <2>. QED BY <1>3, <2>1, <2>2 DEF RemoveKey
<1>. QED BY <1>1, <1>2, <1>3 DEF UpdateSlots

\* What an insertion does: the first free slot takes the key and the rank
\* behind every other.
LEMMA Inserted ==
  ASSUME Healed, Press = "insert", Insert, NEW m, m = Min(Free),
         Free # {}, \A j \in Slots : keyCode[j] # Data
  PROVE  /\ m \in Free /\ \A j \in Free : m <= j
         /\ Data \in Keys /\ Data # None
         /\ keyCounter < NumSlots /\ keyCounter' = keyCounter + 1
         /\ keyCode' = [keyCode EXCEPT ![m] = Data]
         /\ keyPriority' = [keyPriority EXCEPT ![m] = keyCounter + 1]
<1>1. m \in Free /\ \A j \in Free : m <= j
  BY FirstSlot DEF Free
<1>2. keyCounter < NumSlots
  BY RoomForOne DEF Healed
<1>3. /\ (keyCounter + 1) % CounterMod = keyCounter + 1
      /\ (keyCounter + 1) % PriorityMod = keyCounter + 1
  BY <1>2, WidthAssumption DEF Healed, WidthOK
<1>4. Data \in Keys /\ Data # None
  BY KeysAssumption DEF Healed, OrdersValid
<1>. QED BY <1>1, <1>2, <1>3, <1>4 DEF Insert

LEMMA InsertOK ==
  ASSUME Healed, Press = "insert", Insert
  PROVE  RanksOK'
<1>. USE DEF RanksOK, NoDuplicate, RanksExact, StaleBehind, Held, Free
<1>1. CASE UNCHANGED slotVars
  BY <1>1 DEF Healed, slotVars
<1>2. CASE Free # {} /\ \A j \in Slots : keyCode[j] # Data
  <2>. DEFINE m == Min(Free)
  <2>1. m \in Free /\ \A j \in Free : m <= j
    BY <1>2, Inserted
  <2>3. /\ keyCode' = [keyCode EXCEPT ![m] = Data]
        /\ keyPriority' = [keyPriority EXCEPT ![m] = keyCounter + 1]
        /\ keyCounter' = keyCounter + 1
    BY <1>2, Inserted
  <2>4. Data \in Keys /\ Data # None
    BY <1>2, Inserted
  <2>. HIDE DEF m
  <2>6. Held' = Held \cup {m} /\ m \notin Held
    BY <2>1, <2>3, <2>4 DEF Healed, WidthOK
  <2>7. NoDuplicate'
    BY <1>2, <2>1, <2>3, <2>6 DEF Healed, WidthOK
  <2>8. RanksExact'
    <3>1. \A i \in Held : keyPriority'[i] = keyPriority[i] /\ i \in Slots
      BY <2>3, <2>6 DEF Healed, WidthOK
    <3>2. keyPriority'[m] = keyCounter + 1
      BY <2>1, <2>3 DEF Healed, WidthOK
    <3>. QED BY <2>3, <2>6, <3>1, <3>2 DEF Healed, WidthOK
  <2>9. StaleBehind'
    <3>. SUFFICES ASSUME NEW i \in Free', keyPriority'[i] # 0, NEW j \in Held'
                  PROVE  j < i
      BY Zenon
    <3>1. i \in Slots /\ i # m
      BY <2>1, <2>3, <2>4 DEF Healed, WidthOK
    <3>2. i \in Free /\ keyPriority[i] # 0
      BY <2>3, <3>1 DEF Healed, WidthOK
    <3>3. CASE j = m
      BY <2>1, <3>1, <3>2, <3>3, WidthAssumption DEF Slots
    <3>4. CASE j \in Held
      BY <3>2, <3>4 DEF Healed
    <3>. QED BY <2>6, <3>3, <3>4
  <2>. QED BY <2>7, <2>8, <2>9
<1>. QED BY <1>1, <1>2 DEF Insert

\* What a removal does: one slot is emptied, and the ranks behind its rank
\* close up.
LEMMA Closed ==
  ASSUME Healed, Press = "remove", RemoveKey, Removed # {}
  PROVE  \E r \in Held :
           /\ keyCode[r] = keyReleased /\ keyPriority[r] \in 1..keyCounter
           /\ keyCode' = [i \in Slots |-> IF i = r THEN None ELSE keyCode[i]]
           /\ keyPriority' = [j \in Slots |->
                IF keyPriority[j] > keyPriority[r] THEN keyPriority[j] - 1
                ELSE IF j = r THEN 0 ELSE keyPriority[j]]
           /\ keyCounter' = keyCounter - 1
<1>. USE DEF NoDuplicate, RanksExact, Held
<1>1. PICK r \in Slots : Removed = {r}
  BY DEF Healed, OrdersValid, Removed
<1>2. r \in Held /\ keyCode[r] = keyReleased /\ keyPriority[r] \in 1..keyCounter
  BY <1>1 DEF Healed, OrdersValid, Removed
<1>3. \A j \in Slots : MovesUp(j) <=> keyPriority[j] > keyPriority[r]
  BY <1>1, WidthAssumption DEF MovesUp, Healed, WidthOK
<1>4. (keyCounter - 1) % CounterMod = keyCounter - 1
  BY <1>2, WidthAssumption DEF Healed, WidthOK
<1>5. /\ keyCode' = [i \in Slots |-> IF i = r THEN None ELSE keyCode[i]]
      /\ keyPriority' = [j \in Slots |->
           IF keyPriority[j] > keyPriority[r] THEN keyPriority[j] - 1
           ELSE IF j = r THEN 0 ELSE keyPriority[j]]
      /\ keyCounter' = keyCounter - 1
  BY <1>1, <1>3, <1>4 DEF RemoveKey
<1>. QED BY <1>2, <1>5

LEMMA RemoveOK ==
  ASSUME Healed, Press = "remove", RemoveKey
  PROVE  RanksOK'
<1>. USE DEF RanksOK, NoDuplicate, RanksExact, StaleBehind, Held, Free
<1>1. CASE UNCHANGED slotVars
  BY <1>1 DEF Healed, slotVars
<1>2. CASE Removed # {}
  <2>2. PICK r \in Held :
           /\ keyPriority[r] \in 1..keyCounter
           /\ keyCode' = [i \in Slots |-> IF i = r THEN None ELSE keyCode[i]]
           /\ keyPriority' = [j \in Slots |->
                IF keyPriority[j] > keyPriority[r] THEN keyPriority[j] - 1
                ELSE IF j = r THEN 0 ELSE keyPriority[j]]
           /\ keyCounter' = keyCounter - 1
    BY <1>2, Closed
  <2>. DEFINE p == keyPriority[r]
  <2>4. /\ keyCode' = [i \in Slots |-> IF i = r THEN None ELSE keyCode[i]]
        /\ keyPriority' = [j \in Slots |-> IF keyPriority[j] > p THEN keyPriority[j] - 1
                                           ELSE IF j = r THEN 0
                                           ELSE keyPriority[j]]
        /\ keyCounter' = keyCounter - 1
    BY <2>2
  <2>5. /\ p \in Nat /\ keyCounter \in Nat
        /\ \A j \in Slots : keyPriority[j] \in Nat
    BY <2>2, WidthAssumption DEF Healed, WidthOK
  <2>7. Held' = Held \ {r}
    BY <2>4 DEF Healed, WidthOK
  <2>8. \A j \in Slots \ {r} :
          keyPriority'[j] = IF keyPriority[j] > p THEN keyPriority[j] - 1
                                                  ELSE keyPriority[j]
    BY <2>4
  <2>. HIDE DEF p
  <2>9. NoDuplicate'
    BY <2>4, <2>7 DEF Healed, WidthOK
  <2>10. \A j \in Held : keyPriority[j] \in 1..keyCounter /\ (keyPriority[j] = p <=> j = r)
    BY <2>2 DEF Healed, WidthOK, p
  <2>11. RanksExact'
    <3>1. \A i \in Held' : keyPriority'[i] \in 1..keyCounter'
      BY <2>2, <2>4, <2>5, <2>7, <2>8, <2>10 DEF p
    <3>2. \A i, j \in Held' : keyPriority'[i] = keyPriority'[j] => i = j
      <4>. SUFFICES ASSUME NEW i \in Held', NEW j \in Held',
                           keyPriority'[i] = keyPriority'[j]
                    PROVE  i = j
        OBVIOUS
      <4>1. keyPriority[i] = keyPriority[j]
        BY <2>5, <2>7, <2>8, <2>10
      <4>. QED BY <2>7, <4>1 DEF Healed
    <3>3. ASSUME NEW q \in 1..keyCounter'
          PROVE  \E i \in Held' : keyPriority'[i] = q
      <4>1. CASE q < p
        <5>1. PICK i \in Held : keyPriority[i] = q
          BY <2>4, <2>5 DEF Healed
        <5>. QED BY <2>5, <2>7, <2>8, <2>10, <4>1, <5>1
      <4>2. CASE q >= p
        <5>1. PICK i \in Held : keyPriority[i] = q + 1
          BY <2>4, <2>5 DEF Healed
        <5>. QED BY <2>5, <2>7, <2>8, <2>10, <4>2, <5>1
      <4>. QED BY <2>5, <4>1, <4>2
    <3>. QED BY <3>1, <3>2, <3>3
  <2>12. StaleBehind'
    <3>. SUFFICES ASSUME NEW i \in Free', keyPriority'[i] # 0, NEW j \in Held'
                  PROVE  j < i
      BY Zenon
    <3>1. i \in Slots /\ i # r
      BY <2>4, <2>5 DEF p
    <3>2. i \in Free /\ keyPriority[i] # 0
      BY <2>4, <2>5, <2>8, <3>1
    <3>. QED BY <2>7, <3>2 DEF Healed
  <2>. QED BY <2>9, <2>11, <2>12
<1>. QED BY <1>1, <1>2 DEF RemoveKey

\* The outputs show codes of slots.
LEMMA LookupType ==
  ASSUME WidthOK, NEW p \in Slots
  PROVE  Lookup(p) \in Keys \cup {None}
<1>1. CASE Ranked(p) = {}
  BY <1>1 DEF Lookup
<1>2. CASE Ranked(p) # {}
  <2>1. Min(Ranked(p)) \in Slots
    BY <1>2, FirstSlot DEF Ranked
  <2>. QED BY <1>2, <2>1 DEF Lookup, WidthOK
<1>. QED BY <1>1, <1>2

-----------------------------------------------------------------------------
(* The steps. *)

\* The registers keep their widths, in a machine that nobody has reset too.
LEMMA WidthStep ==
  ASSUME WidthOK, [Next]_vars
  PROVE  WidthOK'
<1>1. CASE Clk
  <2>1. RegistersOK'
    BY <1>1, RegistersStep DEF Clk
  <2>2. DecoderOK'
    <3>1. CASE window > 0
      BY <1>1, <3>1, Parts, DecodeOK DEF Clk
    <3>2. CASE ~(window > 0)
      BY <1>1, <3>2, Parts DEF Clk, DecoderOK, decoderVars
    <3>. QED BY <3>1, <3>2
  <2>3. key' \in [Slots -> Keys \cup {None}]
    BY <1>1, LookupType DEF Clk
  <2>. QED BY <2>1, <2>2, <2>3 DEF WidthOK, DecoderOK, RegistersOK
<1>2. ASSUME NEW c \in Codes, Packet(c)
      PROVE  WidthOK'
  <2>1. c # None
    BY KeysAssumption
  <2>. QED BY <1>2, <2>1, WidthAssumption DEF Packet, WidthOK, decoderVars, slotVars
<1>3. CASE Reset
  BY <1>3, WidthAssumption DEF Reset, WidthOK
<1>4. CASE UNCHANGED vars
  BY <1>4 DEF vars, WidthOK, decoderVars, slotVars
<1>. QED BY <1>1, <1>2, <1>3, <1>4 DEF Next

\* Every step keeps the list of the slots sound.
LEMMA HealedStep ==
  ASSUME Healed, [Next]_vars
  PROVE  Healed'
<1>1. WidthOK'
  BY WidthStep DEF Healed
<1>2. RanksOK' /\ OrdersValid'
  <2>1. CASE Clk
    <3>1. RanksOK'
      <4>1. CASE Press = "insert" /\ Insert
        BY <4>1, InsertOK
      <4>2. CASE Press = "remove" /\ RemoveKey
        BY <4>2, RemoveOK
      <4>3. CASE UNCHANGED slotVars
        BY <4>3 DEF Healed, RanksOK, slotVars, NoDuplicate, RanksExact, StaleBehind, Held, Free
      <4>. QED BY <2>1, <4>1, <4>2, <4>3 DEF Clk, UpdateSlots
    <3>2. OrdersValid'
      <4>1. CASE window > 0
        BY <2>1, <4>1, Parts, DecodeOK DEF Clk, Healed
      <4>2. CASE ~(window > 0)
        BY <2>1, <4>2 DEF Clk, Healed, OrdersValid, decoderVars
      <4>. QED BY <4>1, <4>2
    <3>. QED BY <3>1, <3>2
  <2>2. ASSUME UNCHANGED <<Press, Data, keyReleased, slotVars>>
        PROVE  RanksOK' /\ OrdersValid'
    <3>1. OrdersValid'
      BY <2>2 DEF Healed, OrdersValid
    <3>2. NoDuplicate' /\ RanksExact' /\ StaleBehind'
      BY <2>2 DEF Healed, NoDuplicate, RanksExact, StaleBehind, Held, Free, slotVars
    <3>. QED BY <3>1, <3>2 DEF RanksOK
  <2>3. CASE Reset
    <3>1. Held' = {} /\ keyCounter' = 0 /\ Press' = "nothing"
      BY <2>3 DEF Reset, Held
    <3>2. NoDuplicate' /\ RanksExact' /\ StaleBehind'
      BY <3>1 DEF NoDuplicate, RanksExact, StaleBehind
    <3>. QED BY <3>1, <3>2 DEF RanksOK, OrdersValid
  <2>. QED BY <2>1, <2>2, <2>3 DEF Next, Packet, vars, decoderVars
<1>. QED BY <1>1, <1>2 DEF Healed, RanksOK

\* The ranks stay within the number of slots if they are at the start.
LEMMA RanksFit ==
  ASSUME IInv, [Next]_vars
  PROVE  keyPriority' \in [Slots -> 0..NumSlots]
<1>. USE WidthAssumption DEF IInv
<1>1. CASE Press = "insert" /\ Insert /\ ~UNCHANGED slotVars
  <2>1. Free # {} /\ \A j \in Slots : keyCode[j] # Data
    BY <1>1 DEF Insert
  <2>2. /\ keyPriority' = [keyPriority EXCEPT ![Min(Free)] = keyCounter + 1]
        /\ keyCounter < NumSlots
    BY <1>1, <2>1, Inserted
  <2>3. keyCounter + 1 \in 0..NumSlots
    BY <2>2 DEF Healed, WidthOK
  <2>. QED BY <2>2, <2>3
<1>2. CASE Press = "remove" /\ RemoveKey /\ ~UNCHANGED slotVars
  <2>1. \A j \in Slots : MovesUp(j) => keyPriority[j] > 0
    BY DEF MovesUp, Removed
  <2>. QED BY <1>2, <2>1 DEF RemoveKey
<1>3. CASE UNCHANGED keyPriority
  BY <1>3
<1>. QED BY <1>1, <1>2, <1>3 DEF Next, Clk, UpdateSlots, Packet, Reset, slotVars, vars

\* The invariant holds at the start and every step preserves it.
LEMMA StartOK ==
  ASSUME Init
  PROVE  IInv
<1>1. WidthOK /\ keyPriority \in [Slots -> 0..NumSlots]
  <2>1. 0 \in 0..NumSlots /\ 0 \in 0..WindowClks /\ 0 \in 0..PriorityMod - 1
        /\ 0 \in 0..CounterMod - 1
    BY WidthAssumption
  <2>2. Shooting \in BOOLEAN /\ Jumping \in BOOLEAN
    BY Zenon DEF Init
  <2>3. ~(window > 0)
    BY DEF Init
  <2>. QED BY <2>1, <2>2, <2>3 DEF Init, WidthOK
<1>2. Held = {} /\ \A i \in Slots : keyPriority[i] = 0
  BY DEF Init, Held
<1>3. NoDuplicate /\ RanksExact /\ StaleBehind /\ OrdersValid
  BY <1>2 DEF Init, NoDuplicate, RanksExact, StaleBehind, OrdersValid, Free
<1>. QED BY <1>1, <1>3 DEF IInv, Healed

LEMMA StepOK == IInv /\ [Next]_vars => IInv'
BY HealedStep, RanksFit DEF IInv

THEOREM Invariance == Spec => []IInv
<1>1. Init => IInv
  BY StartOK
<1>. QED BY <1>1, StepOK, PTL DEF Spec

\* Every register holds a value of its type: no counter wraps, no code but a
\* letter key reaches a slot or an output.
THEOREM TypeCorrect == Spec => []TypeOK
<1>1. IInv => TypeOK
  BY RoomForOne, WidthAssumption DEF IInv, Healed, WidthOK, TypeOK
<1>. QED BY <1>1, Invariance, PTL

\* The ranks of the keys held are 1..keyCounter, each exactly once, for any
\* number of keys and slots and any sequence of codes and resets.
THEOREM RanksAreExact == Spec => []RanksExact
<1>1. IInv => RanksExact
  BY DEF IInv, Healed
<1>. QED BY <1>1, Invariance, PTL

LEMMA ListFromRanks == Healed => ListExact
<1>. SUFFICES ASSUME Healed
              PROVE  ListExact
  OBVIOUS
<1>. USE DEF Healed, Ranked, Held, Free
<1>1. ASSUME NEW i \in Held
      PROVE  Lookup(keyPriority[i]) = keyCode[i]
  <2>. DEFINE S == Ranked(keyPriority[i])
  <2>1. S \subseteq Slots /\ i \in S
    OBVIOUS
  <2>2. Min(S) \in S /\ Min(S) <= i
    BY <2>1, FirstSlot
  <2>3. CASE Min(S) \in Held
    BY <2>1, <2>2, <2>3 DEF RanksExact, Lookup
  <2>4. CASE Min(S) \in Free
    <3>1. keyPriority[Min(S)] # 0
      BY <2>2 DEF RanksExact, WidthOK
    <3>2. i < Min(S)
      BY <2>4, <3>1 DEF StaleBehind
    <3>. QED BY <2>2, <3>2, WidthAssumption DEF Slots
  <2>. QED BY <2>2, <2>3, <2>4
<1>2. ASSUME NEW p \in Slots, p > keyCounter
      PROVE  Lookup(p) = None
  <2>1. CASE Ranked(p) = {}
    BY <2>1 DEF Lookup
  <2>2. CASE Ranked(p) # {}
    <3>1. Min(Ranked(p)) \in Ranked(p)
      BY <2>2, FirstSlot
    <3>2. Min(Ranked(p)) \in Free
      BY <1>2, <3>1, WidthAssumption DEF RanksExact, WidthOK, Slots
    <3>. QED BY <2>2, <3>2 DEF Lookup
  <2>. QED BY <2>1, <2>2
<1>. QED BY <1>1, <1>2 DEF ListExact

\* The lookups of key1, key2, ... show exactly the keys held in the order of
\* their ranks, in spite of the ranks that resets leave in free slots.
THEOREM ListIsExact == Spec => []ListExact
<1>1. IInv => ListExact
  BY ListFromRanks DEF IInv
<1>. QED BY <1>1, Invariance, PTL

\* A machine that nobody has reset since power-up counts its free slots down
\* and fills the ranks with garbage.  The first reset makes the list exact for
\* good, although it clears neither the ranks nor Typematic.
THEOREM ResetHeals == PowerUpSpec => HealsForGood
<1>1. PowerUp => WidthOK
  <2>. SUFFICES ASSUME PowerUp
                PROVE  WidthOK
    OBVIOUS
  <2>1. 0 \in 0..WindowClks /\ 0 \in 0..PriorityMod - 1 /\ 0 \in 0..CounterMod - 1
    BY WidthAssumption
  <2>2. Shooting \in BOOLEAN /\ Jumping \in BOOLEAN
    BY Zenon DEF PowerUp
  <2>3. ~(window > 0)
    BY DEF PowerUp
  <2>. QED BY <2>1, <2>2, <2>3 DEF PowerUp, WidthOK
<1>2. WidthOK /\ [Next]_vars => WidthOK'
  BY WidthStep
<1>3. WidthOK /\ Clean => Healed
  BY DEF Clean, Healed, NoDuplicate, RanksExact, StaleBehind, OrdersValid, Free, Held
<1>4. Healed /\ [Next]_vars => Healed'
  BY HealedStep
<1>5. Healed => RanksExact /\ ListExact
  BY ListFromRanks DEF Healed
<1>. QED BY <1>1, <1>2, <1>3, <1>4, <1>5, PTL DEF PowerUpSpec, HealsForGood

-----------------------------------------------------------------------------
(* The clocks after a code has arrived.  On the window's first clock the   *)
(* decoder decides, on the second the slots follow, on the third the       *)
(* outputs; from then on the order that stands changes nothing.            *)

\* The order that stands has no effect on the slots.
Inert ==
  /\ Press = "insert" => Free = {} \/ \E j \in Slots : keyCode[j] = Data
  /\ Press = "remove" => Removed = {}

\* The decoder has seen the code in Byte_2: seeing it again gives no order
\* that does not stand already.
Decided ==
  /\ Byte_1 = Break /\ Byte_2 \notin {Extend, Break, Shoot, Jump} =>
       Press = "remove" /\ keyReleased = Byte_2
  /\ Byte_1 # Break /\ Byte_2 \in Keys => Typematic = Byte_2

Shows == \A p \in Slots : key[p] = Lookup(p)

Settling ==
  /\ window = WindowClks \/ window <= WindowClks - 2 => Inert
  /\ window = WindowClks \/ window <= WindowClks - 3 => Shows
  /\ window \in 1..(WindowClks - 1) => Decided

\* An inert order leaves the slots alone.
LEMMA InertStep ==
  ASSUME Inert, UpdateSlots
  PROVE  UNCHANGED slotVars
BY DEF Inert, UpdateSlots, Insert, RemoveKey

\* Carrying out an order makes it inert.
LEMMA DoneIsInert ==
  ASSUME IInv, UpdateSlots
  PROVE  /\ Press = "insert" => Free' = {} \/ \E j \in Slots : keyCode'[j] = Data
         /\ Press = "remove" => \A j \in Slots : keyCode'[j] # keyReleased
<1>1. ASSUME Press = "insert"
      PROVE  Free' = {} \/ \E j \in Slots : keyCode'[j] = Data
  <2>1. CASE Free # {} /\ \A j \in Slots : keyCode[j] # Data
    <3>1. Min(Free) \in Slots
      BY <2>1, FirstSlot DEF Free
    <3>2. keyCode'[Min(Free)] = Data
      BY <1>1, <2>1, <3>1 DEF UpdateSlots, Insert, IInv, Healed, WidthOK
    <3>. QED BY <3>1, <3>2
  <2>2. CASE ~(Free # {} /\ \A j \in Slots : keyCode[j] # Data)
    BY <1>1, <2>2 DEF UpdateSlots, Insert, slotVars, Free
  <2>. QED BY <2>1, <2>2
<1>2. ASSUME Press = "remove", NEW j \in Slots
      PROVE  keyCode'[j] # keyReleased
  <2>1. CASE Removed # {}
    BY <1>2, <2>1 DEF UpdateSlots, RemoveKey, Removed, IInv, Healed, OrdersValid
  <2>2. CASE Removed = {}
    BY <1>2, <2>2 DEF UpdateSlots, RemoveKey, Removed, slotVars
  <2>. QED BY <2>1, <2>2
<1>. QED BY <1>1, <1>2

\* Seeing a code for the second time repeats the order that stands or
\* withdraws it.
LEMMA DecideAgain ==
  ASSUME IInv, Decided, Decode, window > 0, UNCHANGED <<Byte_1, Byte_2>>
  PROVE  /\ Decided'
         /\ \/ Press' = "nothing"
            \/ UNCHANGED <<Press, Data, keyReleased>>
<1>. USE KeysAssumption DEF Decided, Codes
<1>1. CASE Prefix
  BY <1>1 DEF Prefix
<1>2. CASE KeyUp
  BY <1>2 DEF KeyUp
<1>3. CASE FireUp
  BY <1>3 DEF FireUp
<1>4. CASE FireDown
  BY <1>4 DEF FireDown
<1>5. CASE Repeat
  BY <1>5 DEF Repeat
<1>6. CASE KeyDown
  BY <1>6 DEF KeyDown
<1>7. CASE Unknown
  BY <1>7 DEF Unknown, decoderVars
<1>. QED BY <1>1, <1>2, <1>3, <1>4, <1>5, <1>6, <1>7 DEF Decode

\* Seeing it for the first time decides.
LEMMA DecideFirst ==
  ASSUME IInv, Decode, window > 0, UNCHANGED <<Byte_1, Byte_2>>
  PROVE  Decided'
<1>. USE KeysAssumption DEF Decided, Codes
<1>1. CASE Prefix
  BY <1>1 DEF Prefix
<1>2. CASE KeyUp
  BY <1>2 DEF KeyUp
<1>3. CASE FireUp
  BY <1>3 DEF FireUp
<1>4. CASE FireDown
  BY <1>4 DEF FireDown
<1>5. CASE Repeat
  BY <1>5 DEF Repeat
<1>6. CASE KeyDown
  BY <1>6 DEF KeyDown
<1>7. CASE Unknown
  BY <1>7 DEF Unknown, IInv, Healed, WidthOK
<1>. QED BY <1>1, <1>2, <1>3, <1>4, <1>5, <1>6, <1>7 DEF Decode

\* A clock keeps the pipeline settling.
LEMMA SettlingClk ==
  ASSUME IInv, Settling, Clk
  PROVE  Settling'
<1>. USE WidthAssumption
<1>1. window \in 0..WindowClks /\ UpdateSlots /\ UNCHANGED <<Byte_1, Byte_2>>
  BY DEF IInv, Healed, WidthOK, Clk
<1>2. \A p \in Slots : key'[p] = Lookup(p)
  BY DEF Clk
<1>3. Inert => Shows'
  <2>. SUFFICES ASSUME Inert
                PROVE  Shows'
    OBVIOUS
  <2>1. UNCHANGED slotVars
    BY <1>1, InertStep
  <2>2. \A p \in Slots : Lookup(p)' = Lookup(p)
    BY <2>1 DEF slotVars, Lookup, Ranked
  <2>. QED BY <1>2, <2>2 DEF Shows
<1>4. (Press' = "nothing" \/ UNCHANGED <<Press, Data, keyReleased>>) => Inert'
  BY <1>1, DoneIsInert DEF Inert, Removed
<1>5. CASE window = 0
  <2>1. window' = 0 /\ UNCHANGED <<Press, Data, keyReleased>>
    BY <1>5 DEF Clk, decoderVars
  <2>2. Inert
    BY <1>5 DEF Settling
  <2>. QED BY <1>3, <1>4, <2>1, <2>2 DEF Settling
<1>6. CASE window > 0
  <2>1. Decode /\ window' = window - 1
    BY <1>6 DEF Clk
  <2>2. Decided'
    BY <1>1, <1>6, <2>1, DecideFirst
  <2>3. CASE window = WindowClks
    BY <2>1, <2>2, <2>3 DEF Settling
  <2>4. CASE window # WindowClks
    <3>1. Decided
      BY <1>1, <1>6, <2>4 DEF Settling
    <3>2. Inert'
      BY <1>1, <1>4, <1>6, <2>1, <3>1, DecideAgain
    <3>3. window' <= WindowClks - 3 => Shows'
      BY <1>1, <1>3, <2>1 DEF Settling
    <3>4. window' # WindowClks
      BY <1>1, <2>1
    <3>. QED BY <2>2, <3>2, <3>3, <3>4 DEF Settling
  <2>. QED BY <2>3, <2>4
<1>. QED BY <1>1, <1>5, <1>6

LEMMA SettledAtStart ==
  ASSUME Init
  PROVE  Settling
<1>1. Inert
  BY DEF Init, Inert
<1>2. \A p \in Slots : Lookup(p) = None
  <2>1. \A i \in Slots : keyCode[i] = None
    BY DEF Init
  <2>2. \A p \in Slots : Ranked(p) # {} => Min(Ranked(p)) \in Slots
    BY FirstSlot DEF Ranked
  <2>. QED BY <2>1, <2>2 DEF Lookup
<1>3. Shows
  BY <1>2 DEF Init, Shows
<1>. QED BY <1>1, <1>3, WidthAssumption DEF Init, Settling

LEMMA SettlingStep ==
  ASSUME IInv, Settling, [Next]_vars
  PROVE  Settling'
<1>. USE WidthAssumption
<1>1. CASE Clk
  BY <1>1, SettlingClk
<1>2. ASSUME NEW c \in Codes, Packet(c)
      PROVE  Settling'
  <2>1. Inert /\ Shows
    BY <1>2 DEF Packet, Settling
  <2>2. Inert' /\ Shows'
    BY <1>2, <2>1 DEF Packet, Inert, Shows, Lookup, Ranked, Removed, Free,
       decoderVars, slotVars
  <2>. QED BY <1>2, <2>2 DEF Packet, Settling
<1>3. CASE Reset
  <2>1. Inert'
    BY <1>3 DEF Reset, Inert
  <2>2. \A p \in Slots : Lookup(p)' = None
    <3>1. \A i \in Slots : keyCode'[i] = None
      BY <1>3 DEF Reset
    <3>2. \A p \in Slots : Ranked(p)' # {} => Min(Ranked(p)') \in Slots
      BY FirstSlot DEF Ranked
    <3>. QED BY <3>1, <3>2 DEF Lookup
  <2>3. Shows'
    BY <1>3, <2>2 DEF Reset, Shows
  <2>. QED BY <1>3, <2>1, <2>3 DEF Reset, Settling
<1>4. CASE UNCHANGED vars
  BY <1>4 DEF vars, Settling, Inert, Decided, Shows, Lookup, Ranked, Removed,
     Free, decoderVars, slotVars
<1>. QED BY <1>1, <1>2, <1>3, <1>4 DEF Next

\* When the decoder is idle the outputs show the list, for every length of
\* the decoder's window of three clocks or more.
THEOREM OutputsSettle == Spec => []OutputsSettled
<1>1. Init => Settling
  BY SettledAtStart
<1>2. IInv /\ Settling /\ [Next]_vars => Settling'
  BY SettlingStep
<1>3. Settling => OutputsSettled
  BY WidthAssumption DEF Settling, Shows, OutputsSettled
<1>. QED BY <1>1, <1>2, <1>3, Invariance, PTL DEF Spec

-----------------------------------------------------------------------------
(* The slots implement the list of KeyList: an insertion appends to it, a  *)
(* removal takes the key out at its rank, and every other step keeps it.   *)

\* The list that the lookups show.
HeldList == [p \in 1..keyCounter |-> Lookup(p)]

\* A key is found at its rank in the list, and nothing else is.
RankedList ==
  /\ keyCounter \in Nat
  /\ HeldList \in Seq(Keys) /\ Len(HeldList) = keyCounter
  /\ \A i \in Held : keyPriority[i] \in 1..keyCounter /\ HeldList[keyPriority[i]] = keyCode[i]
  /\ \A p \in 1..keyCounter : \E i \in Held : keyPriority[i] = p

LEMMA AtRank == Healed => RankedList
<1>. SUFFICES ASSUME Healed PROVE RankedList
  OBVIOUS
<1>1. ListExact
  BY ListFromRanks
<1>2. keyCounter \in Nat
  BY WidthAssumption DEF Healed, WidthOK
<1>3. \A i \in Held : keyPriority[i] \in 1..keyCounter /\ Lookup(keyPriority[i]) = keyCode[i]
  BY <1>1 DEF Healed, RanksExact, ListExact
<1>4. \A p \in 1..keyCounter : \E i \in Held : keyPriority[i] = p
  BY DEF Healed, RanksExact
<1>5. \A p \in 1..keyCounter : Lookup(p) \in Keys
  BY <1>3, <1>4 DEF Held, Healed, WidthOK
<1>6. HeldList \in [1..keyCounter -> Keys]
  BY <1>5 DEF HeldList
<1>7. HeldList \in Seq(Keys) /\ Len(HeldList) = keyCounter
  BY <1>2, <1>6
<1>. QED BY <1>2, <1>3, <1>4, <1>7 DEF HeldList, RankedList

\* What the slots hold decides the list.
LEMMA SameList ==
  ASSUME UNCHANGED slotVars
  PROVE  HeldList' = HeldList
BY DEF slotVars, HeldList, Lookup, Ranked

\* What taking one element out of a sequence leaves.
LEMMA RemovedAt ==
  ASSUME NEW S, NEW s \in Seq(S), NEW p \in 1..Len(s)
  PROVE  /\ RemoveAt(s, p) \in Seq(S)
         /\ Len(RemoveAt(s, p)) = Len(s) - 1
         /\ \A i \in 1..Len(s) - 1 :
              RemoveAt(s, p)[i] = IF i < p THEN s[i] ELSE s[i + 1]
<1>. DEFINE n == Len(s)
            front == SubSeq(s, 1, p - 1)
            back == SubSeq(s, p + 1, n)
            shorter == front \o back
<1>1. n \in Nat /\ p \in 1..n /\ \A i \in 1..n : s[i] \in S
  BY LenProperties, ElementOfSeq
<1>2. /\ front \in Seq(S) /\ Len(front) = p - 1
      /\ \A i \in 1..p - 1 : front[i] = s[i]
  <2>1. \A i \in 1..p - 1 : s[i] \in S
    BY <1>1
  <2>2. /\ front \in Seq(S)
        /\ Len(front) = IF 1 <= p - 1 THEN p - 1 - 1 + 1 ELSE 0
        /\ \A i \in 1..p - 1 - 1 + 1 : front[i] = s[1 + i - 1]
    BY <1>1, <2>1, SubSeqProperties
  <2>. QED BY <1>1, <2>2
<1>3. /\ back \in Seq(S) /\ Len(back) = n - p
      /\ \A i \in 1..n - p : back[i] = s[p + i]
  <2>1. \A i \in p + 1..n : s[i] \in S
    BY <1>1
  <2>2. /\ back \in Seq(S)
        /\ Len(back) = IF p + 1 <= n THEN n - (p + 1) + 1 ELSE 0
        /\ \A i \in 1..n - (p + 1) + 1 : back[i] = s[p + 1 + i - 1]
    BY <1>1, <2>1, SubSeqProperties
  <2>. QED BY <1>1, <2>2
<1>. HIDE DEF front, back, n
<1>4. /\ shorter \in Seq(S)
      /\ Len(shorter) = Len(front) + Len(back)
      /\ \A i \in 1..Len(front) + Len(back) :
           shorter[i] = IF i <= Len(front) THEN front[i] ELSE back[i - Len(front)]
  BY <1>2, <1>3, ConcatProperties
<1>5. Len(front) + Len(back) = n - 1
  BY <1>1, <1>2, <1>3
<1>. HIDE DEF shorter
<1>6. ASSUME NEW i \in 1..n - 1
      PROVE  shorter[i] = IF i < p THEN s[i] ELSE s[i + 1]
  <2>1. CASE i < p
    <3>1. i \in 1..p - 1 /\ i <= Len(front) /\ i \in 1..Len(front) + Len(back)
      BY <1>1, <1>2, <1>5, <2>1
    <3>2. shorter[i] = front[i]
      BY <1>4, <3>1
    <3>. QED BY <1>2, <2>1, <3>1, <3>2
  <2>2. CASE ~(i < p)
    <3>1. /\ ~(i <= Len(front)) /\ i - Len(front) \in 1..n - p
          /\ p + (i - Len(front)) = i + 1
      BY <1>1, <1>2, <2>2
    <3>2. shorter[i] = back[i - Len(front)]
      BY <1>4, <1>5, <3>1
    <3>. QED BY <1>3, <2>2, <3>1, <3>2
  <2>. QED BY <2>1, <2>2
<1>7. RemoveAt(s, p) = shorter
  BY DEF RemoveAt, shorter, front, back, n
<1>. QED BY <1>4, <1>5, <1>6, <1>7 DEF n

\* When no slot is free every key is in one, by counting.
LEMMA NoneMissing ==
  ASSUME Healed, Free = {}, NEW k \in Keys
  PROVE  \E j \in Slots : keyCode[j] = k
<1>. SUFFICES ASSUME \A j \in Slots : keyCode[j] # k
              PROVE  FALSE
  OBVIOUS
<1>. DEFINE Others == Keys \ {k}
<1>1. IsFiniteSet(Slots) /\ Cardinality(Slots) = NumSlots
  BY WidthAssumption, FS_Interval DEF Slots
<1>2. /\ IsFiniteSet(Others) /\ Cardinality(Others) = Cardinality(Keys) - 1
      /\ Cardinality(Keys) \in Nat
  BY KeysAssumption, FS_RemoveElement, FS_CardinalityType
<1>3. Cardinality(Others) < Cardinality(Slots)
  BY <1>1, <1>2, WidthAssumption
<1>4. keyCode \in [Slots -> Others] /\ Held = Slots
  BY DEF Healed, WidthOK, Free, Held
<1>. HIDE DEF Others
<1>5. \E i, j \in Slots : i # j /\ keyCode[i] = keyCode[j]
  BY <1>1, <1>2, <1>3, <1>4, FS_PigeonHole
<1>. QED BY <1>4, <1>5 DEF Healed, NoDuplicate

LEMMA InsertAppends ==
  ASSUME Healed, RankedList, RankedList', Press = "insert", Insert
  PROVE  \/ List!Press(Data)
         \/ HeldList' = HeldList /\ Contains(HeldList, Data)
<1>1. CASE ~(Free # {} /\ \A j \in Slots : keyCode[j] # Data)
  <2>1. HeldList' = HeldList
    BY <1>1, SameList DEF Insert
  <2>2. Data \in Keys /\ Data # None
    BY KeysAssumption DEF Healed, OrdersValid, Codes
  <2>3. PICK j \in Slots : keyCode[j] = Data
    BY <1>1, <2>2, NoneMissing
  <2>4. Contains(HeldList, Data)
    BY <2>2, <2>3 DEF RankedList, Held, Contains
  <2>. QED BY <2>1, <2>4
<1>2. CASE Free # {} /\ \A j \in Slots : keyCode[j] # Data
  <2>. DEFINE m == Min(Free)
              n == keyCounter
              longer == Append(HeldList, Data)
  <2>1. /\ m \in Free /\ m \in Slots /\ Data \in Keys /\ Data # None
        /\ keyCounter' = n + 1
        /\ keyCode' = [keyCode EXCEPT ![m] = Data]
        /\ keyPriority' = [keyPriority EXCEPT ![m] = n + 1]
    BY <1>2, Inserted DEF Free
  <2>. HIDE DEF m
  <2>2. /\ n \in Nat /\ HeldList \in Seq(Keys) /\ Len(HeldList) = n
        /\ HeldList' \in Seq(Keys) /\ Len(HeldList') = n + 1
    BY <2>1 DEF RankedList
  <2>3. /\ longer \in Seq(Keys) /\ Len(longer) = n + 1 /\ longer[n + 1] = Data
        /\ \A i \in 1..n : longer[i] = HeldList[i]
    BY <2>1, <2>2
  <2>4. \A i \in Held : /\ i # m /\ i \in Held'
                        /\ keyCode'[i] = keyCode[i] /\ keyPriority'[i] = keyPriority[i]
    BY <2>1 DEF Held, Free, Healed, WidthOK
  <2>5. m \in Held' /\ keyCode'[m] = Data /\ keyPriority'[m] = n + 1
    BY <2>1 DEF Held, Healed, WidthOK
  <2>. HIDE DEF longer
  <2>6. ASSUME NEW i \in 1..n + 1 PROVE HeldList'[i] = longer[i]
    <3>1. CASE i = n + 1
      BY <2>3, <2>5, <3>1 DEF RankedList
    <3>2. CASE i \in 1..n
      <4>1. PICK j \in Held : keyPriority[j] = i
        BY <3>2 DEF RankedList
      <4>2. HeldList[i] = keyCode[j]
        BY <4>1 DEF RankedList
      <4>3. HeldList'[i] = keyCode'[j]
        BY <2>4, <4>1 DEF RankedList
      <4>. QED BY <2>3, <2>4, <3>2, <4>2, <4>3
    <3>. QED BY <2>2, <3>1, <3>2
  <2>7. HeldList' = longer
    BY <2>2, <2>3, <2>6, SeqEqual
  <2>8. \A i \in 1..Len(HeldList) : HeldList[i] # Data
    <3>. SUFFICES ASSUME NEW i \in 1..n PROVE HeldList[i] # Data
      BY <2>2
    <3>1. PICK j \in Held : keyPriority[j] = i
      BY DEF RankedList
    <3>2. HeldList[i] = keyCode[j] /\ j \in Slots
      BY <3>1 DEF RankedList, Held
    <3>. QED BY <1>2, <3>2
  <2>9. List!Press(Data)
    BY <2>7, <2>8 DEF List!Press, List!Contains, HeldList, longer
  <2>. QED BY <2>9
<1>. QED BY <1>1, <1>2

LEMMA RemoveReleases ==
  ASSUME Healed, RankedList, RankedList', Press = "remove", RemoveKey
  PROVE  \/ Removed # {} /\ List!Release(keyReleased)
         \/ Removed = {} /\ HeldList' = HeldList
<1>1. CASE Removed = {}
  BY <1>1, SameList DEF RemoveKey
<1>2. CASE Removed # {}
  <2>1. PICK r \in Held :
           /\ keyCode[r] = keyReleased /\ keyPriority[r] \in 1..keyCounter
           /\ keyCode' = [i \in Slots |-> IF i = r THEN None ELSE keyCode[i]]
           /\ keyPriority' = [j \in Slots |->
                IF keyPriority[j] > keyPriority[r] THEN keyPriority[j] - 1
                ELSE IF j = r THEN 0 ELSE keyPriority[j]]
           /\ keyCounter' = keyCounter - 1
    BY <1>2, Closed
  <2>. DEFINE n == keyCounter
              p == keyPriority[r]
              shorter == RemoveAt(HeldList, p)
  <2>2. /\ n \in Nat /\ HeldList \in Seq(Keys) /\ Len(HeldList) = n
        /\ HeldList' \in Seq(Keys) /\ Len(HeldList') = n - 1 /\ p \in 1..n
    BY <2>1 DEF RankedList
  <2>. HIDE DEF p
  <2>3. /\ shorter \in Seq(Keys) /\ Len(shorter) = n - 1
        /\ \A i \in 1..n - 1 : shorter[i] = IF i < p THEN HeldList[i] ELSE HeldList[i + 1]
    BY <2>2, RemovedAt
  <2>4. ASSUME NEW i \in Held, i # r
        PROVE  /\ i \in Held' /\ keyCode'[i] = keyCode[i]
               /\ keyPriority'[i] = IF keyPriority[i] > p THEN keyPriority[i] - 1
                                    ELSE keyPriority[i]
    BY <2>1, <2>4 DEF Held, p
  <2>. HIDE DEF shorter
  <2>5. ASSUME NEW i \in 1..n - 1 PROVE HeldList'[i] = shorter[i]
    <3>. DEFINE q == IF i < p THEN i ELSE i + 1
    <3>1. q \in 1..n /\ q # p /\ (q > p <=> ~(i < p))
      BY <2>2
    <3>2. PICK j \in Held : keyPriority[j] = q
      BY <3>1 DEF RankedList
    <3>3. j # r /\ HeldList[q] = keyCode[j]
      BY <3>1, <3>2 DEF RankedList, p
    <3>4. j \in Held' /\ keyCode'[j] = keyCode[j] /\ keyPriority'[j] = i
      BY <2>2, <2>4, <3>1, <3>2, <3>3
    <3>5. HeldList'[i] = keyCode[j]
      BY <3>4 DEF RankedList
    <3>. QED BY <2>3, <3>3, <3>5
  <2>6. HeldList' = shorter
    BY <2>2, <2>3, <2>5, SeqEqual
  <2>7. p \in DOMAIN HeldList /\ HeldList[p] = keyReleased
    BY <2>1, <2>2 DEF RankedList, p
  <2>8. List!Release(keyReleased)
    BY <2>6, <2>7 DEF List!Release, List!RemoveAt, RemoveAt, HeldList, shorter
  <2>. QED BY <1>2, <2>8
<1>. QED BY <1>1, <1>2

\* The four numbered slots with their ranks do what KeyList promises: a key
\* joins the end of the list, leaves it from any place with the others keeping
\* their order, and a reset empties it; nothing else changes it.
THEOREM SlotsImplementList == Spec => ImplementsKeyList
<1>1. Init => List!Init
  BY DEF Init, List!Init
<1>2. (Healed => RankedList)'
  BY AtRank, PTL
<1>3. ASSUME IInv, IInv', [Next]_vars
      PROVE  [List!Next]_HeldList
  <2>1. Healed /\ RankedList /\ RankedList'
    BY <1>2, <1>3, AtRank DEF IInv
  <2>2. UNCHANGED slotVars => HeldList' = HeldList
    BY SameList
  <2>3. CASE Clk
    <3>1. /\ Press = "insert" => Data \in Keys
          /\ Removed # {} => keyReleased \in Keys \cup {None}
          /\ Press = "remove" => keyReleased # None
      BY <2>1 DEF Healed, WidthOK, OrdersValid, Removed
    <3>2. HeldList' = HeldList \/ \E k \in Keys : List!Press(k) \/ List!Release(k)
      BY <2>1, <2>2, <2>3, <3>1, InsertAppends, RemoveReleases DEF Clk, UpdateSlots
    <3>. QED BY <3>2 DEF List!Next
  <2>4. CASE Reset
    <3>1. HeldList' = << >>
      BY <2>1, <2>4 DEF Reset, RankedList
    <3>. QED BY <3>1 DEF List!Next, List!Clear, HeldList
  <2>5. CASE UNCHANGED slotVars
    BY <2>2, <2>5
  <2>. QED BY <1>3, <2>3, <2>4, <2>5 DEF Next, Packet, vars
<1>4. IInv /\ IInv' /\ [Next]_vars => [List!Next]_HeldList
  BY <1>3
<1>. QED BY <1>1, <1>4, Invariance, PTL DEF Spec, ImplementsKeyList, List!Spec, HeldList

-----------------------------------------------------------------------------
(* A player at the keyboard (TypingSession.tla).  The state of the keys that  *)
(* is settled and the one that a code still brings are told apart by the code *)
(* that is under way.                                                         *)

\* The last code of the event whose codes are on the wire or in the decoder,
\* and whether it is announced by Break.
LastCode ==
  IF wire # <<>> THEN wire[Len(wire)] ELSE IF window > 0 THEN Byte_2 ELSE None

ComesUp ==
  \/ Len(wire) > 1 /\ wire[Len(wire) - 1] = Break
  \/ Len(wire) = 1 /\ Byte_2 = Break
  \/ wire = <<>> /\ Byte_1 = Break

\* The same, until the slots have followed the decoder.
Underway == IF wire = <<>> /\ window < WindowClks - 1 THEN None ELSE LastCode

\* The player holds each key once; a key that repeats is held.
UserOK ==
  /\ down \in Seq(Keys) /\ \A k \in Keys : ~Before(down, k, k)
  /\ fresh \subseteq Keys
  /\ repeating \in Keys \cup {Shoot, Jump, None}
  /\ repeating \in Keys => Contains(down, repeating)
  /\ repeating = Shoot => fire
  /\ repeating = Jump => jump
  /\ fire \in BOOLEAN /\ jump \in BOOLEAN

\* An event's codes are prefixes and one last code.
CodesOK ==
  /\ wire \in Seq(Codes)
  /\ \A i \in 1..Len(wire) : wire[i] \in {Break, Extend} <=> i < Len(wire)
  /\ wire = <<>> => Byte_2 \notin {Break, Extend}
  /\ wire # <<>> /\ window > 0 => Byte_2 \in {Break, Extend}

\* Only on the second clock of a window does an order stand that the slots have
\* not carried out, and it is about the code in Byte_2.
OrderStands ==
  /\ window # WindowClks - 1 => Press # "insert"
  /\ window = WindowClks - 1 =>
       /\ Press = "insert" => Data = Byte_2 /\ Byte_2 \in Keys /\ Byte_1 # Break
       /\ Press = "remove" => (Byte_1 = Break /\ keyReleased = Byte_2) \/ Removed = {}

\* The last code says what the player did.
EventOK ==
  /\ LastCode \in Keys => (ComesUp <=> ~Contains(down, LastCode))
  /\ LastCode = Shoot => (fire <=> ~ComesUp)
  /\ LastCode = Jump => (jump <=> ~ComesUp)

FlagsOK ==
  /\ Underway # Shoot => (Shooting <=> fire)
  /\ Underway # Jump => (Jumping <=> jump)

\* The repeats of a key are ignored while it is held only.
TypematicOK == Typematic \in Keys => Contains(down, Typematic) \/ Typematic = Underway

\* The list and the player's keys differ by the code under way and by the keys
\* held over a reset.
ListOK ==
  /\ \A k \in Keys : Contains(HeldList, k) => Contains(down, k) \/ k = Underway
  /\ \A k \in fresh : Contains(down, k) /\ (Contains(HeldList, k) \/ k = Underway)
  /\ \A k, l \in fresh : Contains(HeldList, k) /\ Contains(HeldList, l) =>
       (Before(HeldList, k, l) <=> Before(down, k, l))

\* A key that is not in the list yet is the newest, and its code will be taken
\* for a key that goes down.
NewestOK ==
  \A k \in fresh : ~Contains(HeldList, k) =>
    /\ wire # <<>> \/ window = WindowClks => Typematic # k
    /\ wire = <<>> /\ window = WindowClks - 1 => Press = "insert" /\ Data = k
    /\ \A l \in fresh \ {k} : Before(down, l, k) /\ ~Before(down, k, l)

\* The inductive invariant of the session.
KeyboardOK == IInv /\ Settling /\ RankedList
SessionOK ==
  /\ UserOK /\ CodesOK /\ OrderStands /\ EventOK
  /\ FlagsOK /\ TypematicOK /\ ListOK /\ NewestOK
SessionInv == KeyboardOK /\ SessionOK

(* Lemmas on sequences. *)

\* Order and membership after an element has been appended.
LEMMA AppendBefore ==
  ASSUME NEW S, NEW s \in Seq(S), NEW c \in S
  PROVE  /\ Append(s, c) \in Seq(S)
         /\ \A k : Contains(Append(s, c), k) <=> Contains(s, k) \/ k = c
         /\ \A k, l : Before(Append(s, c), k, l) <=>
                       Before(s, k, l) \/ (Contains(s, k) /\ l = c)
<1>. DEFINE t == Append(s, c)
            n == Len(s)
<1>1. /\ n \in Nat /\ t \in Seq(S) /\ Len(t) = n + 1 /\ t[n + 1] = c
      /\ \A i \in 1..n : t[i] = s[i]
      /\ DOMAIN s = 1..n /\ DOMAIN t = 1..n + 1
  OBVIOUS
<1>. HIDE DEF t, n
<1>2. ASSUME NEW k PROVE Contains(t, k) <=> Contains(s, k) \/ k = c
  BY <1>1 DEF Contains, n
<1>3. ASSUME NEW k, NEW l
      PROVE  Before(t, k, l) <=> Before(s, k, l) \/ (Contains(s, k) /\ l = c)
  <2>1. ASSUME Before(t, k, l)
        PROVE  Before(s, k, l) \/ (Contains(s, k) /\ l = c)
    <3>1. PICK i, j \in 1..n + 1 : i < j /\ t[i] = k /\ t[j] = l
      BY <1>1, <2>1 DEF Before
    <3>2. i \in 1..n /\ s[i] = k
      BY <1>1, <3>1
    <3>3. CASE j = n + 1
      BY <1>1, <3>1, <3>2, <3>3 DEF Contains, n
    <3>4. CASE j # n + 1
      <4>1. j \in 1..n /\ s[j] = l
        BY <1>1, <3>1, <3>4
      <4>. QED BY <1>1, <3>1, <3>2, <4>1 DEF Before
    <3>. QED BY <3>3, <3>4
  <2>2. ASSUME Before(s, k, l) PROVE Before(t, k, l)
    <3>1. PICK i, j \in 1..n : i < j /\ s[i] = k /\ s[j] = l
      BY <1>1, <2>2 DEF Before
    <3>2. i \in DOMAIN t /\ j \in DOMAIN t /\ t[i] = k /\ t[j] = l
      BY <1>1, <3>1
    <3>. QED BY <3>1, <3>2 DEF Before
  <2>3. ASSUME Contains(s, k), l = c PROVE Before(t, k, l)
    <3>1. PICK i \in 1..n : s[i] = k
      BY <2>3 DEF Contains, n
    <3>2. i \in DOMAIN t /\ n + 1 \in DOMAIN t /\ i < n + 1 /\ t[i] = k /\ t[n + 1] = l
      BY <1>1, <2>3, <3>1
    <3>. QED BY <3>2 DEF Before
  <2>. QED BY <2>1, <2>2, <2>3
<1>. QED BY <1>1, <1>2, <1>3 DEF t

\* And after one has been taken out of a sequence of different elements.
LEMMA RemoveBefore ==
  ASSUME NEW S, NEW s \in Seq(S), \A k \in S : ~Before(s, k, k), NEW p \in DOMAIN s
  PROVE  /\ RemoveAt(s, p) \in Seq(S)
         /\ \A k \in S : Contains(RemoveAt(s, p), k) <=> Contains(s, k) /\ k # s[p]
         /\ \A k, l \in S : Before(RemoveAt(s, p), k, l) <=>
                            Before(s, k, l) /\ k # s[p] /\ l # s[p]
<1>. DEFINE t == RemoveAt(s, p)
            n == Len(s)
            Old(i) == IF i < p THEN i ELSE i + 1
            New(i) == IF i < p THEN i ELSE i - 1
<1>1. n \in Nat /\ p \in 1..n /\ DOMAIN s = 1..n
  OBVIOUS
<1>2. /\ n \in Nat /\ p \in 1..n /\ t \in Seq(S) /\ Len(t) = n - 1
      /\ \A i \in 1..n - 1 : t[i] = s[Old(i)]
      /\ DOMAIN s = 1..n
  BY <1>1, RemovedAt
<1>3. DOMAIN t = 1..n - 1 /\ \A i \in 1..n : s[i] \in S
  BY <1>2
<1>. HIDE DEF t, n
<1>4. \A i \in 1..n : i # p => s[i] # s[p]
  BY <1>2, <1>3 DEF Before
<1>5. \A i \in 1..n - 1 : Old(i) \in 1..n /\ Old(i) # p /\ t[i] = s[Old(i)]
  BY <1>2
<1>6. \A i \in 1..n : i # p => New(i) \in 1..n - 1 /\ t[New(i)] = s[i]
  <2>. SUFFICES ASSUME NEW i \in 1..n, i # p
                PROVE  New(i) \in 1..n - 1 /\ t[New(i)] = s[i]
    OBVIOUS
  <2>1. New(i) \in 1..n - 1 /\ Old(New(i)) = i
    BY <1>2
  <2>. QED BY <1>5, <2>1
<1>7. /\ \A i, j \in 1..n - 1 : i < j => Old(i) < Old(j)
      /\ \A i, j \in 1..n : i < j /\ i # p /\ j # p => New(i) < New(j)
  BY <1>2
<1>. HIDE DEF Old, New
<1>8. ASSUME NEW k \in S
      PROVE  Contains(t, k) <=> Contains(s, k) /\ k # s[p]
  <2>1. Contains(t, k) <=> \E i \in 1..n - 1 : t[i] = k
    BY <1>2 DEF Contains
  <2>2. Contains(s, k) <=> \E i \in 1..n : s[i] = k
    BY DEF Contains, n
  <2>3. ASSUME Contains(t, k)
        PROVE  Contains(s, k) /\ k # s[p]
    <3>1. PICK i \in 1..n - 1 : t[i] = k
      BY <2>1, <2>3
    <3>. QED BY <1>4, <1>5, <2>2, <3>1
  <2>4. ASSUME Contains(s, k), k # s[p]
        PROVE  Contains(t, k)
    <3>1. PICK i \in 1..n : s[i] = k
      BY <2>2, <2>4
    <3>2. i # p
      BY <2>4, <3>1
    <3>. QED BY <1>6, <2>1, <3>1, <3>2
  <2>. QED BY <2>3, <2>4
<1>9. ASSUME NEW k \in S, NEW l \in S
      PROVE  Before(t, k, l) <=> Before(s, k, l) /\ k # s[p] /\ l # s[p]
  <2>1. ASSUME Before(t, k, l)
        PROVE  Before(s, k, l) /\ k # s[p] /\ l # s[p]
    <3>1. PICK i, j \in 1..n - 1 : i < j /\ t[i] = k /\ t[j] = l
      BY <1>3, <2>1 DEF Before
    <3>. QED BY <1>2, <1>4, <1>5, <1>7, <3>1 DEF Before
  <2>2. ASSUME Before(s, k, l), k # s[p], l # s[p]
        PROVE  Before(t, k, l)
    <3>1. PICK i, j \in 1..n : i < j /\ s[i] = k /\ s[j] = l
      BY <1>2, <2>2 DEF Before
    <3>2. i # p /\ j # p
      BY <2>2, <3>1
    <3>. QED BY <1>3, <1>6, <1>7, <3>1, <3>2 DEF Before
  <2>. QED BY <2>1, <2>2
<1>. QED BY <1>2, <1>8, <1>9 DEF t

(* The codes. *)

\* Five elements make no set of six.
LEMMA AtMostFive ==
  ASSUME NEW a, NEW b, NEW c, NEW d, NEW e
  PROVE  Cardinality({a, b, c, d, e}) # 6
<1>. DEFINE S == {a, b, c, d, e}
            f == [i \in 1..5 |-> IF i = 1 THEN a ELSE IF i = 2 THEN b
                                 ELSE IF i = 3 THEN c ELSE IF i = 4 THEN d ELSE e]
<1>1. f \in [1..5 -> S]
  OBVIOUS
<1>2. f[1] = a /\ f[2] = b /\ f[3] = c /\ f[4] = d /\ f[5] = e
  OBVIOUS
<1>. HIDE DEF f
<1>3. \A t \in S : \E i \in 1..5 : f[i] = t
  BY <1>2
<1>4. ExistsSurjection(1..5, S)
  BY <1>1, <1>3 DEF ExistsSurjection, Surjection
<1>5. Cardinality(S) <= 5
  BY <1>4, FS_SurjCardinalityBound
<1>. QED BY <1>5

\* No code is another one.
LEMMA Distinct ==
  /\ Shoot # Jump /\ Shoot \notin {Extend, Break} /\ Jump \notin {Extend, Break}
  /\ Extend # Break /\ Other \notin {Shoot, Jump, Extend, Break}
  /\ None \notin Codes
  /\ \A k \in Keys : k \notin {Shoot, Jump, Extend, Break, Other, None}
<1>. DEFINE All == {Shoot, Jump, Extend, Break, Other, None}
<1>1. Cardinality(All) = 6 /\ None \notin Codes
  BY KeysAssumption
<1>2. /\ All = {Jump, Extend, Break, Other, None} => FALSE
      /\ All = {Shoot, Jump, Break, Other, None} => FALSE
      /\ All = {Shoot, Jump, Extend, Other, None} => FALSE
      /\ All = {Shoot, Jump, Extend, Break, None} => FALSE
      /\ All = {Shoot, Extend, Break, Other, None} => FALSE
  BY <1>1, AtMostFive
<1>3. Shoot # Jump
  BY <1>2
<1>4. Shoot # Extend /\ Jump # Extend
  BY <1>2
<1>5. Shoot # Break /\ Jump # Break /\ Extend # Break
  BY <1>2
<1>6. Other \notin {Shoot, Jump, Extend, Break}
  BY <1>2
<1>7. \A k \in Keys : k \notin All
  BY KeysAssumption
<1>. QED BY <1>1, <1>3, <1>4, <1>5, <1>6, <1>7

\* An element that stands before another is in the sequence, and so is the
\* other.
LEMMA BeforeContains ==
  ASSUME NEW S, NEW s \in Seq(S), NEW k, NEW l, Before(s, k, l)
  PROVE  Contains(s, k) /\ Contains(s, l)
<1>1. DOMAIN s = 1..Len(s)
  OBVIOUS
<1>. QED BY <1>1 DEF Before, Contains

\* Nothing is in the empty sequence.
LEMMA Empty ==
  /\ <<>> \in Seq(Keys)
  /\ \A k : ~Contains(<<>>, k)
  /\ \A k, l : ~Before(<<>>, k, l)
BY DEF Contains, Before

\* No key is twice in the list of the slots.
LEMMA ListDistinct ==
  ASSUME Healed, RankedList, NEW k \in Keys
  PROVE  ~Before(HeldList, k, k)
<1>. SUFFICES ASSUME Before(HeldList, k, k) PROVE FALSE
  OBVIOUS
<1>1. PICK i, j \in 1..keyCounter : i < j /\ HeldList[i] = k /\ HeldList[j] = k
  BY DEF Before, RankedList
<1>2. PICK a, b \in Held : keyPriority[a] = i /\ keyPriority[b] = j
  BY <1>1 DEF RankedList
<1>3. keyCode[a] = k /\ keyCode[b] = k
  BY <1>1, <1>2 DEF RankedList
<1>4. a = b
  BY <1>3 DEF Healed, NoDuplicate
<1>5. i \in Nat /\ j \in Nat
  BY <1>1 DEF RankedList
<1>. QED BY <1>1, <1>2, <1>4, <1>5

-----------------------------------------------------------------------------
(* The session's clock. *)

\* What a clock does to the session's state: nothing is enqueued or sent, and
\* the code under way stays so until the slots follow.
LEMMA ClkCodes ==
  ASSUME SessionInv, Clk, UNCHANGED <<userVars, wire>>
  PROVE  /\ UserOK' /\ CodesOK' /\ EventOK'
         /\ wire = <<>> /\ window = WindowClks - 1 => Underway = Byte_2 /\ Underway' = None
         /\ ~(wire = <<>> /\ window = WindowClks - 1) => Underway' = Underway
<1>. USE WidthAssumption
<1>1. /\ window \in 0..WindowClks /\ UNCHANGED <<Byte_1, Byte_2, wire>>
      /\ window' = IF window > 0 THEN window - 1 ELSE 0
  BY DEF SessionInv, KeyboardOK, IInv, Healed, WidthOK, Clk
<1>2. UserOK'
  BY DEF SessionInv, SessionOK, UserOK, userVars, Before, Contains
<1>3. CodesOK'
  BY <1>1 DEF SessionInv, SessionOK, CodesOK
<1>4. LastCode' = LastCode \/ LastCode' = None
  BY <1>1 DEF LastCode
<1>5. ComesUp' <=> ComesUp
  BY <1>1 DEF ComesUp
<1>6. EventOK'
  <2>1. UNCHANGED <<down, fire, jump>>
    BY DEF userVars
  <2>2. None \notin Keys \cup {Shoot, Jump}
    BY Distinct DEF Codes
  <2>. QED BY <1>4, <1>5, <2>1, <2>2 DEF SessionInv, SessionOK, EventOK, Contains
<1>7. /\ wire = <<>> /\ window = WindowClks - 1 => Underway = Byte_2 /\ Underway' = None
      /\ ~(wire = <<>> /\ window = WindowClks - 1) => Underway' = Underway
  BY <1>1 DEF Underway, LastCode
<1>. QED BY <1>2, <1>3, <1>6, <1>7

\* What the decoder decides at each clock, by the code it looks at.
LEMMA ClkDecodes ==
  ASSUME SessionInv, Clk, UNCHANGED <<userVars, wire>>
  PROVE  /\ window = 0 \/ Byte_2 \in {Extend, Break} \/ (Byte_2 = Other /\ Byte_1 # Break) =>
              /\ UNCHANGED <<Data, keyReleased, Typematic, Shooting, Jumping>>
              /\ Press' = Press \/ Press' = "nothing"
         /\ window > 0 /\ Byte_2 \in Keys \cup {Other} /\ Byte_1 = Break =>
              /\ UNCHANGED <<Data, Shooting, Jumping>>
              /\ Press' = "remove" /\ keyReleased' = Byte_2
              /\ Typematic' = IF keyReleased = Typematic THEN None ELSE Typematic
         /\ window > 0 /\ Byte_2 \in {Shoot, Jump} =>
              /\ UNCHANGED <<Data, keyReleased, Typematic>>
              /\ Press' = Press \/ Press' = "nothing"
              /\ Byte_2 = Shoot => Jumping' = Jumping /\ (Shooting' <=> Byte_1 # Break)
              /\ Byte_2 = Jump => Shooting' = Shooting /\ (Jumping' <=> Byte_1 # Break)
         /\ window > 0 /\ Byte_2 \in Keys /\ Byte_1 # Break =>
              /\ UNCHANGED <<keyReleased, Shooting, Jumping>>
              /\ Typematic' = Byte_2
              /\ Typematic = Byte_2 => Press' = "nothing" /\ Data' = Data
              /\ Typematic # Byte_2 => Press' = "insert" /\ Data' = Byte_2
         /\ window > 0 => Byte_2 \in Codes
<1>. USE Distinct
<1>1. window \in Nat /\ Byte_2 \in Codes \cup {None} /\ (window > 0 => Byte_2 # None)
      /\ Typematic \in Keys \cup {None} /\ Shooting \in BOOLEAN /\ Jumping \in BOOLEAN
  BY WidthAssumption DEF SessionInv, KeyboardOK, IInv, Healed, WidthOK
<1>2. ASSUME window = 0 \/ Byte_2 \in {Extend, Break} \/ (Byte_2 = Other /\ Byte_1 # Break)
      PROVE  /\ UNCHANGED <<Data, keyReleased, Typematic, Shooting, Jumping>>
             /\ Press' = Press \/ Press' = "nothing"
  <2>1. CASE window = 0
    BY <2>1 DEF Clk, decoderVars
  <2>2. CASE window > 0
    <3>1. Prefix \/ Unknown \/ Repeat
      BY <1>1, <1>2, <2>2 DEF Clk, Decode, KeyUp, FireUp, FireDown, KeyDown
    <3>. QED BY <3>1 DEF Prefix, Unknown, Repeat, decoderVars
  <2>. QED BY <1>1, <2>1, <2>2
<1>3. ASSUME window > 0, Byte_2 \in Keys \cup {Other}, Byte_1 = Break
      PROVE  KeyUp
  BY <1>1, <1>3 DEF Clk, Decode, Prefix, FireUp, FireDown, Repeat, KeyDown, Unknown
<1>4. ASSUME window > 0, Byte_2 \in {Shoot, Jump}
      PROVE  FireUp \/ FireDown
  BY <1>1, <1>4 DEF Clk, Decode, Prefix, KeyUp, Repeat, KeyDown, Unknown
<1>5. ASSUME window > 0, Byte_2 \in Keys, Byte_1 # Break
      PROVE  Repeat \/ KeyDown
  BY <1>1, <1>5 DEF Clk, Decode, Prefix, KeyUp, FireUp, FireDown, Unknown
<1>6. ASSUME window > 0, Byte_2 \in {Shoot, Jump}
      PROVE  /\ UNCHANGED <<Data, keyReleased, Typematic>>
             /\ Press' = Press \/ Press' = "nothing"
             /\ Byte_2 = Shoot => Jumping' = Jumping /\ (Shooting' <=> Byte_1 # Break)
             /\ Byte_2 = Jump => Shooting' = Shooting /\ (Jumping' <=> Byte_1 # Break)
  <2>1. CASE FireUp
    BY <1>1, <1>6, <2>1 DEF FireUp
  <2>2. CASE FireDown
    BY <1>1, <1>6, <2>2 DEF FireDown
  <2>. QED BY <1>4, <1>6, <2>1, <2>2
<1>7. ASSUME window > 0, Byte_2 \in Keys, Byte_1 # Break
      PROVE  /\ UNCHANGED <<keyReleased, Shooting, Jumping>>
             /\ Typematic' = Byte_2
             /\ Typematic = Byte_2 => Press' = "nothing" /\ Data' = Data
             /\ Typematic # Byte_2 => Press' = "insert" /\ Data' = Byte_2
  BY <1>5, <1>7 DEF Repeat, KeyDown
<1>8. ASSUME window > 0, Byte_2 \in Keys \cup {Other}, Byte_1 = Break
      PROVE  /\ UNCHANGED <<Data, Shooting, Jumping>>
             /\ Press' = "remove" /\ keyReleased' = Byte_2
             /\ Typematic' = IF keyReleased = Typematic THEN None ELSE Typematic
  BY <1>3, <1>8 DEF KeyUp
<1>. QED BY <1>1, <1>2, <1>6, <1>7, <1>8

\* The decoder's orders are about the code in Byte_2, and they stand for one
\* clock.
LEMMA ClkOrders ==
  ASSUME SessionInv, Clk, UNCHANGED <<userVars, wire>>
  PROVE  OrderStands'
<1>. USE WidthAssumption
<1>1. /\ window \in 0..WindowClks /\ UNCHANGED <<Byte_1, Byte_2>>
      /\ window' = IF window > 0 THEN window - 1 ELSE 0
      /\ UpdateSlots
  BY DEF SessionInv, KeyboardOK, IInv, Healed, WidthOK, Clk
<1>2. OrderStands /\ Settling
  BY DEF SessionInv, SessionOK, KeyboardOK
<1>3. Byte_2 \in Codes => Byte_2 \in Keys \cup {Other} \cup {Shoot, Jump} \cup {Extend, Break}
  BY DEF Codes
<1>4. CASE window = 0
  BY <1>1, <1>2, <1>4, ClkDecodes DEF OrderStands
<1>5. CASE window = WindowClks
  <2>1. Inert /\ UNCHANGED slotVars
    BY <1>1, <1>2, <1>5, InertStep DEF Settling
  <2>2. Press # "insert" /\ (Press = "remove" => Removed = {})
    BY <1>2, <1>5, <2>1 DEF OrderStands, Inert
  <2>3. window' = WindowClks - 1
    BY <1>1, <1>5
  <2>4. Press' = "insert" => Data' = Byte_2 /\ Byte_2 \in Keys /\ Byte_1 # Break
    BY <1>3, <1>5, <2>2, ClkDecodes
  <2>5. Press' = "remove" => \/ Byte_1 = Break /\ keyReleased' = Byte_2
                             \/ Press = "remove" /\ keyReleased' = keyReleased
    BY <1>3, <1>5, ClkDecodes
  <2>6. keyReleased' = keyReleased => Removed' = Removed
    BY <2>1 DEF slotVars, Removed
  <2>. QED BY <1>1, <2>2, <2>3, <2>4, <2>5, <2>6 DEF OrderStands
<1>6. CASE window \in 1..WindowClks - 1
  <2>1. Decided /\ window' # WindowClks - 1
    BY <1>1, <1>2, <1>6 DEF Settling
  <2>2. Press = "insert" => Byte_2 \in Keys /\ Byte_1 # Break
    BY <1>2 DEF OrderStands
  <2>3. Press' # "insert"
    BY <1>3, <1>6, <2>1, <2>2, ClkDecodes, Distinct DEF Decided
  <2>. QED BY <2>1, <2>3 DEF OrderStands
<1>. QED BY <1>1, <1>4, <1>5, <1>6

\* The flags and the key whose repeats are ignored follow the player, but for
\* the code under way.
LEMMA ClkFlags ==
  ASSUME SessionInv, Clk, UNCHANGED <<userVars, wire>>
  PROVE  FlagsOK' /\ TypematicOK'
<1>. USE WidthAssumption
<1>1. /\ window \in 0..WindowClks /\ UNCHANGED <<Byte_1, Byte_2, wire, down, fire, jump>>
      /\ window' = IF window > 0 THEN window - 1 ELSE 0
  BY DEF SessionInv, KeyboardOK, IInv, Healed, WidthOK, Clk, userVars
<1>2. /\ FlagsOK /\ TypematicOK /\ EventOK /\ CodesOK /\ Settling
      /\ None \notin Keys \cup {Shoot, Jump}
  BY Distinct DEF SessionInv, SessionOK, KeyboardOK, Codes
<1>3. Byte_2 \in Codes => Byte_2 \in Keys \cup {Other} \cup {Shoot, Jump} \cup {Extend, Break}
  BY DEF Codes
<1>4. /\ wire = <<>> /\ window = WindowClks - 1 => Underway = Byte_2 /\ Underway' = None
      /\ ~(wire = <<>> /\ window = WindowClks - 1) => Underway' = Underway
  BY ClkCodes
<1>5. CASE window = 0 \/ wire # <<>>
  <2>1. UNCHANGED <<Typematic, Shooting, Jumping>>
    BY <1>1, <1>2, <1>5, ClkDecodes DEF CodesOK
  <2>2. Underway' = Underway
    BY <1>4, <1>5
  <2>. QED BY <1>1, <1>2, <2>1, <2>2 DEF FlagsOK, TypematicOK, Contains
<1>6. CASE window > 0 /\ wire = <<>>
  <2>1. /\ LastCode = Byte_2 /\ (ComesUp <=> Byte_1 = Break)
        /\ Byte_2 \notin {Extend, Break}
        /\ Byte_2 \in Codes
        /\ Underway \in {None, Byte_2} /\ Underway' \in {None, Byte_2}
        /\ window = WindowClks => Underway' = Byte_2
        /\ window < WindowClks => Underway' = None
    <3>1. LastCode = Byte_2 /\ (ComesUp <=> Byte_1 = Break)
      BY <1>6 DEF LastCode, ComesUp
    <3>2. Byte_2 \notin {Extend, Break} /\ Byte_2 \in Codes
      BY <1>2, <1>6, ClkDecodes DEF CodesOK
    <3>3. Underway = IF window < WindowClks - 1 THEN None ELSE Byte_2
      BY <1>6, <3>1 DEF Underway
    <3>. QED BY <1>1, <1>4, <1>6, <3>1, <3>2, <3>3
  <2>2. FlagsOK'
    <3>1. CASE Byte_2 \in {Shoot, Jump}
      <4>1. /\ Byte_2 = Shoot => Jumping' = Jumping /\ (Shooting' <=> Byte_1 # Break)
            /\ Byte_2 = Jump => Shooting' = Shooting /\ (Jumping' <=> Byte_1 # Break)
        BY <1>6, <3>1, ClkDecodes
      <4>2. Shoot # Jump /\ None \notin {Shoot, Jump}
        BY <1>2, Distinct
      <4>3. CASE Byte_2 = Shoot
        <5>1. (Shooting' <=> fire') /\ Jumping' = Jumping /\ (Jumping <=> jump)
          BY <1>1, <1>2, <2>1, <4>1, <4>2, <4>3 DEF EventOK, FlagsOK
        <5>. QED BY <1>1, <5>1 DEF FlagsOK
      <4>4. CASE Byte_2 = Jump
        <5>1. (Jumping' <=> jump') /\ Shooting' = Shooting /\ (Shooting <=> fire)
          BY <1>1, <1>2, <2>1, <4>1, <4>2, <4>4 DEF EventOK, FlagsOK
        <5>. QED BY <1>1, <5>1 DEF FlagsOK
      <4>. QED BY <3>1, <4>3, <4>4
    <3>2. CASE Byte_2 \notin {Shoot, Jump}
      <4>1. UNCHANGED <<Shooting, Jumping>>
        BY <1>3, <1>6, <2>1, <3>2, ClkDecodes
      <4>2. (Shooting <=> fire) /\ (Jumping <=> jump)
        BY <1>2, <2>1, <3>2 DEF FlagsOK
      <4>. QED BY <1>1, <4>1, <4>2 DEF FlagsOK
    <3>. QED BY <3>1, <3>2
  <2>3. TypematicOK'
    <3>. SUFFICES ASSUME Typematic' \in Keys, ~Contains(down, Typematic')
                  PROVE  Typematic' = Underway'
      BY <1>1 DEF TypematicOK, Contains
    <3>1. CASE Byte_2 \in Keys /\ Byte_1 # Break
      <4>1. Typematic' = Byte_2
        BY <1>6, <3>1, ClkDecodes
      <4>. QED BY <1>2, <2>1, <3>1, <4>1 DEF EventOK
    <3>2. CASE Byte_2 \in Keys \cup {Other} /\ Byte_1 = Break
      <4>1. Typematic' = IF keyReleased = Typematic THEN None ELSE Typematic
        BY <1>6, <3>2, ClkDecodes
      <4>2. Typematic' = Typematic /\ keyReleased # Typematic /\ Typematic = Underway
        BY <1>2, <4>1 DEF TypematicOK
      <4>3. Typematic = Byte_2
        BY <1>2, <2>1, <4>2
      <4>4. window = WindowClks
        <5>. SUFFICES ASSUME window # WindowClks PROVE FALSE
          OBVIOUS
        <5>1. Decided
          BY <1>1, <1>2, <1>6 DEF Settling
        <5>2. keyReleased = Byte_2
          BY <2>1, <3>2, <5>1, Distinct DEF Decided
        <5>. QED BY <4>2, <4>3, <5>2
      <4>. QED BY <2>1, <4>2, <4>3, <4>4
    <3>3. CASE Byte_2 \in {Shoot, Jump} \/ (Byte_2 = Other /\ Byte_1 # Break)
      <4>1. Typematic' = Typematic
        BY <1>6, <3>3, ClkDecodes
      <4>2. Typematic = Byte_2
        BY <1>2, <2>1, <4>1 DEF TypematicOK
      <4>. QED BY <3>3, <4>1, <4>2, Distinct
    <3>. QED BY <1>3, <2>1, <3>1, <3>2, <3>3
  <2>. QED BY <2>2, <2>3
<1>. QED BY <1>1, <1>5, <1>6

\* What a clock does to the list: on the window's second clock the letter key
\* in Byte_2 joins or leaves it.
LEMMA ClkList ==
  ASSUME SessionInv, Clk, RankedList'
  PROVE  \/ /\ HeldList' = HeldList
            /\ window = WindowClks - 1 =>
                 /\ Press = "insert" => Contains(HeldList, Byte_2)
                 /\ Press = "remove" => Removed = {}
         \/ /\ window = WindowClks - 1 /\ Byte_1 # Break /\ Byte_2 \in Keys
            /\ ~Contains(HeldList, Byte_2) /\ HeldList' = Append(HeldList, Byte_2)
         \/ /\ window = WindowClks - 1 /\ Byte_1 = Break /\ Byte_2 \in Keys
            /\ \E i \in DOMAIN HeldList :
                 HeldList[i] = Byte_2 /\ HeldList' = RemoveAt(HeldList, i)
<1>. USE WidthAssumption
<1>1. /\ IInv /\ Healed /\ RankedList /\ Settling /\ OrderStands /\ UpdateSlots
      /\ window \in 0..WindowClks
  BY DEF SessionInv, SessionOK, KeyboardOK, IInv, Healed, WidthOK, Clk
<1>2. CASE window # WindowClks - 1
  <2>1. Inert
    BY <1>1, <1>2 DEF Settling
  <2>. QED BY <1>1, <1>2, <2>1, InertStep, SameList
<1>3. CASE window = WindowClks - 1 /\ Press = "insert"
  <2>1. Data = Byte_2 /\ Byte_2 \in Keys /\ Byte_1 # Break /\ Insert
    BY <1>1, <1>3 DEF OrderStands, UpdateSlots
  <2>2. List!Press(Data) \/ (HeldList' = HeldList /\ Contains(HeldList, Data))
    BY <1>1, <1>3, <2>1, InsertAppends
  <2>3. List!Press(Data) => ~Contains(HeldList, Data) /\ HeldList' = Append(HeldList, Data)
    BY DEF List!Press, List!Contains, Contains, HeldList
  <2>. QED BY <1>3, <2>1, <2>2, <2>3
<1>4. CASE window = WindowClks - 1 /\ Press = "remove"
  <2>1. (Byte_1 = Break /\ keyReleased = Byte_2) \/ Removed = {}
    BY <1>1, <1>4 DEF OrderStands
  <2>2. \/ Removed # {} /\ List!Release(keyReleased)
        \/ Removed = {} /\ HeldList' = HeldList
    BY <1>1, <1>4, RemoveReleases DEF UpdateSlots
  <2>3. List!Release(keyReleased) => \E i \in DOMAIN HeldList :
          HeldList[i] = keyReleased /\ HeldList' = RemoveAt(HeldList, i)
    BY DEF List!Release, List!RemoveAt, RemoveAt, HeldList
  <2>4. Removed # {} => keyReleased \in Keys
    BY <1>1, <1>4 DEF Removed, Healed, WidthOK, OrdersValid
  <2>. QED BY <1>4, <2>1, <2>2, <2>3, <2>4
<1>5. CASE window = WindowClks - 1 /\ Press = "nothing"
  BY <1>1, <1>5, SameList DEF UpdateSlots
<1>. QED BY <1>1, <1>2, <1>3, <1>4, <1>5 DEF Healed, WidthOK

\* A clock keeps the list true to the player's keys: when the slots follow the
\* decoder, the key that goes down joins the list behind the others, and only
\* a key that has come up leaves it.
LEMMA ClkKeys ==
  ASSUME SessionInv, Clk, UNCHANGED <<userVars, wire>>, RankedList'
  PROVE  ListOK' /\ NewestOK'
<1>. USE WidthAssumption
<1>1. /\ window \in 0..WindowClks /\ UNCHANGED <<Byte_1, Byte_2, wire, down, fresh>>
      /\ window' = IF window > 0 THEN window - 1 ELSE 0
  BY DEF SessionInv, KeyboardOK, IInv, Healed, WidthOK, Clk, userVars
<1>2. /\ UserOK /\ CodesOK /\ OrderStands /\ EventOK /\ ListOK /\ NewestOK
      /\ Healed /\ RankedList /\ Settling
      /\ None \notin Keys /\ fresh \subseteq Keys
      /\ HeldList \in Seq(Keys) /\ down \in Seq(Keys)
  BY Distinct DEF SessionInv, SessionOK, KeyboardOK, Codes, UserOK, RankedList, IInv
<1>3. /\ wire = <<>> /\ window = WindowClks - 1 => Underway = Byte_2 /\ Underway' = None
      /\ ~(wire = <<>> /\ window = WindowClks - 1) => Underway' = Underway
  BY ClkCodes
<1>4. wire # <<>> /\ window > 0 => Byte_2 \in {Extend, Break} /\ Byte_2 \notin Keys
  BY <1>2, Distinct DEF CodesOK
<1>5. CASE ~(wire = <<>> /\ window = WindowClks - 1)
  <2>1. HeldList' = HeldList
    BY <1>1, <1>4, <1>5, ClkList
  <2>2. Underway' = Underway
    BY <1>3, <1>5
  <2>3. ListOK'
    BY <1>1, <1>2, <2>1, <2>2 DEF ListOK, Contains, Before
  <2>4. ASSUME NEW k \in fresh, ~Contains(HeldList, k)
        PROVE  /\ wire # <<>> \/ window' = WindowClks => Typematic' # k
               /\ wire = <<>> /\ window' = WindowClks - 1 => Press' = "insert" /\ Data' = k
    <3>1. k = Underway /\ Contains(down, k) /\ k \in Keys
      BY <1>2, <2>4 DEF ListOK
    <3>2. window' # WindowClks
      BY <1>1
    <3>3. ASSUME wire # <<>> PROVE Typematic' # k
      <4>1. Typematic' = Typematic
        BY <1>1, <1>4, <3>3, ClkDecodes
      <4>. QED BY <1>2, <2>4, <3>3, <4>1 DEF NewestOK
    <3>4. ASSUME wire = <<>>, window' = WindowClks - 1
          PROVE  Press' = "insert" /\ Data' = k
      <4>1. window = WindowClks /\ window > 0
        BY <1>1, <3>4
      <4>2. LastCode = Byte_2 /\ Underway = Byte_2 /\ (ComesUp <=> Byte_1 = Break)
        BY <3>4, <4>1 DEF LastCode, Underway, ComesUp
      <4>3. Byte_2 = k /\ Byte_1 # Break
        BY <1>2, <3>1, <4>2 DEF EventOK
      <4>4. Typematic # k
        BY <1>2, <2>4, <4>1 DEF NewestOK
      <4>. QED BY <3>1, <4>1, <4>3, <4>4, ClkDecodes
    <3>. QED BY <3>2, <3>3, <3>4
  <2>5. NewestOK'
    <3>1. \A k \in fresh : ~Contains(HeldList, k) =>
            \A l \in fresh \ {k} : Before(down, l, k) /\ ~Before(down, k, l)
      BY <1>2 DEF NewestOK
    <3>2. \A k \in fresh' : ~Contains(HeldList', k) =>
            /\ wire' # <<>> \/ window' = WindowClks => Typematic' # k
            /\ wire' = <<>> /\ window' = WindowClks - 1 => Press' = "insert" /\ Data' = k
            /\ \A l \in fresh' \ {k} : Before(down', l, k) /\ ~Before(down', k, l)
      BY <1>1, <2>1, <2>4, <3>1
    <3>. QED BY <3>2 DEF NewestOK, Contains, Before
  <2>. QED BY <2>3, <2>5
<1>6. CASE wire = <<>> /\ window = WindowClks - 1
  <2>1. /\ Underway = Byte_2 /\ Underway' = None /\ LastCode = Byte_2
        /\ ComesUp <=> Byte_1 = Break
    BY <1>3, <1>6 DEF LastCode, ComesUp
  <2>2. Byte_2 \in Keys => (Byte_1 = Break <=> ~Contains(down, Byte_2))
    BY <1>2, <2>1 DEF EventOK
  <2>3. /\ \A k \in Keys : Contains(HeldList, k) => Contains(down, k) \/ k = Byte_2
        /\ \A k \in fresh : Contains(down, k) /\ (Contains(HeldList, k) \/ k = Byte_2)
        /\ \A k, l \in fresh : Contains(HeldList, k) /\ Contains(HeldList, l) =>
             (Before(HeldList, k, l) <=> Before(down, k, l))
    BY <1>2, <2>1 DEF ListOK
  <2>4. /\ \A k \in Keys : Contains(HeldList', k) => Contains(down, k)
        /\ \A k \in fresh : Contains(HeldList', k)
        /\ \A k, l \in fresh : Before(HeldList', k, l) <=> Before(down, k, l)
    <3>1. CASE /\ HeldList' = HeldList
               /\ Press = "insert" => Contains(HeldList, Byte_2)
               /\ Press = "remove" => Removed = {}
      <4>1. ASSUME NEW k \in Keys, Contains(HeldList, k)
            PROVE  Contains(down, k)
        <5>. SUFFICES ASSUME ~Contains(down, k) PROVE FALSE
          OBVIOUS
        <5>1. k = Byte_2 /\ Byte_1 = Break
          BY <2>2, <2>3, <4>1
        <5>2. Decided
          BY <1>2, <1>6 DEF Settling
        <5>3. Press = "remove" /\ keyReleased = k
          BY <5>1, <5>2, Distinct DEF Decided
        <5>4. PICK p \in 1..keyCounter : HeldList[p] = k
          BY <1>2, <4>1 DEF Contains, RankedList
        <5>5. PICK i \in Held : keyPriority[i] = p
          BY <1>2 DEF RankedList
        <5>6. i \in Slots /\ keyCode[i] = k
          BY <1>2, <5>4, <5>5 DEF RankedList, Held
        <5>. QED BY <3>1, <5>3, <5>6 DEF Removed
      <4>2. ASSUME NEW k \in fresh
            PROVE  Contains(HeldList, k)
        <5>. SUFFICES ASSUME ~Contains(HeldList, k) PROVE FALSE
          OBVIOUS
        <5>1. k = Byte_2 /\ Press = "insert"
          BY <1>2, <1>6, <2>3 DEF NewestOK
        <5>. QED BY <3>1, <5>1
      <4>. QED BY <2>3, <3>1, <4>1, <4>2
    <3>2. CASE /\ Byte_1 # Break /\ Byte_2 \in Keys
               /\ ~Contains(HeldList, Byte_2) /\ HeldList' = Append(HeldList, Byte_2)
      <4>1. /\ \A k : Contains(HeldList', k) <=> Contains(HeldList, k) \/ k = Byte_2
            /\ \A k, l : Before(HeldList', k, l) <=>
                 Before(HeldList, k, l) \/ (Contains(HeldList, k) /\ l = Byte_2)
        BY <1>2, <3>2, AppendBefore
      <4>2. Contains(down, Byte_2)
        BY <2>2, <3>2
      <4>3. ASSUME NEW k \in fresh, NEW l \in fresh
            PROVE  Before(HeldList', k, l) <=> Before(down, k, l)
        <5>1. CASE k # Byte_2 /\ l # Byte_2
          BY <2>3, <4>1, <5>1
        <5>2. CASE k # Byte_2 /\ l = Byte_2
          <6>1. Before(down, k, l)
            BY <1>2, <3>2, <5>2 DEF NewestOK
          <6>. QED BY <2>3, <4>1, <5>2, <6>1
        <5>3. CASE k = Byte_2 /\ l # Byte_2
          <6>1. ~Before(down, k, l)
            BY <1>2, <3>2, <5>3 DEF NewestOK
          <6>2. ~Before(HeldList, k, l)
            BY <1>2, <3>2, <5>3, BeforeContains
          <6>. QED BY <4>1, <5>3, <6>1, <6>2
        <5>4. CASE k = Byte_2 /\ l = Byte_2
          <6>1. ~Before(down, k, l)
            BY <1>2, <3>2, <5>4 DEF UserOK
          <6>2. ~Before(HeldList, k, l)
            BY <1>2, <3>2, <5>4, BeforeContains
          <6>. QED BY <3>2, <4>1, <5>4, <6>1, <6>2
        <5>. QED BY <5>1, <5>2, <5>3, <5>4
      <4>. QED BY <2>3, <4>1, <4>2, <4>3
    <3>3. CASE /\ Byte_1 = Break /\ Byte_2 \in Keys
               /\ \E i \in DOMAIN HeldList :
                    HeldList[i] = Byte_2 /\ HeldList' = RemoveAt(HeldList, i)
      <4>1. PICK i \in DOMAIN HeldList :
                    HeldList[i] = Byte_2 /\ HeldList' = RemoveAt(HeldList, i)
        BY <3>3
      <4>2. \A k \in Keys : ~Before(HeldList, k, k)
        BY <1>2, ListDistinct
      <4>3. /\ \A k \in Keys : Contains(HeldList', k) <=> Contains(HeldList, k) /\ k # Byte_2
            /\ \A k, l \in Keys : Before(HeldList', k, l) <=>
                 Before(HeldList, k, l) /\ k # Byte_2 /\ l # Byte_2
        BY <1>2, <4>1, <4>2, RemoveBefore
      <4>4. Byte_2 \notin fresh
        BY <2>2, <2>3, <3>3
      <4>. QED BY <1>2, <2>3, <4>3, <4>4
    <3>. QED BY <1>6, <3>1, <3>2, <3>3, ClkList
  <2>5. ListOK'
    <3>1. /\ \A k \in Keys : Contains(HeldList', k) => Contains(down', k) \/ k = Underway'
          /\ \A k \in fresh' :
               Contains(down', k) /\ (Contains(HeldList', k) \/ k = Underway')
          /\ \A k, l \in fresh' : Contains(HeldList', k) /\ Contains(HeldList', l) =>
               (Before(HeldList', k, l) <=> Before(down', k, l))
      BY <1>1, <2>3, <2>4
    <3>. QED BY <3>1 DEF ListOK, Contains, Before
  <2>6. NewestOK'
    BY <1>1, <2>4 DEF NewestOK, Contains
  <2>. QED BY <2>5, <2>6
<1>. QED BY <1>5, <1>6

-----------------------------------------------------------------------------
(* The session's other steps. *)

\* The slots and the decoder keep their invariants in a session.
LEMMA KeyboardStep ==
  ASSUME SessionInv, [SessionNext]_allVars
  PROVE  KeyboardOK'
<1>1. Keys \cup {Shoot, Jump} \subseteq Codes
  BY DEF Codes
<1>2. [Next]_vars
  <2>1. CASE Send
    <3>1. Head(wire) \in Codes
      BY <2>1 DEF Send, SessionInv, SessionOK, CodesOK
    <3>. QED BY <2>1, <3>1 DEF Send, Next
  <2>2. CASE ClkStep
    BY <2>2 DEF ClkStep, Next
  <2>3. CASE ResetSwitch
    BY <2>3 DEF ResetSwitch, Next
  <2>4. CASE UNCHANGED vars
    BY <2>4
  <2>. QED BY <2>1, <2>2, <2>3, <2>4 DEF SessionNext, PressLetter, ReleaseLetter,
           PressFire, ReleaseFire, OtherKey, RepeatKey, allVars
<1>3. IInv' /\ Settling'
  BY <1>2, StepOK, SettlingStep DEF SessionInv, KeyboardOK
<1>4. (Healed => RankedList)'
  BY AtRank, PTL
<1>. QED BY <1>3, <1>4 DEF KeyboardOK, IInv

\* The steps, one by one.
LEMMA ClkStepOK ==
  ASSUME SessionInv, ClkStep, KeyboardOK'
  PROVE  SessionOK'
BY ClkCodes, ClkOrders, ClkFlags, ClkKeys DEF ClkStep, KeyboardOK, SessionOK

\* Nothing that the properties speak of changes when a code is sent: it was
\* under way on the wire and is under way in the decoder.
LEMMA SendOK ==
  ASSUME SessionInv, Send
  PROVE  SessionOK'
<1>. USE WidthAssumption
<1>. DEFINE n == Len(wire)
<1>1. /\ UserOK /\ CodesOK /\ OrderStands /\ EventOK /\ FlagsOK /\ TypematicOK
      /\ ListOK /\ NewestOK
  BY DEF SessionInv, SessionOK
<1>2. /\ wire \in Seq(Codes) /\ wire # <<>> /\ n \in Nat \ {0}
      /\ wire' \in Seq(Codes) /\ Len(wire') = n - 1
      /\ \A i \in 1..n - 1 : wire'[i] = wire[i + 1]
      /\ wire' = <<>> <=> n = 1
  <2>1. wire \in Seq(Codes) /\ wire # <<>> /\ n \in Nat \ {0} /\ wire' = Tail(wire)
    BY <1>1 DEF Send, CodesOK
  <2>2. /\ wire' \in Seq(Codes) /\ Len(wire') = n - 1
        /\ \A i \in 1..n - 1 : wire'[i] = wire[i + 1]
    BY <2>1
  <2>3. wire' = <<>> <=> n = 1
    <3>1. n = 1 => Len(wire') = 0
      BY <2>1, <2>2
    <3>2. wire' # <<>> => Len(wire') # 0
      BY <2>2, EmptySeq
    <3>3. wire' = <<>> => Len(wire') = 0
      OBVIOUS
    <3>4. Len(wire') = 0 => n = 1
      BY <2>1, <2>2
    <3>. QED BY <3>1, <3>2, <3>3, <3>4
  <2>. QED BY <2>1, <2>2, <2>3
<1>3. /\ window = 0 /\ window' = WindowClks /\ Byte_1' = Byte_2 /\ Byte_2' = wire[1]
      /\ UNCHANGED <<decoderVars, slotVars, userVars>>
  BY <1>2 DEF Send, Packet
<1>4. /\ UNCHANGED <<Press, Data, keyReleased, Typematic, Shooting, Jumping>>
      /\ UNCHANGED <<down, fresh, repeating, fire, jump>>
      /\ HeldList' = HeldList
  BY <1>3, SameList DEF decoderVars, userVars
<1>5. \A i \in 1..n : wire[i] \in {Break, Extend} <=> i < n
  BY <1>1 DEF CodesOK
<1>. HIDE DEF n
<1>6. LastCode' = LastCode
  <2>1. LastCode = wire[n]
    BY <1>2 DEF LastCode, n
  <2>2. CASE n = 1
    BY <1>2, <1>3, <2>1, <2>2 DEF LastCode
  <2>3. CASE n > 1
    <3>1. wire'[n - 1] = wire[n]
      BY <1>2, <2>3
    <3>. QED BY <1>2, <2>1, <2>3, <3>1 DEF LastCode
  <2>. QED BY <1>2, <2>2, <2>3
<1>7. ComesUp' <=> ComesUp
  <2>1. CASE n = 1
    BY <1>2, <1>3, <2>1 DEF ComesUp, n
  <2>2. CASE n = 2
    <3>1. Len(wire) = 2 /\ wire # <<>> /\ Len(wire') = 1 /\ wire' # <<>>
      BY <1>2, <2>2 DEF n
    <3>2. ComesUp <=> wire[1] = Break
      BY <3>1 DEF ComesUp
    <3>3. ComesUp' <=> Byte_2' = Break
      BY <3>1 DEF ComesUp
    <3>. QED BY <1>3, <3>2, <3>3
  <2>3. CASE n > 2
    <3>1. wire'[n - 1 - 1] = wire[n - 1]
      BY <1>2, <2>3
    <3>. QED BY <1>2, <2>3, <3>1 DEF ComesUp, n
  <2>. QED BY <1>2, <2>1, <2>2, <2>3
<1>8. Underway' = Underway
  BY <1>2, <1>3, <1>6 DEF Underway
<1>9. UserOK'
  BY <1>1, <1>4 DEF UserOK, Before, Contains
<1>10. CodesOK'
  <2>1. \A i \in 1..n - 1 : wire'[i] \in {Break, Extend} <=> i < n - 1
    <3>. SUFFICES ASSUME NEW i \in 1..n - 1
                  PROVE  wire'[i] \in {Break, Extend} <=> i < n - 1
      OBVIOUS
    <3>1. i + 1 \in 1..n /\ (i + 1 < n <=> i < n - 1)
      BY <1>2
    <3>2. wire[i + 1] \in {Break, Extend} <=> i + 1 < n
      BY <1>5, <3>1
    <3>. QED BY <1>2, <3>1, <3>2
  <2>2. IF n = 1 THEN Byte_2' \notin {Break, Extend} ELSE Byte_2' \in {Break, Extend}
    BY <1>2, <1>3, <1>5
  <2>. QED BY <1>2, <2>1, <2>2 DEF CodesOK
<1>11. OrderStands'
  BY <1>1, <1>3, <1>4 DEF OrderStands
<1>12. EventOK'
  BY <1>1, <1>4, <1>6, <1>7 DEF EventOK, Contains
<1>13. FlagsOK' /\ TypematicOK'
  BY <1>1, <1>4, <1>8 DEF FlagsOK, TypematicOK, Contains
<1>14. ListOK'
  BY <1>1, <1>4, <1>8 DEF ListOK, Contains, Before
<1>15. NewestOK'
  BY <1>1, <1>2, <1>3, <1>4 DEF NewestOK, Contains, Before
<1>. QED BY <1>9, <1>10, <1>11, <1>12, <1>13, <1>14, <1>15 DEF SessionOK

\* At rest of the wire nothing is under way: the list is the player's keys.
LEMMA AtRest ==
  ASSUME SessionInv, wire = <<>>, window = 0
  PROVE  /\ \A k \in Keys : Contains(HeldList, k) => Contains(down, k)
         /\ \A k \in fresh : Contains(HeldList, k) /\ Contains(down, k)
         /\ \A k, l \in fresh : Before(HeldList, k, l) <=> Before(down, k, l)
         /\ Typematic \in Keys => Contains(down, Typematic)
         /\ Shooting <=> fire
         /\ Jumping <=> jump
         /\ Byte_2 \notin {Break, Extend}
<1>1. Underway = None /\ None \notin Keys \cup {Shoot, Jump}
  BY WidthAssumption, Distinct DEF Underway, Codes
<1>. QED BY <1>1 DEF SessionInv, SessionOK, UserOK, ListOK, TypematicOK, FlagsOK, CodesOK

\* An event begins: its last code is under way.
LEMMA Begins ==
  ASSUME SessionInv, UNCHANGED vars, NEW codes, Enqueue(codes),
         NEW c \in Codes \ {Break, Extend}
  PROVE  /\ codes \in {<<c>>, <<Extend, c>>} =>
              CodesOK' /\ LastCode' = c /\ Underway' = c /\ wire' # <<>> /\ ~ComesUp'
         /\ codes \in {<<Break, c>>, <<Extend, Break, c>>} =>
              CodesOK' /\ LastCode' = c /\ Underway' = c /\ wire' # <<>> /\ ComesUp'
<1>1. /\ wire = <<>> /\ window = 0 /\ window' = 0 /\ Byte_2' = Byte_2 /\ wire' = codes
      /\ Byte_2 \notin {Break, Extend} /\ Break # Extend
      /\ Break \in Codes /\ Extend \in Codes
  BY AtRest, Distinct DEF Enqueue, vars, Codes
<1>2. CASE codes = <<c>>
  <2>1. Len(codes) = 1 /\ codes[1] = c /\ codes \in Seq(Codes) /\ codes # <<>>
    BY <1>2
  <2>2. CodesOK'
    BY <1>1, <2>1 DEF CodesOK
  <2>. QED BY <1>1, <1>2, <2>1, <2>2 DEF LastCode, Underway, ComesUp
<1>3. ASSUME NEW d \in {Break, Extend}, codes = <<d, c>>
      PROVE  /\ CodesOK' /\ LastCode' = c /\ Underway' = c /\ wire' # <<>>
             /\ ComesUp' <=> d = Break
  <2>1. /\ Len(codes) = 2 /\ codes[1] = d /\ codes[2] = c
        /\ codes \in Seq(Codes) /\ codes # <<>>
    BY <1>1, <1>3
  <2>2. CodesOK'
    BY <1>1, <2>1 DEF CodesOK
  <2>. QED BY <1>1, <2>1, <2>2 DEF LastCode, Underway, ComesUp
<1>4. CASE codes = <<Extend, Break, c>>
  <2>1. /\ Len(codes) = 3 /\ codes[1] = Extend /\ codes[2] = Break /\ codes[3] = c
        /\ codes \in Seq(Codes) /\ codes # <<>>
    BY <1>1, <1>4
  <2>2. CodesOK'
    BY <1>1, <2>1 DEF CodesOK
  <2>. QED BY <1>1, <1>4, <2>1, <2>2 DEF LastCode, Underway, ComesUp
<1>5. <<c>> \notin {<<Break, c>>, <<Extend, Break, c>>}
  <2>1. Len(<<c>>) = 1 /\ Len(<<Break, c>>) = 2 /\ Len(<<Extend, Break, c>>) = 3
    OBVIOUS
  <2>. QED BY <2>1
<1>6. <<Extend, c>> \notin {<<Break, c>>, <<Extend, Break, c>>}
  <2>1. /\ Len(<<Extend, c>>) = 2 /\ Len(<<Extend, Break, c>>) = 3
        /\ <<Extend, c>>[1] = Extend /\ <<Break, c>>[1] = Break
    OBVIOUS
  <2>. QED BY <1>1, <2>1
<1>. QED BY <1>1, <1>2, <1>3, <1>4, <1>5, <1>6

\* What an event about a key that is not a letter leaves alone.
LEMMA LettersAlone ==
  ASSUME SessionInv, wire = <<>>, window = 0, UNCHANGED <<vars, down, fresh>>
  PROVE  /\ OrderStands' /\ TypematicOK' /\ ListOK' /\ NewestOK'
         /\ \A k : Contains(down, k)' <=> Contains(down, k)
<1>1. /\ UNCHANGED <<Byte_1, Byte_2, window, Press, Data, keyReleased, Typematic, keyCode>>
      /\ HeldList' = HeldList /\ down' = down /\ fresh' = fresh
  BY SameList DEF vars, decoderVars, slotVars
<1>2. fresh \subseteq Keys
  BY DEF SessionInv, SessionOK, UserOK
<1>3. OrderStands'
  BY <1>1 DEF SessionInv, SessionOK, OrderStands, Removed
<1>4. TypematicOK'
  BY <1>1, AtRest DEF TypematicOK, Contains
<1>5. ListOK'
  <2>1. /\ \A k \in Keys : Contains(HeldList', k) => Contains(down', k)
        /\ \A k \in fresh' : Contains(down', k) /\ Contains(HeldList', k)
        /\ \A k, l \in fresh' : Before(HeldList', k, l) <=> Before(down', k, l)
    BY <1>1, AtRest
  <2>. QED BY <2>1 DEF ListOK, Contains, Before
<1>6. NewestOK'
  BY <1>1, AtRest DEF NewestOK, Contains
<1>. QED BY <1>1, <1>3, <1>4, <1>5, <1>6 DEF Contains

LEMMA PressLetterOK ==
  ASSUME SessionInv, NEW k \in Keys, PressLetter(k)
  PROVE  SessionOK'
<1>1. /\ wire = <<>> /\ window = 0 /\ Enqueue(<<k>>) /\ UNCHANGED vars
      /\ ~Contains(down, k) /\ down' = Append(down, k)
      /\ fresh' = fresh \cup {k} /\ repeating' = k /\ UNCHANGED <<fire, jump>>
  BY DEF PressLetter, Enqueue
<1>2. UserOK /\ OrderStands /\ fresh \subseteq Keys /\ down \in Seq(Keys)
  BY DEF SessionInv, SessionOK, UserOK
<1>3. k \in Codes \ {Break, Extend} /\ k \notin {Shoot, Jump, None}
  BY Distinct DEF Codes
<1>4. CodesOK' /\ LastCode' = k /\ Underway' = k /\ wire' # <<>> /\ ~ComesUp'
  BY <1>1, <1>3, Begins
<1>5. /\ UNCHANGED <<Byte_1, Byte_2, window, Press, Data, keyReleased, keyCode>>
      /\ UNCHANGED <<Typematic, Shooting, Jumping>> /\ HeldList' = HeldList
  BY <1>1, SameList DEF vars, decoderVars, slotVars
<1>6. /\ down' \in Seq(Keys)
      /\ \A l : Contains(down', l) <=> Contains(down, l) \/ l = k
      /\ \A l, m : Before(down', l, m) <=> Before(down, l, m) \/ (Contains(down, l) /\ m = k)
  BY <1>1, <1>2, AppendBefore
<1>7. UserOK'
  BY <1>1, <1>2, <1>3, <1>6 DEF UserOK, Contains, Before
<1>8. OrderStands'
  BY <1>2, <1>5 DEF OrderStands, Removed
<1>9. EventOK'
  BY <1>3, <1>4, <1>6 DEF EventOK, Contains
<1>10. FlagsOK'
  BY <1>1, <1>5, AtRest DEF FlagsOK
<1>11. TypematicOK'
  <2>1. Typematic \in Keys => Contains(down', Typematic)
    BY <1>1, <1>6, AtRest
  <2>. QED BY <1>5, <2>1 DEF TypematicOK, Contains
<1>12. ~Contains(HeldList, k) /\ k \notin fresh
  BY <1>1, AtRest
<1>13. ListOK'
  <2>1. \A l \in Keys : Contains(HeldList, l) => Contains(down', l)
    BY <1>1, <1>6, AtRest
  <2>2. \A l \in fresh \cup {k} : Contains(down', l) /\ (Contains(HeldList, l) \/ l = k)
    BY <1>1, <1>6, AtRest
  <2>3. \A l, m \in fresh \cup {k} : Contains(HeldList, l) /\ Contains(HeldList, m) =>
          (Before(HeldList, l, m) <=> Before(down', l, m))
    BY <1>1, <1>6, <1>12, AtRest
  <2>4. fresh' = fresh \cup {k} /\ Underway' = k /\ HeldList' = HeldList
    BY <1>1, <1>4, <1>5
  <2>5. /\ \A l \in Keys : Contains(HeldList', l) => Contains(down', l) \/ l = Underway'
        /\ \A l \in fresh' :
             Contains(down', l) /\ (Contains(HeldList', l) \/ l = Underway')
        /\ \A l, m \in fresh' : Contains(HeldList', l) /\ Contains(HeldList', m) =>
             (Before(HeldList', l, m) <=> Before(down', l, m))
    BY <2>1, <2>2, <2>3, <2>4
  <2>. QED BY <2>5 DEF ListOK, Contains, Before
<1>14. NewestOK'
  <2>1. ASSUME NEW l \in fresh \cup {k}, ~Contains(HeldList, l)
        PROVE  l = k
    BY <1>1, <2>1, AtRest
  <2>2. Typematic # k
    BY <1>1, AtRest
  <2>3. ASSUME NEW m \in (fresh \cup {k}) \ {k}
        PROVE  Before(down', m, k) /\ ~Before(down', k, m)
    <3>1. Contains(down, m) /\ m # k
      BY <1>1, <2>3, AtRest
    <3>2. ~Before(down, k, m)
      BY <1>1, <1>2, BeforeContains
    <3>. QED BY <1>6, <3>1, <3>2
  <2>. QED BY <1>1, <1>4, <1>5, <2>1, <2>2, <2>3 DEF NewestOK, Contains, Before
<1>. QED BY <1>4, <1>7, <1>8, <1>9, <1>10, <1>11, <1>13, <1>14 DEF SessionOK

LEMMA ReleaseLetterOK ==
  ASSUME SessionInv, NEW k \in Keys, ReleaseLetter(k)
  PROVE  SessionOK'
<1>1. /\ wire = <<>> /\ window = 0 /\ Enqueue(<<Break, k>>) /\ UNCHANGED vars
      /\ fresh' = fresh \ {k} /\ UNCHANGED <<fire, jump>>
      /\ repeating' = IF repeating = k THEN None ELSE repeating
  BY DEF ReleaseLetter, Enqueue
<1>2. UserOK /\ OrderStands /\ fresh \subseteq Keys /\ down \in Seq(Keys)
  BY DEF SessionInv, SessionOK, UserOK
<1>3. k \in Codes \ {Break, Extend} /\ k \notin {Shoot, Jump, None} /\ None \notin {Shoot, Jump}
  BY Distinct DEF Codes
<1>4. CodesOK' /\ LastCode' = k /\ Underway' = k /\ wire' # <<>> /\ ComesUp'
  BY <1>1, <1>3, Begins
<1>5. /\ UNCHANGED <<Byte_1, Byte_2, window, Press, Data, keyReleased, keyCode>>
      /\ UNCHANGED <<Typematic, Shooting, Jumping>> /\ HeldList' = HeldList
  BY <1>1, SameList DEF vars, decoderVars, slotVars
<1>6. PICK i \in DOMAIN down : down[i] = k /\ down' = RemoveAt(down, i)
  BY DEF ReleaseLetter
<1>7. /\ down' \in Seq(Keys)
      /\ \A l \in Keys : Contains(down', l) <=> Contains(down, l) /\ l # k
      /\ \A l, m \in Keys : Before(down', l, m) <=> Before(down, l, m) /\ l # k /\ m # k
  BY <1>2, <1>6, RemoveBefore DEF UserOK
<1>8. UserOK'
  BY <1>1, <1>2, <1>3, <1>7, Distinct DEF UserOK, Contains, Before
<1>9. OrderStands'
  BY <1>2, <1>5 DEF OrderStands, Removed
<1>10. EventOK'
  BY <1>3, <1>4, <1>7 DEF EventOK, Contains
<1>11. FlagsOK'
  BY <1>1, <1>5, AtRest DEF FlagsOK
<1>12. TypematicOK'
  <2>1. Typematic \in Keys => Contains(down', Typematic) \/ Typematic = k
    BY <1>1, <1>7, AtRest
  <2>. QED BY <1>4, <1>5, <2>1 DEF TypematicOK, Contains
<1>13. ListOK'
  <2>1. \A l \in Keys : Contains(HeldList, l) => Contains(down', l) \/ l = k
    BY <1>1, <1>7, AtRest
  <2>2. \A l \in fresh \ {k} : Contains(down', l) /\ Contains(HeldList, l)
    BY <1>1, <1>2, <1>7, AtRest
  <2>3. \A l, m \in fresh \ {k} : Before(HeldList, l, m) <=> Before(down', l, m)
    BY <1>1, <1>2, <1>7, AtRest
  <2>4. fresh' = fresh \ {k} /\ Underway' = k /\ HeldList' = HeldList
    BY <1>1, <1>4, <1>5
  <2>. QED BY <2>1, <2>2, <2>3, <2>4 DEF ListOK, Contains, Before
<1>14. NewestOK'
  <2>1. \A l \in fresh \ {k} : Contains(HeldList, l)
    BY <1>1, AtRest
  <2>. QED BY <1>1, <1>5, <2>1 DEF NewestOK, Contains
<1>. QED BY <1>4, <1>8, <1>9, <1>10, <1>11, <1>12, <1>13, <1>14 DEF SessionOK

\* The codes with an extended key's prefix.
LEMMA Prefixed ==
  ASSUME NEW c, NEW prefix \in {<<>>, <<Extend>>}
  PROVE  /\ prefix \o <<c>> \in {<<c>>, <<Extend, c>>}
         /\ prefix \o <<Break, c>> \in {<<Break, c>>, <<Extend, Break, c>>}
<1>1. <<c>> \in Seq({c, Break}) /\ <<Break, c>> \in Seq({c, Break})
  OBVIOUS
<1>2. <<>> \o <<c>> = <<c>> /\ <<>> \o <<Break, c>> = <<Break, c>>
  BY <1>1, ConcatEmptySeq
<1>3. ASSUME NEW S, NEW s \in Seq(S), NEW t \in Seq(S), Len(s) = 1
      PROVE  /\ s \o t \in Seq(S) /\ Len(s \o t) = Len(t) + 1 /\ (s \o t)[1] = s[1]
             /\ \A i \in 1..Len(t) : (s \o t)[i + 1] = t[i]
  <2>1. /\ s \o t \in Seq(S) /\ Len(s \o t) = 1 + Len(t)
        /\ \A i \in 1..1 + Len(t) :
             (s \o t)[i] = IF i <= 1 THEN s[i] ELSE t[i - 1]
    <3>1. /\ s \o t \in Seq(S) /\ Len(s \o t) = Len(s) + Len(t)
          /\ \A i \in 1..Len(s) + Len(t) :
               (s \o t)[i] = IF i <= Len(s) THEN s[i] ELSE t[i - Len(s)]
      BY ConcatProperties
    <3>. QED BY <1>3, <3>1
  <2>2. Len(t) \in Nat
    OBVIOUS
  <2>. QED BY <2>1, <2>2
<1>. DEFINE S == {c, Break, Extend}
<1>4. <<Extend>> \o <<c>> = <<Extend, c>>
  <2>. DEFINE s == <<Extend>>
              t == <<c>>
  <2>1. s \in Seq(S) /\ t \in Seq(S) /\ Len(s) = 1 /\ s[1] = Extend
        /\ Len(t) = 1 /\ t[1] = c
    OBVIOUS
  <2>. DEFINE u == <<Extend, c>>
  <2>2. u \in Seq(S) /\ Len(u) = 2 /\ u[1] = Extend /\ u[2] = c
    OBVIOUS
  <2>. HIDE DEF s, t, u, S
  <2>3. s \o t \in Seq(S) /\ Len(s \o t) = 2 /\ (s \o t)[1] = Extend /\ (s \o t)[1 + 1] = c
    BY <1>3, <2>1
  <2>4. \A i \in 1..2 : (s \o t)[i] = u[i]
    BY <2>2, <2>3
  <2>5. s \o t = u
    BY <2>2, <2>3, <2>4, SeqEqual
  <2>. QED BY <2>5 DEF s, t, u
<1>5. <<Extend>> \o <<Break, c>> = <<Extend, Break, c>>
  <2>. DEFINE s == <<Extend>>
              t == <<Break, c>>
              u == <<Extend, Break, c>>
  <2>1. s \in Seq(S) /\ t \in Seq(S) /\ Len(s) = 1 /\ s[1] = Extend
        /\ Len(t) = 2 /\ t[1] = Break /\ t[2] = c
    OBVIOUS
  <2>2. u \in Seq(S) /\ Len(u) = 3 /\ u[1] = Extend /\ u[2] = Break /\ u[3] = c
    OBVIOUS
  <2>. HIDE DEF s, t, u, S
  <2>3. /\ s \o t \in Seq(S) /\ Len(s \o t) = 3 /\ (s \o t)[1] = Extend
        /\ (s \o t)[1 + 1] = Break /\ (s \o t)[2 + 1] = c
    BY <1>3, <2>1
  <2>4. \A i \in 1..3 : (s \o t)[i] = u[i]
    BY <2>2, <2>3
  <2>5. s \o t = u
    BY <2>2, <2>3, <2>4, SeqEqual
  <2>. QED BY <2>5 DEF s, t, u
<1>. QED BY <1>2, <1>4, <1>5

LEMMA PressFireOK ==
  ASSUME SessionInv, PressFire
  PROVE  SessionOK'
<1>1. UNCHANGED <<vars, down, fresh, Shooting, Jumping>> /\ UserOK
  BY DEF PressFire, SessionInv, SessionOK, vars, decoderVars
<1>2. PICK c \in {Shoot, Jump} :
        /\ \E codes \in {<<c>>, <<Extend, c>>} : Enqueue(codes)
        /\ repeating' = c
        /\ c = Shoot => fire' = TRUE /\ jump' = jump
        /\ c = Jump => jump' = TRUE /\ fire' = fire
  BY Prefixed, Distinct DEF PressFire
<1>3. /\ c \in Codes \ {Break, Extend} /\ c \notin Keys /\ Shoot # Jump
      /\ c # None /\ wire = <<>> /\ window = 0
  BY <1>2, Distinct DEF Codes, Enqueue
<1>4. CodesOK' /\ LastCode' = c /\ Underway' = c /\ ~ComesUp'
  BY <1>1, <1>2, <1>3, Begins
<1>5. UserOK'
  <2>1. fire' \in BOOLEAN /\ jump' \in BOOLEAN
    BY <1>1, <1>2 DEF UserOK
  <2>. QED BY <1>1, <1>2, <1>3, <2>1 DEF UserOK, Contains, Before
<1>6. EventOK'
  BY <1>2, <1>3, <1>4 DEF EventOK
<1>7. FlagsOK'
  BY <1>1, <1>2, <1>3, <1>4, AtRest DEF FlagsOK
<1>. QED BY <1>1, <1>3, <1>4, <1>5, <1>6, <1>7, LettersAlone DEF SessionOK

LEMMA ReleaseFireOK ==
  ASSUME SessionInv, ReleaseFire
  PROVE  SessionOK'
<1>1. UNCHANGED <<vars, down, fresh, Shooting, Jumping>> /\ UserOK
  BY DEF ReleaseFire, SessionInv, SessionOK, vars, decoderVars
<1>2. PICK c \in {Shoot, Jump} :
        /\ \E codes \in {<<Break, c>>, <<Extend, Break, c>>} : Enqueue(codes)
        /\ repeating' = IF repeating = c THEN None ELSE repeating
        /\ c = Shoot => fire' = FALSE /\ jump' = jump
        /\ c = Jump => jump' = FALSE /\ fire' = fire
  BY Prefixed, Distinct DEF ReleaseFire
<1>3. /\ c \in Codes \ {Break, Extend} /\ c \notin Keys /\ Shoot # Jump
      /\ None \notin Keys \cup {Shoot, Jump} /\ wire = <<>> /\ window = 0
  BY <1>2, Distinct DEF Codes, Enqueue
<1>4. CodesOK' /\ LastCode' = c /\ Underway' = c /\ ComesUp'
  BY <1>1, <1>2, <1>3, Begins
<1>5. UserOK'
  <2>1. fire' \in BOOLEAN /\ jump' \in BOOLEAN
    BY <1>1, <1>2 DEF UserOK
  <2>2. /\ repeating' \in Keys \cup {Shoot, Jump, None}
        /\ repeating' \in Keys => Contains(down, repeating')
        /\ repeating' = Shoot => fire'
        /\ repeating' = Jump => jump'
    BY <1>1, <1>2, <1>3 DEF UserOK
  <2>. QED BY <1>1, <2>1, <2>2 DEF UserOK, Contains, Before
<1>6. EventOK'
  BY <1>2, <1>3, <1>4 DEF EventOK
<1>7. FlagsOK'
  BY <1>1, <1>2, <1>3, <1>4, AtRest DEF FlagsOK
<1>. QED BY <1>1, <1>3, <1>4, <1>5, <1>6, <1>7, LettersAlone DEF SessionOK

LEMMA OtherKeyOK ==
  ASSUME SessionInv, OtherKey
  PROVE  SessionOK'
<1>1. /\ UNCHANGED <<vars, down, fresh, fire, jump, Shooting, Jumping>>
      /\ repeating' = None /\ UserOK
  BY DEF OtherKey, SessionInv, SessionOK, vars, decoderVars
<1>2. PICK codes \in {<<Other>>, <<Break, Other>>} : Enqueue(codes)
  BY DEF OtherKey
<1>3. /\ Other \in Codes \ {Break, Extend} /\ Other \notin Keys \cup {Shoot, Jump}
      /\ None \notin Keys \cup {Shoot, Jump} /\ wire = <<>> /\ window = 0
  BY <1>2, Distinct DEF Codes, Enqueue
<1>4. CodesOK' /\ LastCode' = Other /\ Underway' = Other
  BY <1>1, <1>2, <1>3, Begins
<1>5. UserOK'
  BY <1>1, <1>3 DEF UserOK, Before
<1>6. EventOK'
  BY <1>3, <1>4 DEF EventOK
<1>7. FlagsOK'
  BY <1>1, <1>3, AtRest DEF FlagsOK
<1>. QED BY <1>1, <1>3, <1>4, <1>5, <1>6, <1>7, LettersAlone DEF SessionOK

LEMMA RepeatKeyOK ==
  ASSUME SessionInv, RepeatKey
  PROVE  SessionOK'
<1>1. /\ UNCHANGED <<vars, down, fresh, repeating, fire, jump, Shooting, Jumping>>
      /\ repeating # None /\ UserOK /\ Enqueue(<<repeating>>)
  BY DEF RepeatKey, SessionInv, SessionOK, vars, decoderVars, userVars
<1>2. /\ repeating \in Codes \ {Break, Extend} /\ Shoot # Jump
      /\ Shoot \notin Keys /\ Jump \notin Keys /\ wire = <<>> /\ window = 0
  BY <1>1, Distinct DEF Codes, Enqueue, UserOK
<1>3. CodesOK' /\ LastCode' = repeating /\ Underway' = repeating /\ ~ComesUp'
  BY <1>1, <1>2, Begins
<1>4. UserOK'
  BY <1>1 DEF UserOK, Contains, Before
<1>5. EventOK'
  BY <1>1, <1>2, <1>3 DEF EventOK, UserOK, Contains
<1>6. FlagsOK'
  BY <1>1, <1>2, AtRest DEF FlagsOK
<1>. QED BY <1>1, <1>2, <1>3, <1>4, <1>5, <1>6, LettersAlone DEF SessionOK

\* A reset of the block at rest empties the list and promises nothing about
\* the keys that are held.
LEMMA ResetSwitchOK ==
  ASSUME SessionInv, ResetSwitch, KeyboardOK'
  PROVE  SessionOK'
<1>1. /\ wire = <<>> /\ window = 0 /\ fresh' = {}
      /\ UNCHANGED <<down, repeating, fire, jump, wire, Typematic, Shooting, Jumping>>
      /\ Byte_2' = None /\ window' = 0 /\ Press' = "nothing" /\ keyCounter' = 0
  BY DEF ResetSwitch, Reset
<1>2. HeldList' = <<>>
  BY <1>1 DEF KeyboardOK, RankedList
<1>3. /\ LastCode' = None /\ Underway' = None
      /\ None \notin Keys \cup {Shoot, Jump, Break, Extend}
  BY <1>1, Distinct DEF LastCode, Underway, Codes
<1>4. UserOK /\ CodesOK
  BY DEF SessionInv, SessionOK
<1>5. UserOK' /\ CodesOK'
  BY <1>1, <1>3, <1>4 DEF UserOK, CodesOK, Contains, Before
<1>6. OrderStands' /\ EventOK'
  BY <1>1, <1>3, WidthAssumption DEF OrderStands, EventOK
<1>7. FlagsOK' /\ TypematicOK'
  BY <1>1, <1>3, AtRest DEF FlagsOK, TypematicOK, Contains
<1>8. ListOK'
  <2>1. \A k \in Keys : ~Contains(HeldList', k)
    BY <1>2, Empty
  <2>. QED BY <1>1, <2>1 DEF ListOK, Contains
<1>9. NewestOK'
  BY <1>1 DEF NewestOK
<1>. QED BY <1>5, <1>6, <1>7, <1>8, <1>9 DEF SessionOK

LEMMA SessionStep ==
  ASSUME SessionInv, [SessionNext]_allVars
  PROVE  SessionInv'
<1>1. KeyboardOK'
  BY KeyboardStep
<1>2. SessionOK'
  <2>1. CASE UNCHANGED allVars
    <3>1. /\ UNCHANGED <<Byte_1, Byte_2, window, Press, Data, keyReleased, keyCode>>
          /\ UNCHANGED <<Typematic, Shooting, Jumping, wire>> /\ HeldList' = HeldList
          /\ UNCHANGED <<down, fresh, repeating, fire, jump>>
      BY <2>1, SameList DEF allVars, vars, decoderVars, slotVars, userVars
    <3>2. LastCode' = LastCode /\ Underway' = Underway /\ (ComesUp' <=> ComesUp)
      BY <3>1 DEF LastCode, Underway, ComesUp
    <3>3. UserOK' /\ CodesOK' /\ OrderStands' /\ EventOK' /\ FlagsOK' /\ TypematicOK'
      BY <3>1, <3>2 DEF SessionInv, SessionOK, UserOK, CodesOK, OrderStands, EventOK,
         FlagsOK, TypematicOK, Contains, Before, Removed
    <3>4. ListOK' /\ NewestOK'
      <4>1. ListOK /\ NewestOK
        BY DEF SessionInv, SessionOK
      <4>2. ListOK'
        <5>1. /\ \A k \in Keys : Contains(HeldList', k) => Contains(down', k) \/ k = Underway'
              /\ \A k \in fresh' :
                   Contains(down', k) /\ (Contains(HeldList', k) \/ k = Underway')
              /\ \A k, l \in fresh' : Contains(HeldList', k) /\ Contains(HeldList', l) =>
                   (Before(HeldList', k, l) <=> Before(down', k, l))
          BY <3>1, <3>2, <4>1 DEF ListOK
        <5>. QED BY <5>1 DEF ListOK, Contains, Before
      <4>3. \A k \in fresh' : ~Contains(HeldList', k) =>
              /\ wire' # <<>> \/ window' = WindowClks => Typematic' # k
              /\ wire' = <<>> /\ window' = WindowClks - 1 => Press' = "insert" /\ Data' = k
              /\ \A l \in fresh' \ {k} : Before(down', l, k) /\ ~Before(down', k, l)
        BY <3>1, <4>1 DEF NewestOK
      <4>4. NewestOK'
        BY <4>3 DEF NewestOK, Contains, Before
      <4>. QED BY <4>2, <4>4
    <3>. QED BY <3>3, <3>4 DEF SessionOK
  <2>. QED BY <1>1, <2>1, PressLetterOK, ReleaseLetterOK, PressFireOK, ReleaseFireOK,
           OtherKeyOK, RepeatKeyOK, SendOK, ClkStepOK, ResetSwitchOK DEF SessionNext
<1>. QED BY <1>1, <1>2 DEF SessionInv

LEMMA SessionStart ==
  ASSUME SessionInit
  PROVE  SessionInv
<1>1. /\ Init /\ down = <<>> /\ fresh = {} /\ repeating = None
      /\ fire = FALSE /\ jump = FALSE /\ wire = <<>> /\ window = 0 /\ Byte_2 = None
      /\ Press = "nothing" /\ Typematic = None /\ Shooting = FALSE /\ Jumping = FALSE
      /\ keyCounter = 0
  BY DEF SessionInit, Init
<1>2. IInv /\ Settling
  BY <1>1, StartOK, SettledAtStart
<1>3. RankedList
  BY <1>2, AtRank DEF IInv
<1>4. HeldList = <<>>
  BY <1>1, <1>3 DEF RankedList
<1>5. /\ LastCode = None /\ Underway = None
      /\ None \notin Keys \cup {Shoot, Jump, Break, Extend}
  BY <1>1, Distinct DEF LastCode, Underway, Codes
<1>6. UserOK
  BY <1>1, <1>5, Empty DEF UserOK
<1>7. CodesOK
  BY <1>1, <1>5, EmptySeq DEF CodesOK
<1>8. OrderStands /\ EventOK /\ TypematicOK
  BY <1>1, <1>5, WidthAssumption DEF OrderStands, EventOK, TypematicOK
<1>9. FlagsOK
  BY <1>1 DEF FlagsOK
<1>10. ListOK /\ NewestOK
  BY <1>1, <1>4, Empty DEF ListOK, NewestOK
<1>. QED BY <1>2, <1>3, <1>6, <1>7, <1>8, <1>9, <1>10 DEF SessionInv, SessionOK, KeyboardOK

\* What the game sees is what the player holds, for every set of letter keys,
\* any number of them held at once, a window of any length, and every order of
\* presses, releases, repeats, prefixes and resets.
THEOREM ShownIsHeld == SessionSpec => []ShowsWhatIsHeld
<1>1. SessionInit => SessionInv
  BY SessionStart
<1>2. SessionInv /\ [SessionNext]_allVars => SessionInv'
  BY SessionStep
<1>3. SessionInv => ShowsWhatIsHeld
  <2>. SUFFICES ASSUME SessionInv, wire = <<>>, window = 0
                PROVE  /\ \A k \in fresh : Contains(Shown, k)
                       /\ \A k, l \in fresh : Before(Shown, k, l) <=> Before(down, k, l)
                       /\ \A p \in DOMAIN Shown : Contains(down, Shown[p])
                       /\ Shooting = fire /\ Jumping = jump
    BY DEF ShowsWhatIsHeld, Quiet
  <2>1. Healed /\ WidthOK /\ RanksExact /\ Settling /\ RankedList /\ UserOK
    BY DEF SessionInv, SessionOK, KeyboardOK, IInv, Healed
  <2>2. Shown = HeldList
    <3>1. \A p \in Slots : key[p] = Lookup(p)
      BY <2>1, WidthAssumption DEF Settling, Shows
    <3>2. \A p \in 1..keyCounter : p \in Slots
      BY <2>1, RoomForOne, WidthAssumption DEF WidthOK, Slots
    <3>. QED BY <3>1, <3>2 DEF Shown, HeldList
  <2>3. \A p \in DOMAIN Shown : Contains(down, Shown[p])
    <3>. SUFFICES ASSUME NEW p \in 1..keyCounter
                  PROVE  Contains(down, HeldList[p])
      BY <2>2 DEF Shown
    <3>1. HeldList[p] \in Keys /\ Contains(HeldList, HeldList[p])
      BY <2>1 DEF RankedList, Contains
    <3>. QED BY <3>1, AtRest
  <2>4. Shooting = fire
    <3>1. Shooting \in BOOLEAN /\ fire \in BOOLEAN
      BY <2>1, Zenon DEF WidthOK, UserOK
    <3>2. Shooting <=> fire
      BY AtRest
    <3>. QED BY <3>1, <3>2
  <2>5. Jumping = jump
    <3>1. Jumping \in BOOLEAN /\ jump \in BOOLEAN
      BY <2>1, Zenon DEF WidthOK, UserOK
    <3>2. Jumping <=> jump
      BY AtRest
    <3>. QED BY <3>1, <3>2
  <2>. QED BY <2>2, <2>3, <2>4, <2>5, AtRest
<1>. QED BY <1>1, <1>2, <1>3, PTL DEF SessionSpec
===============================================================================
