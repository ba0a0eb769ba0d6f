-------------------------- MODULE Ps2ReceiverProofs --------------------------
(***************************************************************************)
(* Proofs about Ps2Receiver.tla, for every length of a code, every rate of *)
(* the sampling and every keyboard as slow as its assumptions say.         *)
(***************************************************************************)
EXTENDS Ps2Receiver, SequenceTheorems, TLAPS

(* Lemmas on the operators. *)

\* A counter that starts again.
LEMMA StepsRound ==
  ASSUME NEW n \in Nat \ {0}, NEW i \in 0..n - 1
  PROVE  (i + 1) % n = IF i + 1 = n THEN 0 ELSE i + 1
OBVIOUS

\* The length of a code and the keyboard's halves, in samples.
LEMMA Lengths ==
  /\ FrameBits \in Nat \ {0} /\ FrameBits >= 4
  /\ DataBits = FrameBits - 3
  /\ Div \in Nat /\ Div >= 2
  /\ LowMin \in Nat /\ LowMin >= Div + Div + Div
  /\ HighMin \in Nat /\ HighMin >= Div
BY BitsAssumption, ClockAssumption DEF FrameBits

\* A shift drops the first bit and takes one at the end.
LEMMA ShiftedBits ==
  ASSUME NEW byte \in [1..FrameBits -> Bits], NEW b \in Bits
  PROVE  /\ Shifted(byte, b) \in [1..FrameBits -> Bits]
         /\ \A i \in 1..FrameBits :
              Shifted(byte, b)[i] = IF i = FrameBits THEN b ELSE byte[i + 1]
<1>. USE Lengths
<1>1. byte \in Seq(Bits) /\ Len(byte) = FrameBits /\ byte # <<>>
  OBVIOUS
<1>2. /\ Tail(byte) \in Seq(Bits) /\ Len(Tail(byte)) = FrameBits - 1
      /\ \A i \in 1..FrameBits - 1 : Tail(byte)[i] = byte[i + 1]
  BY <1>1, HeadTailProperties
<1>. DEFINE s == Append(Tail(byte), b)
<1>3. /\ s \in Seq(Bits) /\ Len(s) = FrameBits
      /\ \A i \in 1..FrameBits - 1 : s[i] = byte[i + 1]
      /\ s[FrameBits] = b
  BY <1>2, AppendProperties
<1>4. s \in [1..FrameBits -> Bits]
  BY <1>3, LenProperties
<1>. HIDE DEF s
<1>. QED BY <1>3, <1>4 DEF Shifted, s

-----------------------------------------------------------------------------
(* The invariant. *)

\* The types, part by part; the divider is a counter, and enable its zero.
DividerOK ==
  /\ counter \in 0..Div - 1
  /\ enable = (counter = 0)

SamplesOK ==
  /\ Q1 \in {0, 1} /\ Q2 \in {0, 1}
  /\ Count \in 0..FrameBits /\ en \in BOOLEAN

\* The registers hold FrameBits bits, which TypeOK does not say.
BytesOK ==
  /\ Byte_1 \in [1..FrameBits -> Bits]
  /\ Byte_2 \in [1..FrameBits -> Bits]

WireOK == psClk \in {0, 1} /\ bit \in 0..FrameBits - 1
AgeOK == age \in 0..LowMin + HighMin
SwitchOK == reset \in BOOLEAN /\ aligned \in BOOLEAN

\* A code is on the wire unless the keyboard rests.
SentOK ==
  /\ sent \in [1..3 -> Codes \cup {None}]
  /\ ~Resting => sent[1] \in Codes

TypesOK ==
  DividerOK /\ SamplesOK /\ BytesOK /\ WireOK /\ AgeOK /\ SwitchOK /\ SentOK

\* While the switch is on everything it clears stays clear.
ResetOK ==
  reset => /\ counter = 0 /\ Q1 = 0 /\ Q2 = 0 /\ Count = 0
           /\ Byte_1 = Empty /\ Byte_2 = Empty
           /\ ~aligned

\* The clocks since the last sample, and the samples since the keyboard's clock
\* changed: one, two and three of them.
SinceSample == IF counter = 0 THEN Div ELSE counter
SeenOnce == age >= SinceSample
SeenTwice == age >= SinceSample + Div
SeenThrice == age >= SinceSample + Div + Div

\* What the samples show of the level: when the clock has fallen, nothing, then
\* the edge, then the count of the edge, then the end of the window.
LevelSeen ==
  IF psClk = 1
  THEN /\ SeenOnce => Q1 = 1
       /\ ~SeenOnce => Q1 = 0 /\ Q2 = 0
       /\ Count = bit
       /\ bit # 0 => en
  ELSE /\ ~SeenOnce => Q1 = 1 /\ Count = bit
       /\ SeenOnce /\ ~SeenTwice => Q1 = 0 /\ Q2 = 1 /\ Count = bit
       /\ SeenTwice => Q1 = 0 /\ Q2 = 0 /\ en
       /\ SeenTwice /\ ~SeenThrice => Count = bit + 1
       /\ SeenThrice => Count = IF bit + 1 = FrameBits THEN 0 ELSE bit + 1

\* The last three codes the registers can have bits of; at rest the code sent
\* last is complete and none is on the wire.
Current == sent[1]
Former == IF Resting THEN sent[1] ELSE sent[2]
Third == IF Resting THEN sent[2] ELSE sent[3]

BitOf(c, i) == IF c = None THEN NoBit ELSE <<c, i>>

\* A register that has shifted n bits of code c into those of code b.
Holds(byte, n, c, b) ==
  \A i \in 1..FrameBits :
    byte[i] = IF i + n <= FrameBits THEN BitOf(b, i + n - 1)
                                    ELSE BitOf(c, i + n - FrameBits - 1)

BitsShifted ==
  /\ Holds(Byte_2, bit, Current, Former)
  /\ Holds(Byte_1, bit, Former, Third)

\* The inductive invariant.
IInv ==
  /\ TypesOK /\ ResetOK
  /\ aligned => LevelSeen /\ BitsShifted

-----------------------------------------------------------------------------
(* The divider and what it has seen. *)

\* An edge of the 50 MHz clock keeps the divider a counter.
LEMMA DividerStep ==
  ASSUME DividerOK, Divide
  PROVE  /\ DividerOK'
         /\ counter' = IF counter + 1 = Div THEN 0 ELSE counter + 1
<1>1. counter' = IF counter + 1 = Div THEN 0 ELSE counter + 1
  BY Lengths, StepsRound DEF DividerOK, Divide
<1>. QED BY <1>1, Lengths DEF DividerOK, Divide

\* Time that passes without a sample shows nothing new, and a sample is one
\* more; age stops growing where all of them have been seen.
LEMMA TimePasses ==
  ASSUME DividerOK, Divide, Older, psClk \in {0, 1}, age \in Nat
  PROVE  /\ age' \in Nat
         /\ ~enable => /\ SeenOnce' <=> SeenOnce
                       /\ psClk = 0 => /\ SeenTwice' <=> SeenTwice
                                       /\ SeenThrice' <=> SeenThrice
         /\ enable => /\ SeenOnce'
                      /\ psClk = 0 => /\ SeenTwice' <=> SeenOnce
                                      /\ SeenThrice' <=> SeenTwice
<1>. USE Lengths
<1>1. /\ enable <=> counter = 0
      /\ counter \in 0..Div - 1
      /\ counter' = IF counter + 1 = Div THEN 0 ELSE counter + 1
  BY DividerStep DEF DividerOK
<1>2. SinceSample' = IF enable THEN 1 ELSE SinceSample + 1
  BY <1>1 DEF SinceSample
<1>3. SinceSample \in 1..Div /\ (enable <=> SinceSample = Div)
  BY <1>1 DEF SinceSample
<1>. DEFINE limit == IF psClk = 0 THEN LowMin ELSE HighMin
<1>4. limit \in Nat /\ age' = IF age < limit THEN age + 1 ELSE age
  BY DEF Older
<1>5. limit >= Div /\ (psClk = 0 => limit >= Div + Div + Div)
  OBVIOUS
<1>. HIDE DEF limit
<1>. USE <1>2, <1>3, <1>4, <1>5 DEF SeenOnce, SeenTwice, SeenThrice
<1>6. age' \in Nat
  OBVIOUS
<1>7. CASE enable
  <2>1. SinceSample = Div /\ SinceSample' = 1
    BY <1>7
  <2>2. SeenOnce'
    BY <2>1
  <2>3. ASSUME psClk = 0
        PROVE  /\ SeenTwice' <=> SeenOnce
               /\ SeenThrice' <=> SeenTwice
    BY <2>1, <2>3
  <2>. QED BY <1>6, <1>7, <2>2, <2>3
<1>8. CASE ~enable
  <2>1. SinceSample' = SinceSample + 1
    BY <1>8
  <2>2. SeenOnce' <=> SeenOnce
    BY <2>1
  <2>3. ASSUME psClk = 0
        PROVE  /\ SeenTwice' <=> SeenTwice
               /\ SeenThrice' <=> SeenThrice
    BY <2>1, <2>3
  <2>. QED BY <1>6, <1>8, <2>2, <2>3
<1>. QED BY <1>7, <1>8
-----------------------------------------------------------------------------
(* Every step keeps the invariant. *)

\* The registers and the history keep their types.
LEMMA TypesStep ==
  ASSUME TypesOK, [Next]_vars
  PROVE  TypesOK'
<1>. USE DEF TypesOK
<1>1. CASE PsClkFalls
  <2>1. \/ sent' \in [1..3 -> Codes \cup {None}] /\ sent'[1] \in Codes
        \/ UNCHANGED sent /\ bit # 0
    BY <1>1 DEF PsClkFalls, SentOK
  <2>2. SentOK'
    BY <1>1, <2>1 DEF PsClkFalls, SentOK, Resting
  <2>3. WireOK' /\ AgeOK'
    BY <1>1, Lengths DEF PsClkFalls, WireOK, AgeOK
  <2>. QED BY <1>1, <2>2, <2>3 DEF PsClkFalls, divider, samples, bytes,
              DividerOK, SamplesOK, BytesOK, SwitchOK
<1>2. CASE PsClkRises
  <2>1. WireOK' /\ AgeOK'
    BY <1>2, StepsRound, Lengths DEF PsClkRises, WireOK, AgeOK
  <2>2. sent[1] \in Codes
    BY <1>2 DEF PsClkRises, SentOK, Resting
  <2>3. SentOK'
    BY <1>2, <2>2 DEF PsClkRises, SentOK
  <2>4. BytesOK'
    <3>1. <<sent[1], bit>> \in Bits
      BY <2>2 DEF Bits, WireOK
    <3>2. Head(Byte_2) \in Bits
      BY Lengths DEF BytesOK
    <3>. QED BY <1>2, <3>1, <3>2, ShiftedBits DEF PsClkRises, BytesOK, bytes
  <2>. QED BY <1>2, <2>1, <2>3, <2>4 DEF PsClkRises, divider, samples,
              DividerOK, SamplesOK, SwitchOK
<1>3. Older /\ UNCHANGED psClk => AgeOK'
  BY Lengths DEF Older, AgeOK, WireOK
<1>4. Sample => SamplesOK'
  <2>. SUFFICES ASSUME Sample
                PROVE  SamplesOK'
    OBVIOUS
  <2>1. en' \in BOOLEAN
    BY DEF Sample, SamplesOK
  <2>2. Count' \in 0..FrameBits
    BY Lengths DEF Sample, SamplesOK
  <2>. QED BY <2>1, <2>2 DEF Sample, SamplesOK, WireOK
<1>5. CASE Clk
  <2>1. DividerOK' /\ AgeOK'
    BY <1>3, <1>5, DividerStep DEF Clk, keyboard
  <2>2. SamplesOK'
    BY <1>4, <1>5 DEF Clk, samples, SamplesOK
  <2>. QED BY <1>5, <2>1, <2>2 DEF Clk, bytes, keyboard,
              BytesOK, WireOK, SwitchOK, SentOK, Resting
<1>6. CASE ResetOn
  <2>1. Empty \in [1..FrameBits -> Bits]
    BY DEF Empty, Bits
  <2>2. DividerOK'
    <3>1. counter' = 0 /\ (counter' = 0) = TRUE
      BY <1>6 DEF ResetOn
    <3>2. enable' = (counter' = 0)
      BY <1>6, <3>1, Zenon DEF ResetOn
    <3>. QED BY <3>1, <3>2, Lengths DEF DividerOK
  <2>3. SamplesOK'
    BY <1>6, Lengths DEF ResetOn, SamplesOK
  <2>4. BytesOK' /\ SwitchOK'
    BY <1>6, <2>1 DEF ResetOn, BytesOK, SwitchOK
  <2>. QED BY <1>6, <2>2, <2>3, <2>4 DEF ResetOn, keyboard, WireOK, AgeOK,
              SentOK, Resting
<1>7. CASE ClkInReset
  <2>1. AgeOK'
    BY <1>3, <1>7 DEF ClkInReset, keyboard
  <2>. QED BY <1>7, <2>1 DEF ClkInReset, divider, samples, bytes, keyboard,
              DividerOK, SamplesOK, BytesOK, WireOK, SwitchOK, SentOK, Resting
<1>8. CASE ResetOff
  <2>1. DividerOK' /\ AgeOK' /\ SamplesOK'
    BY <1>3, <1>4, <1>8, DividerStep DEF ResetOff
  <2>2. <<None, None, None>> \in [1..3 -> Codes \cup {None}]
    OBVIOUS
  <2>3. SentOK'
    BY <1>8, <2>2 DEF ResetOff, SentOK, Resting
  <2>4. Resting \in BOOLEAN
    BY DEF Resting
  <2>. QED BY <1>8, <2>1, <2>3, <2>4 DEF ResetOff, bytes, BytesOK, WireOK, SwitchOK
<1>9. CASE UNCHANGED vars
  BY <1>9 DEF vars, divider, samples, bytes, keyboard, DividerOK, SamplesOK,
     BytesOK, WireOK, AgeOK, SwitchOK, SentOK, Resting
<1>. QED BY <1>1, <1>2, <1>5, <1>6, <1>7, <1>8, <1>9 DEF Next

\* The switch clears what ResetOK says, and only a rest aligns again.
LEMMA ResetStep ==
  ASSUME TypesOK, ResetOK, [Next]_vars
  PROVE  ResetOK'
<1>. USE DEF ResetOK
<1>1. CASE ResetOn
  BY <1>1 DEF ResetOn
<1>2. CASE ~ResetOn
  <2>1. reset' => reset
    BY <1>2 DEF Next, PsClkFalls, PsClkRises, Clk, ClkInReset, ResetOff, vars
  <2>. QED BY <2>1 DEF Next, PsClkFalls, PsClkRises, Clk, ClkInReset, ResetOn,
              ResetOff, vars, divider, samples, bytes
<1>. QED BY <1>1, <1>2

\* What the samples show stays right while no code has been cut.
LEMMA LevelStep ==
  ASSUME TypesOK, ResetOK, aligned => LevelSeen, [Next]_vars, aligned'
  PROVE  LevelSeen'
<1>. USE Lengths DEF TypesOK, WireOK, SamplesOK
<1>1. CASE PsClkFalls
  <2>1. LevelSeen /\ SeenOnce
    BY <1>1 DEF PsClkFalls, DividerOK, SeenOnce, SinceSample, AgeOK
  <2>2. ~SeenOnce' /\ ~SeenTwice' /\ ~SeenThrice'
    BY <1>1 DEF PsClkFalls, divider, DividerOK, SeenOnce, SeenTwice, SeenThrice,
       SinceSample
  <2>. QED BY <1>1, <2>1, <2>2 DEF PsClkFalls, samples, LevelSeen
<1>2. CASE PsClkRises
  <2>1. LevelSeen /\ SeenThrice /\ SeenTwice
    BY <1>2 DEF PsClkRises, DividerOK, SeenThrice, SeenTwice, SinceSample, AgeOK
  <2>2. ~SeenOnce'
    BY <1>2 DEF PsClkRises, divider, DividerOK, SeenOnce, SinceSample
  <2>3. bit' = IF bit + 1 = FrameBits THEN 0 ELSE bit + 1
    <3>1. (bit + 1) % FrameBits = IF bit + 1 = FrameBits THEN 0 ELSE bit + 1
      BY StepsRound
    <3>. QED BY <1>2, <3>1 DEF PsClkRises
  <2>. QED BY <1>2, <2>1, <2>2, <2>3 DEF PsClkRises, samples, LevelSeen
<1>3. CASE Clk
  <2>1. aligned /\ LevelSeen
    BY <1>3 DEF Clk
  <2>2. DividerOK /\ Divide /\ Older /\ age \in Nat
    BY <1>3 DEF Clk, AgeOK
  <2>3. UNCHANGED <<psClk, bit>>
    BY <1>3 DEF Clk, keyboard
  <2>4. CASE enable
    <3>1. Sample /\ SeenOnce'
      BY <1>3, <2>2, <2>4, TimePasses DEF Clk
    <3>2. CASE psClk = 1
      BY <2>1, <2>3, <3>1, <3>2 DEF Sample, LevelSeen
    <3>3. CASE psClk = 0
      <4>1. /\ SeenTwice' <=> SeenOnce
            /\ SeenThrice' <=> SeenTwice
            /\ SeenTwice => SeenOnce
            /\ SeenThrice => SeenTwice
        BY <2>2, <2>4, <3>3, TimePasses DEF SeenOnce, SeenTwice, SeenThrice,
           SinceSample, DividerOK
      <4>. QED BY <2>1, <2>3, <3>1, <3>3, <4>1 DEF Sample, LevelSeen
    <3>. QED BY <3>2, <3>3
  <2>5. CASE ~enable
    <3>1. UNCHANGED samples
      BY <1>3, <2>5 DEF Clk
    <3>2. /\ SeenOnce' <=> SeenOnce
          /\ psClk = 0 => /\ SeenTwice' <=> SeenTwice
                          /\ SeenThrice' <=> SeenThrice
      BY <2>2, <2>5, TimePasses
    <3>. QED BY <2>1, <2>3, <3>1, <3>2 DEF samples, LevelSeen
  <2>. QED BY <2>4, <2>5
<1>4. CASE ResetOff
  <2>1. /\ Resting /\ UNCHANGED <<psClk, bit>>
        /\ Q1 = 0 /\ Q2 = 0 /\ Count = 0 /\ enable
    BY <1>4 DEF ResetOff, ResetOK, DividerOK
  <2>2. SeenOnce'
    BY <1>4, <2>1, TimePasses DEF ResetOff, AgeOK
  <2>. QED BY <1>4, <2>1, <2>2 DEF ResetOff, Resting, Sample, LevelSeen
<1>5. CASE ResetOn \/ ClkInReset
  BY <1>5 DEF ResetOn, ClkInReset, ResetOK
<1>6. CASE UNCHANGED vars
  BY <1>6 DEF vars, divider, samples, keyboard, LevelSeen, SeenOnce, SeenTwice,
     SeenThrice, SinceSample
<1>. QED BY <1>1, <1>2, <1>3, <1>4, <1>5, <1>6 DEF Next

\* What the registers hold shifts with the keyboard's clock, and a code that
\* begins makes the one before it the former.
LEMMA BitsStep ==
  ASSUME TypesOK, ResetOK, aligned => LevelSeen /\ BitsShifted,
         [Next]_vars, aligned'
  PROVE  BitsShifted'
<1>. USE Lengths DEF TypesOK, WireOK
<1>1. CASE PsClkFalls
  <2>1. aligned /\ BitsShifted /\ UNCHANGED <<bytes, bit>>
    BY <1>1 DEF PsClkFalls
  <2>2. Former' = Former /\ Third' = Third
    BY <1>1 DEF PsClkFalls, Former, Third, Resting
  <2>3. bit = 0 \/ Current' = Current
    BY <1>1 DEF PsClkFalls, Current
  <2>4. Holds(Byte_2, bit, Current', Former)
    BY <2>1, <2>3 DEF BitsShifted, Holds
  <2>. QED BY <2>1, <2>2, <2>4 DEF BitsShifted, Holds, bytes
<1>2. CASE PsClkRises
  <2>1. /\ aligned /\ LevelSeen /\ BitsShifted
        /\ psClk = 0 /\ UNCHANGED sent
    BY <1>2 DEF PsClkRises
  <2>2. en /\ ~reset
    BY <1>2, <2>1 DEF PsClkRises, LevelSeen, SeenTwice, SinceSample, DividerOK,
       AgeOK, ResetOK
  <2>3. Current \in Codes /\ Current # None
    BY <2>1, CodesAssumption DEF SentOK, Resting, Current
  <2>4. bit' = IF bit + 1 = FrameBits THEN 0 ELSE bit + 1
    <3>1. (bit + 1) % FrameBits = IF bit + 1 = FrameBits THEN 0 ELSE bit + 1
      BY StepsRound
    <3>. QED BY <1>2, <3>1 DEF PsClkRises
  <2>5. BitOf(Current, bit) = <<sent[1], bit>> /\ BitOf(Current, bit) \in Bits
    BY <2>3 DEF BitOf, Current, Bits
  <2>6. Byte_2[1] = BitOf(Former, bit) /\ Head(Byte_2) = Byte_2[1]
        /\ Byte_2[1] \in Bits
    BY <2>1 DEF BitsShifted, Holds, BytesOK
  <2>7. /\ Byte_2' = Shifted(Byte_2, BitOf(Current, bit))
        /\ Byte_1' = Shifted(Byte_1, BitOf(Former, bit))
    BY <1>2, <2>2, <2>5, <2>6 DEF PsClkRises
  <2>8. \A i \in 1..FrameBits :
          /\ Byte_2'[i] = IF i = FrameBits THEN BitOf(Current, bit) ELSE Byte_2[i + 1]
          /\ Byte_1'[i] = IF i = FrameBits THEN BitOf(Former, bit) ELSE Byte_1[i + 1]
    <3>1. Byte_1 \in [1..FrameBits -> Bits] /\ Byte_2 \in [1..FrameBits -> Bits]
      BY DEF BytesOK
    <3>2. \A i \in 1..FrameBits :
            Byte_2'[i] = IF i = FrameBits THEN BitOf(Current, bit) ELSE Byte_2[i + 1]
      <4>. DEFINE b == BitOf(Current, bit)
      <4>1. b \in Bits
        BY <2>5
      <4>. HIDE DEF b
      <4>2. \A i \in 1..FrameBits :
              Shifted(Byte_2, b)[i] = IF i = FrameBits THEN b ELSE Byte_2[i + 1]
        BY <3>1, <4>1, ShiftedBits
      <4>. QED BY <2>7, <4>2 DEF b
    <3>3. BitOf(Former, bit) \in Bits
      BY <2>6
    <3>4. \A i \in 1..FrameBits :
            Byte_1'[i] = IF i = FrameBits THEN BitOf(Former, bit) ELSE Byte_1[i + 1]
      <4>. DEFINE b == BitOf(Former, bit)
      <4>1. b \in Bits
        BY <3>3
      <4>. HIDE DEF b
      <4>2. \A i \in 1..FrameBits :
              Shifted(Byte_1, b)[i] = IF i = FrameBits THEN b ELSE Byte_1[i + 1]
        BY <3>1, <4>1, ShiftedBits
      <4>. QED BY <2>7, <4>2 DEF b
    <3>. QED BY <3>2, <3>4
  <2>9. CASE bit + 1 # FrameBits
    <3>1. UNCHANGED <<Current, Former, Third>>
      BY <1>2, <2>1, <2>4, <2>9 DEF PsClkRises, Current, Former, Third, Resting
    <3>. QED BY <2>1, <2>4, <2>8, <2>9, <3>1 DEF BitsShifted, Holds
  <2>10. CASE bit + 1 = FrameBits
    <3>1. Former' = Current /\ Third' = Former
      BY <1>2, <2>1, <2>4, <2>10 DEF PsClkRises, Current, Former, Third, Resting
    <3>2. \A i \in 1..FrameBits : /\ Byte_2'[i] = BitOf(Current, i - 1)
                                 /\ Byte_1'[i] = BitOf(Former, i - 1)
      BY <2>1, <2>8, <2>10 DEF BitsShifted, Holds
    <3>. QED BY <2>4, <2>10, <3>1, <3>2 DEF BitsShifted, Holds
  <2>. QED BY <2>9, <2>10
<1>3. CASE ResetOff
  <2>1. /\ Resting /\ bit' = 0 /\ sent' = <<None, None, None>>
        /\ Byte_1' = Empty /\ Byte_2' = Empty
    BY <1>3 DEF ResetOff, ResetOK, Resting, bytes
  <2>2. Former' = None /\ Third' = None
    BY <2>1 DEF Former, Third
  <2>. QED BY <2>1, <2>2 DEF BitsShifted, Holds, BitOf, Empty
<1>4. CASE ResetOn \/ ClkInReset
  BY <1>4 DEF ResetOn, ClkInReset, ResetOK
<1>5. CASE Clk \/ UNCHANGED vars
  BY <1>5 DEF Clk, vars, bytes, keyboard, BitsShifted, Holds, Current, Former,
     Third, Resting
<1>. QED BY <1>1, <1>2, <1>3, <1>4, <1>5 DEF Next

\* The invariant holds when the power comes on, and every step keeps it.
THEOREM Invariance == Spec => []IInv
<1>1. Init => IInv
  <2>. SUFFICES ASSUME Init
                PROVE  IInv
    OBVIOUS
  <2>. USE Lengths DEF Init
  <2>1. DividerOK
    <3>1. (counter = 0) = TRUE
      OBVIOUS
    <3>2. enable = (counter = 0)
      BY <3>1, Zenon
    <3>. QED BY <3>2 DEF DividerOK
  <2>2. BytesOK
    BY DEF BytesOK, Empty, Bits
  <2>3. SamplesOK /\ WireOK /\ AgeOK /\ SwitchOK
    <3>1. SwitchOK /\ en \in BOOLEAN
      BY Zenon DEF SwitchOK
    <3>2. Q1 \in {0, 1} /\ Q2 \in {0, 1} /\ Count \in 0..FrameBits
      OBVIOUS
    <3>. QED BY <3>1, <3>2 DEF SamplesOK, WireOK, AgeOK
  <2>4. SentOK
    BY DEF SentOK, Resting
  <2>. QED BY <2>1, <2>2, <2>3, <2>4 DEF IInv, TypesOK, ResetOK
<1>2. IInv /\ [Next]_vars => IInv'
  BY TypesStep, ResetStep, LevelStep, BitsStep DEF IInv
<1>. QED BY <1>1, <1>2, PTL DEF Spec

LEMMA TypesTogether == TypesOK => TypeOK
BY Lengths DEF TypesOK, DividerOK, SamplesOK, BytesOK, WireOK, AgeOK, SwitchOK,
   SentOK, TypeOK

\* Every register holds a value of its type, whatever a reset has cut.
THEOREM TypeCorrect == Spec => []TypeOK
<1>1. IInv => TypeOK
  BY TypesTogether DEF IInv
<1>. QED BY <1>1, Invariance, PTL

\* While the decoder looks the stop bit is on the wire, before its rising edge.
LEMMA LooksAtStopBit ==
  ASSUME IInv, aligned, Looking
  PROVE  psClk = 0 /\ bit = FrameBits - 1
BY Lengths DEF IInv, TypesOK, WireOK, LevelSeen, Looking

\* The data bits of a code that all but the stop bit have been shifted for.
LEMMA DataHeld ==
  ASSUME NEW byte \in [1..FrameBits -> Bits], NEW c, NEW b,
         Holds(byte, FrameBits - 1, c, b)
  PROVE  Data(byte) = DataOf(c)
<1>. USE Lengths
<1>1. Data(byte) = [j \in 1..DataBits |-> byte[j + 2]]
  BY DEF Data
<1>2. \A j \in 1..DataBits : byte[j + 2] = BitOf(c, j)
  BY DEF Holds
<1>3. DataOf(c) = [j \in 1..DataBits |-> BitOf(c, j)]
  BY DEF DataOf, BitOf
<1>. QED BY <1>1, <1>2, <1>3

\* Whenever the decoder looks it sees the last two codes, complete and in
\* order, for every code length, sampling rate and keyboard.
THEOREM CodesAreSeen == Spec => []SeesWhatIsSent
<1>1. IInv => SeesWhatIsSent
  <2>. SUFFICES ASSUME IInv, aligned, Looking
                PROVE  /\ Data(Byte_2) = DataOf(sent[1])
                       /\ Data(Byte_1) = DataOf(sent[2])
    BY TypesTogether DEF IInv, SeesWhatIsSent
  <2>1. psClk = 0 /\ bit = FrameBits - 1
    BY LooksAtStopBit
  <2>2. Current = sent[1] /\ Former = sent[2]
    BY <2>1 DEF Current, Former, Resting
  <2>3. /\ Holds(Byte_2, FrameBits - 1, sent[1], sent[2])
        /\ Holds(Byte_1, FrameBits - 1, sent[2], Third)
    BY <2>1, <2>2 DEF IInv, BitsShifted
  <2>. QED BY <2>3, DataHeld DEF IInv, TypesOK, BytesOK
<1>. QED BY <1>1, Invariance, PTL

-----------------------------------------------------------------------------
(* The receiver implements ScanCodes. *)

\* What the decoder is shown, as ScanCodes has it: the substitution of Wire.
WireByte_2 == IF Opened THEN sent[1] ELSE sent[2]
WireByte_1 == IF Opened THEN sent[2] ELSE sent[3]
WireWindow == IF ~Looking THEN 0 ELSE IF enable THEN 1 ELSE Div - counter + 1
Shown == <<WireByte_1, WireByte_2, WireWindow>>

\* A code is shown from the second sample of its stop bit on, and looked at
\* until the third.
StopBit == psClk = 0 /\ bit = FrameBits - 1
OpensAtStopBit ==
  /\ Opened <=> Resting \/ (StopBit /\ SeenTwice)
  /\ Looking <=> StopBit /\ SeenTwice /\ ~SeenThrice

LEMMA Opens == IInv /\ aligned => OpensAtStopBit
<1>. SUFFICES ASSUME IInv, aligned
              PROVE  OpensAtStopBit
  OBVIOUS
<1>. USE Lengths DEF IInv, TypesOK, WireOK, SamplesOK, DividerOK, LevelSeen
<1>1. /\ SeenTwice => SeenOnce
      /\ SeenThrice => SeenTwice
  BY DEF SeenTwice, SeenOnce, SeenThrice, AgeOK, SinceSample
<1>2. Opened <=> Resting \/ (StopBit /\ SeenTwice)
  BY <1>1 DEF Opened, Resting, StopBit
<1>3. Looking <=> StopBit /\ SeenTwice /\ ~SeenThrice
  BY <1>1 DEF Looking, StopBit
<1>. QED BY <1>2, <1>3 DEF OpensAtStopBit

\* The keyboard's clock shows the decoder nothing new.
LEMMA WireStep ==
  ASSUME IInv, OpensAtStopBit, OpensAtStopBit', PsClkFalls \/ PsClkRises
  PROVE  UNCHANGED Shown
<1>. USE Lengths DEF IInv, TypesOK, WireOK, DividerOK, AgeOK, OpensAtStopBit
<1>1. CASE PsClkFalls
  <2>1. ~SeenTwice'
    BY <1>1 DEF PsClkFalls, divider, SeenTwice, SinceSample
  <2>2. ~Opened' /\ ~Looking /\ ~Looking' /\ (Opened <=> bit = 0)
    BY <1>1, <2>1 DEF PsClkFalls, Resting, StopBit
  <2>3. IF bit = 0 THEN sent'[2] = sent[1] /\ sent'[3] = sent[2] ELSE UNCHANGED sent
    BY <1>1 DEF PsClkFalls
  <2>. QED BY <2>2, <2>3 DEF Shown, WireByte_1, WireByte_2, WireWindow
<1>2. CASE PsClkRises
  <2>1. SeenTwice /\ SeenThrice
    BY <1>2 DEF PsClkRises, SeenTwice, SeenThrice, SinceSample
  <2>2. bit' = IF bit + 1 = FrameBits THEN 0 ELSE bit + 1
    <3>1. (bit + 1) % FrameBits = IF bit + 1 = FrameBits THEN 0 ELSE bit + 1
      BY StepsRound
    <3>. QED BY <1>2, <3>1 DEF PsClkRises
  <2>3. ~Looking /\ ~Looking' /\ (Opened' <=> Opened)
    BY <1>2, <2>1, <2>2 DEF PsClkRises, Resting, StopBit
  <2>. QED BY <1>2, <2>3 DEF PsClkRises, Shown, WireByte_1, WireByte_2, WireWindow
<1>. QED BY <1>1, <1>2

\* An edge of the 50 MHz clock opens the window, counts it down, closes it, or
\* changes nothing.
LEMMA ClkStep ==
  ASSUME IInv, OpensAtStopBit, OpensAtStopBit', Clk
  PROVE  [Wire!Next]_(Wire!vars)
<1>. USE Lengths DEF IInv, TypesOK, WireOK
<1>1. /\ enable <=> counter = 0
      /\ enable' <=> counter' = 0
      /\ counter \in 0..Div - 1
      /\ counter' = IF counter + 1 = Div THEN 0 ELSE counter + 1
  BY DividerStep DEF Clk, DividerOK
<1>2. UNCHANGED <<psClk, bit, sent>> /\ (Resting' <=> Resting) /\ (StopBit' <=> StopBit)
  BY DEF Clk, keyboard, Resting, StopBit
<1>3. UNCHANGED Shown => UNCHANGED Wire!vars
  BY DEF Shown, WireByte_1, WireByte_2, WireWindow, Wire!vars
<1>4. CASE ~StopBit
  <2>1. ~Looking /\ ~Looking' /\ (Opened' <=> Opened)
    BY <1>2, <1>4 DEF OpensAtStopBit
  <2>. QED BY <1>2, <1>3, <2>1 DEF Shown, WireByte_1, WireByte_2, WireWindow
<1>5. CASE StopBit /\ ~enable
  <2>1. (SeenTwice' <=> SeenTwice) /\ (SeenThrice' <=> SeenThrice)
    BY <1>5, TimePasses DEF Clk, StopBit, AgeOK
  <2>2. (Looking' <=> Looking) /\ (Opened' <=> Opened)
    BY <1>2, <2>1 DEF OpensAtStopBit
  <2>3. CASE ~Looking
    BY <1>2, <1>3, <2>2, <2>3 DEF Shown, WireByte_1, WireByte_2, WireWindow
  <2>4. CASE Looking
    <3>1. WireWindow > 0 /\ WireWindow' = WireWindow - 1
      BY <1>1, <1>5, <2>2, <2>4 DEF WireWindow
    <3>2. Wire!Clk
      BY <1>2, <2>2, <3>1 DEF Wire!Clk, WireWindow
    <3>. QED BY <3>2 DEF Wire!Next
  <2>. QED BY <2>3, <2>4
<1>6. CASE StopBit /\ enable
  <2>1. (SeenTwice' <=> SeenOnce) /\ (SeenThrice' <=> SeenTwice)
    BY <1>6, TimePasses DEF Clk, StopBit, AgeOK
  <2>2. (SeenTwice => SeenOnce) /\ (SeenThrice => SeenTwice) /\ ~Resting
    BY <1>6 DEF DividerOK, SeenTwice, SeenOnce, SeenThrice, AgeOK, SinceSample,
       StopBit, Resting
  <2>3. counter' = 1 /\ ~enable' /\ counter = 0
    BY <1>1, <1>6
  <2>4. CASE ~SeenOnce
    <3>1. ~Looking /\ ~Looking' /\ ~Opened /\ ~Opened'
      BY <1>2, <2>1, <2>2, <2>4 DEF OpensAtStopBit
    <3>. QED BY <1>2, <1>3, <3>1 DEF Shown, WireByte_1, WireByte_2, WireWindow
  <2>5. CASE SeenOnce /\ ~SeenTwice
    <3>1. ~Looking /\ Looking' /\ ~Opened /\ Opened'
      BY <1>2, <1>6, <2>1, <2>2, <2>5 DEF OpensAtStopBit
    <3>2. sent[1] \in Codes
      BY <2>2 DEF SentOK
    <3>3. Wire!Packet(sent[1])
      BY <1>2, <2>3, <3>1 DEF Wire!Packet
    <3>. QED BY <3>2, <3>3 DEF Wire!Next
  <2>6. CASE SeenTwice /\ ~SeenThrice
    <3>1. Looking /\ ~Looking' /\ Opened /\ Opened'
      BY <1>2, <1>6, <2>1, <2>2, <2>6 DEF OpensAtStopBit
    <3>2. Wire!Clk
      BY <1>2, <1>6, <3>1 DEF Wire!Clk
    <3>. QED BY <3>2 DEF Wire!Next
  <2>7. CASE SeenThrice
    <3>1. ~Looking /\ ~Looking' /\ Opened /\ Opened'
      BY <1>2, <1>6, <2>1, <2>2, <2>7 DEF OpensAtStopBit
    <3>. QED BY <1>2, <1>3, <3>1 DEF Shown, WireByte_1, WireByte_2, WireWindow
  <2>. QED BY <2>4, <2>5, <2>6, <2>7
<1>. QED BY <1>4, <1>5, <1>6

\* Of an aligned receiver every step is one of ScanCodes or changes nothing
\* that it shows: each code is shown once, for as long as a sample takes.
THEOREM ImplementsScanCodes == Spec => OneWindowPerCode
<1>1. (IInv /\ aligned => OpensAtStopBit)'
  BY Opens, PTL
<1>2. ASSUME IInv, IInv', [Next]_vars, aligned, aligned'
      PROVE  [Wire!Next]_(Wire!vars)
  <2>. USE <1>2, <1>1, Opens
  <2>1. UNCHANGED Shown => UNCHANGED Wire!vars
    BY DEF Shown, WireByte_1, WireByte_2, WireWindow, Wire!vars
  <2>2. CASE PsClkFalls \/ PsClkRises
    BY <2>1, <2>2, WireStep
  <2>3. CASE Clk
    BY <2>3, ClkStep
  <2>4. CASE ResetOn \/ ClkInReset \/ ResetOff
    BY <2>4 DEF IInv, ResetOK, ResetOn, ClkInReset, ResetOff
  <2>5. CASE UNCHANGED vars
    BY <2>1, <2>5 DEF vars, divider, samples, keyboard, Shown, WireByte_1,
       WireByte_2, WireWindow, Opened, Looking
  <2>. QED BY <2>2, <2>3, <2>4, <2>5 DEF Next
<1>3. IInv /\ IInv' /\ [Next]_vars
        => [aligned /\ aligned' => [Wire!Next]_(Wire!vars)]_vars
  BY <1>2
<1>. QED BY <1>3, Invariance, PTL DEF Spec, OneWindowPerCode
=============================================================================
