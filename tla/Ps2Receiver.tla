----------------------------- MODULE Ps2Receiver -----------------------------
(***************************************************************************)
(* The receiver of keyboard.sv: two shift registers on the rising edges of *)
(* the keyboard's clock, and a bit counter on the falling edges, which are *)
(* found by sampling that clock every Div edges of the 50 MHz clock.  The  *)
(* counter reaches FrameBits at the falling edge of the stop bit, when the *)
(* registers have shifted one bit less: the decoder looks at them before   *)
(* the clock rises again, and reads the data one place lower.              *)
(*                                                                         *)
(* The keyboard, which is outside the repository, may make its clock's     *)
(* halves as long as it likes but not shorter than LowMin and HighMin.  A  *)
(* bit is the code it belongs to and its place in it.                      *)
(***************************************************************************)
EXTENDS Integers, Sequences

CONSTANTS
  Codes,    \* the scan codes
  None,     \* what the registers show before the first code
  DataBits, \* 8
  Div,      \* clocks between two samples: 512
  LowMin,   \* clocks for which the keyboard's clock is low at least
  HighMin   \* and high

\* Start bit, data, parity, stop bit.
FrameBits == DataBits + 3

ASSUME CodesAssumption == None \notin Codes
ASSUME BitsAssumption  == DataBits \in Nat \ {0} /\ Div \in Nat /\ Div >= 2

\* 30 to 50 microseconds are 1500 to 2500 clocks: the second holds for every
\* keyboard, the first for all but the very fastest.
ASSUME ClockAssumption ==
  /\ LowMin \in Nat /\ LowMin >= 3 * Div
  /\ HighMin \in Nat /\ HighMin >= Div

VARIABLES
  counter, enable, \* the divider: a sample is taken when enable is set
  Q1, Q2,          \* the last sample and the one before
  Count,           \* the falling edges seen in this code
  en,              \* the shift registers are enabled
  Byte_1, Byte_2,  \* the shift registers, oldest bit first
  reset,           \* the reset switch
  psClk, age,      \* the keyboard's clock, and the clocks since it changed
  bit,             \* the place of the bit on the wire, 0 between two codes
  sent,            \* history: the last three codes, the one on the wire first
  aligned          \* history: no code was cut by a reset since the last rest

divider  == <<counter, enable>>
samples  == <<Q1, Q2, Count, en>>
bytes    == <<Byte_1, Byte_2>>
keyboard == <<psClk, bit, sent>>
vars == <<divider, samples, bytes, reset, keyboard, age, aligned>>

NoBit == <<None, 0>>
Bits  == Codes \X (0..FrameBits - 1) \cup {NoBit}
Empty == [i \in 1..FrameBits |-> NoBit]

TypeOK ==
  /\ counter \in 0..Div - 1 /\ enable \in BOOLEAN
  /\ Q1 \in {0, 1} /\ Q2 \in {0, 1}
  /\ Count \in 0..FrameBits /\ en \in BOOLEAN
  /\ \A i \in 1..FrameBits : Byte_1[i] \in Bits /\ Byte_2[i] \in Bits
  /\ reset \in BOOLEAN
  /\ psClk \in {0, 1} /\ age \in 0..LowMin + HighMin
  /\ bit \in 0..FrameBits - 1
  /\ \A i \in 1..3 : sent[i] \in Codes \cup {None}
  /\ aligned \in BOOLEAN

\* Power-up with the reset switch on, as in Keyboard.
Init ==
  /\ counter = 0 /\ enable = TRUE
  /\ Q1 = 0 /\ Q2 = 0 /\ Count = 0 /\ en = FALSE
  /\ Byte_1 = Empty /\ Byte_2 = Empty
  /\ reset = TRUE
  /\ psClk = 1 /\ age = 0 /\ bit = 0
  /\ sent = <<None, None, None>>
  /\ aligned = FALSE

-----------------------------------------------------------------------------
Resting == psClk = 1 /\ bit = 0

\* The keyboard pulls its clock low.  The first bit of a code is the start bit.
PsClkFalls ==
  /\ psClk = 1 /\ age >= HighMin
  /\ psClk' = 0 /\ age' = 0
  /\ IF bit = 0 THEN \E c \in Codes : sent' = <<c, sent[1], sent[2]>>
                ELSE UNCHANGED sent
  /\ UNCHANGED <<divider, samples, bytes, reset, bit, aligned>>

Shifted(byte, b) == Append(Tail(byte), b)

\* The clock rises and both registers shift, the second into the first.
PsClkRises ==
  /\ psClk = 0 /\ age >= LowMin
  /\ psClk' = 1 /\ age' = 0
  /\ IF en /\ ~reset
     THEN /\ Byte_2' = Shifted(Byte_2, <<sent[1], bit>>)
          /\ Byte_1' = Shifted(Byte_1, Head(Byte_2))
     ELSE UNCHANGED bytes
  /\ bit' = (bit + 1) % FrameBits
  /\ UNCHANGED <<divider, samples, reset, sent, aligned>>

\* How long the clock is steady matters up to the shortest half.
Older == age' = IF age < IF psClk = 0 THEN LowMin ELSE HighMin
                THEN age + 1 ELSE age

Divide ==
  /\ counter' = (counter + 1) % Div
  /\ enable' = (counter = Div - 1)

\* Mutant: the level counts instead of the edge.
SampleLevel ==
  /\ Q1' = psClk /\ Q2' = Q1
  /\ IF Count = FrameBits THEN Count' = 0 /\ UNCHANGED en
     ELSE IF Q1 = 0 THEN Count' = Count + 1 /\ en' = TRUE
     ELSE UNCHANGED <<Count, en>>

\* Mutant: the counter waits for the next code.
SampleLate ==
  /\ Q1' = psClk /\ Q2' = Q1
  /\ IF Count = FrameBits /\ Q1 = 1 THEN Count' = 0 /\ UNCHANGED en
     ELSE IF Q1 = 0 /\ Q2 = 1 THEN Count' = Count + 1 /\ en' = TRUE
     ELSE UNCHANGED <<Count, en>>

\* A sample: a full counter starts again, a falling edge counts.
Sample ==
  /\ Q1' = psClk /\ Q2' = Q1
  /\ IF Count = FrameBits THEN Count' = 0 /\ UNCHANGED en
     ELSE IF Q1 = 0 /\ Q2 = 1 THEN Count' = Count + 1 /\ en' = TRUE
     ELSE UNCHANGED <<Count, en>>

\* An edge of the 50 MHz clock.
Clk ==
  /\ ~reset
  /\ Divide
  /\ IF enable THEN Sample ELSE UNCHANGED samples
  /\ Older
  /\ UNCHANGED <<bytes, reset, keyboard, aligned>>

\* The reset switch clears all but en, for as long as it is on (Count at the
\* next clock edge).  It may come at any time, also in the middle of a code.
ResetOn ==
  /\ ~reset /\ reset' = TRUE
  /\ counter' = 0 /\ enable' = TRUE
  /\ Q1' = 0 /\ Q2' = 0 /\ Count' = 0
  /\ Byte_1' = Empty /\ Byte_2' = Empty
  /\ aligned' = FALSE
  /\ UNCHANGED <<en, keyboard, age>>

\* While it is on, only the keyboard's time goes on.
ClkInReset ==
  /\ reset
  /\ Older
  /\ UNCHANGED <<divider, samples, bytes, reset, keyboard, aligned>>

\* The switch goes off, and the clock has an edge.
ResetOff ==
  /\ reset /\ reset' = FALSE
  /\ Divide /\ Sample /\ Older
  /\ aligned' = Resting
  /\ sent' = IF Resting THEN <<None, None, None>> ELSE sent
  /\ UNCHANGED <<bytes, psClk, bit>>

Next ==
  \/ PsClkFalls \/ PsClkRises \/ Clk
  \/ ResetOn \/ ClkInReset \/ ResetOff

Spec == Init /\ [][Next]_vars

-----------------------------------------------------------------------------
\* Mutant: the data are taken where they are after the stop bit.
DataAfterStop(byte) == SubSeq(byte, 2, DataBits + 1)

\* Bits 9 to 2 of a register: its data as the decoder reads them.
Data(byte) == SubSeq(byte, 3, DataBits + 2)

\* The data of a code.
DataOf(c) == [i \in 1..DataBits |-> IF c = None THEN NoBit ELSE <<c, i>>]

Looking == Count = FrameBits

\* Whenever the decoder looks, Byte_2 has the data of the code on the wire and
\* Byte_1 those of the code before it, although the registers shift on the
\* keyboard's clock and the decoder looks on the board's.  After a reset that
\* cut a code this holds again from the next reset between two codes on.
SeesWhatIsSent ==
  TypeOK /\ (aligned /\ Looking => Data(Byte_2) = DataOf(sent[1])
                                   /\ Data(Byte_1) = DataOf(sent[2]))

\* The stop bit's falling edge has been seen: the decoder looks or has looked.
Opened ==
  IF psClk = 1 THEN bit = 0
  ELSE bit = FrameBits - 1 /\ Count \in {0, FrameBits}

Wire == INSTANCE ScanCodes WITH
  WindowClks <- Div,
  Byte_2 <- IF Opened THEN sent[1] ELSE sent[2],
  Byte_1 <- IF Opened THEN sent[2] ELSE sent[3],
  window <- IF ~Looking THEN 0 ELSE IF enable THEN 1 ELSE Div - counter + 1

\* Each code is shown once, for Div clocks, and none is missed or shown twice.
OneWindowPerCode == [][aligned /\ aligned' => [Wire!Next]_(Wire!vars)]_vars
=============================================================================
