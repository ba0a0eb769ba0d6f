---- MODULE UsbKeyboardProofs ----
(***************************************************************************)
(* Proofs about the USB keyboard program of UsbKeyboard.tla: its lists are *)
(* whole, it asks for the right length, it polls a configured keyboard,    *)
(* and what it shows is the last report, for every set of keys, every      *)
(* bound on the looks at the port, and every combination of mishaps, each  *)
(* kind at most once, that the statement does not exclude.                 *)
(*                                                                         *)
(* The program and the chip share the chip's memory without a lock.  The   *)
(* invariant therefore has four parts: what every active descriptor in     *)
(* the memory is like, whatever happens, because the chip may run what an  *)
(* older list has left (Always); where the chip may be at each place of    *)
(* main, a list being sent again while the chip is in it, but ended when   *)
(* main has slept (OrderOK); that the active descriptors are the ones of   *)
(* main's list (KeptOK); and how far a list, run once or begun anew, has   *)
(* changed the keyboard's state (CleanOK).                                 *)
(***************************************************************************)
EXTENDS UsbKeyboard, SequenceTheorems, FiniteSetTheorems, TLAPS

\* The places in memory where the lists have a descriptor: the setup stage,
\* and behind the request the other stages, without a gap.
Later == {\h514, \h520, \h52C, \h538, \h544, \h550, \h55C, \h568, \h574}
Spots == {ListBase} \cup Later

\* The same places as offsets into a list.
Starts == {10, 16, 22, 28, 34, 40, 46, 52, 58}

-----------------------------------------------------------------------------
(* The lists. *)

\* A setup stage opens the list, with a request that begins with q.
Opens(s, q) ==
    /\ s[1] = \h50C /\ s[2] = 8 /\ s[3] \in {\hD0, \h2D0}
    /\ s[5] = \h13 /\ s[6] = \h514 /\ s[7] = q

\* The six words from an offset are an active data or status stage, whose
\* data goes behind e, the end of the list, and whose link stays before it.
Fits(s, o, e) ==
    /\ s[o + 5] = \h13 /\ s[o + 2] <= 8
    /\ s[o + 6] \in Later \cup {0} /\ s[o + 6] < e
    /\ s[o + 3] \in {\h90, \h290, \h210}
    /\ s[o + 2] > 0 => s[o + 1] >= e /\ s[o + 1] >= \h52C

Stage(d, e) == d \in Seq(Word) /\ Len(d) = 6 /\ Fits(d, 0, e)

\* A list of n words as it grows, with e the end of the whole one.
Chain(s, n, e, q) ==
    /\ s \in Seq(Word) /\ Len(s) = n /\ n \in Starts \cup {64}
    /\ Opens(s, q) /\ \h514 < e
    /\ \A o \in Starts : o < n => Fits(s, o, e)

WholeList(s, q) == \E n \in Starts \cup {64} : Chain(s, n, ListBase + 2 * n, q)

\* A list and the stage that follows.
Add(s, d) == s \o d

\* Two pieces in a row.
Split(s, t, u) ==
    /\ u \in Seq(Word) /\ Len(u) = Len(s) + Len(t)
    /\ \A i \in 1..Len(s) : u[i] = s[i]
    /\ \A j \in 1..Len(t) : u[Len(s) + j] = t[j]

LEMMA Joined ==
  ASSUME NEW s \in Seq(Word), NEW t \in Seq(Word)
  PROVE  Split(s, t, s \o t)
<1>. DEFINE m == Len(s)
            n == Len(t)
<1>1. /\ s \o t \in Seq(Word) /\ Len(s \o t) = m + n
      /\ \A i \in 1..m + n : (s \o t)[i] = IF i <= m THEN s[i] ELSE t[i - m]
  BY ConcatProperties, Zenon
<1>2. m \in Nat /\ n \in Nat
  OBVIOUS
<1>. HIDE DEF m, n
<1>3. ASSUME NEW j \in 1..n
      PROVE  (s \o t)[m + j] = t[j]
  <2>1. m + j \in 1..m + n /\ ~(m + j <= m) /\ (m + j) - m = j
    BY <1>2
  <2>. QED BY <1>1, <2>1
<1>4. \A i \in 1..m : (s \o t)[i] = s[i]
  BY <1>1, <1>2
<1>. QED BY <1>1, <1>3, <1>4 DEF Split, m, n

\* The setup stage and its request.
LEMMA SetupWords ==
  ASSUME NEW g \in {\hD0, \h2D0}, NEW r, r \in Seq(Word) /\ Len(r) = 4,
         NEW e \in Nat, \h514 < e, NEW s, s = Setup(g, r)
  PROVE  Chain(s, 10, e, r[1]) /\ s[3] = g
<1>a. PICK d : d = Descriptor(\h50C, 8, g, \h01, \h514)
  OBVIOUS
<1>1. d \in Seq(Word) /\ Len(d) = 6 /\ r \in Seq(Word) /\ Len(r) = 4
  BY <1>a DEF Descriptor, Word
<1>2. /\ d[1] = \h50C /\ d[2] = 8 /\ d[3] = g /\ d[4] = \h01 /\ d[5] = \h13
      /\ d[6] = \h514
  BY <1>a DEF Descriptor
<1>3. s = d \o r
  BY <1>a DEF Setup
<1>4. /\ s \in Seq(Word) /\ Len(s) = 10
      /\ \A i \in 1..6 : s[i] = d[i]
      /\ \A i \in 1..4 : s[6 + i] = r[i]
  <2>1. Split(d, r, s)
    BY <1>1, <1>3, Joined
  <2>. QED BY <1>1, <2>1 DEF Split
<1>5. s[1] = d[1] /\ s[2] = d[2] /\ s[3] = d[3] /\ s[5] = d[5]
      /\ s[6] = d[6] /\ s[7] = r[1]
  <2>1. s[6 + 1] = r[1]
    BY <1>4
  <2>. QED BY <1>4, <2>1
<1>6. Chain(s, 10, e, r[1])
  <2>1. 10 \in Starts
    BY DEF Starts
  <2>2. \A o \in Starts : ~(o < 10)
    BY DEF Starts
  <2>3. Opens(s, r[1])
    BY <1>2, <1>5 DEF Opens
  <2>. QED BY <1>4, <2>1, <2>2, <2>3 DEF Chain
<1>. QED BY <1>2, <1>5, <1>6

\* A list that one more stage is added to.
LEMMA OneMore ==
  ASSUME NEW s, NEW n \in Starts, NEW e \in Nat, NEW q, Chain(s, n, e, q),
         NEW d, Stage(d, e), NEW t, t = Add(s, d), NEW m, m = n + 6
  PROVE  /\ Chain(t, m, e, q)
         /\ \A i \in 1..n : t[i] = s[i]
         /\ \A j \in 1..6 : t[n + j] = d[j]
<1>1. /\ s \in Seq(Word) /\ d \in Seq(Word) /\ Len(s) = n /\ Len(d) = 6
      /\ n \in Nat /\ n >= 10 /\ Fits(d, 0, e)
  BY DEF Chain, Starts, Stage
<1>2. /\ t \in Seq(Word) /\ Len(t) = n + 6
      /\ \A i \in 1..n : t[i] = s[i]
      /\ \A j \in 1..6 : t[n + j] = d[j]
  <2>3. Split(s, d, t)
    BY <1>1, Joined DEF Add
  <2>. QED BY <1>1, <2>3 DEF Split
<1>3. \A i \in 1..n : t[i] = s[i]
  BY <1>2
<1>4. \A j \in 1..6 : t[n + j] = d[j]
  BY <1>2
<1>5. n + 6 \in Starts \cup {64}
  BY DEF Starts
<1>6. Opens(t, q)
  <2>1. Opens(s, q)
    BY DEF Chain
  <2>2. t[1] = s[1] /\ t[2] = s[2] /\ t[3] = s[3] /\ t[5] = s[5] /\ t[6] = s[6] /\ t[7] = s[7]
    BY <1>1, <1>3
  <2>. QED BY <2>1, <2>2 DEF Opens
<1>7. ASSUME NEW o \in Starts, o < n + 6
      PROVE  Fits(t, o, e)
  <2>1. CASE o = n
    <3>1. /\ t[o + 1] = d[0 + 1] /\ t[o + 2] = d[0 + 2] /\ t[o + 3] = d[0 + 3]
          /\ t[o + 5] = d[0 + 5] /\ t[o + 6] = d[0 + 6]
      BY <1>4, <2>1
    <3>2. Fits(d, 0, e)
      BY DEF Stage
    <3>. QED BY <3>1, <3>2 DEF Fits
  <2>2. CASE o # n
    <3>1. o < n /\ o + 6 <= n /\ o \in Nat
      BY <1>7, <2>2 DEF Starts
    <3>2. /\ t[o + 1] = s[o + 1] /\ t[o + 2] = s[o + 2] /\ t[o + 3] = s[o + 3]
          /\ t[o + 5] = s[o + 5] /\ t[o + 6] = s[o + 6]
      <4>1. /\ o + 1 \in 1..n /\ o + 2 \in 1..n /\ o + 3 \in 1..n
            /\ o + 5 \in 1..n /\ o + 6 \in 1..n
        BY <1>1, <3>1
      <4>. QED BY <1>3, <4>1
    <3>3. Fits(s, o, e)
      BY <3>1 DEF Chain
    <3>. QED BY <3>2, <3>3 DEF Fits
  <2>. QED BY <2>1, <2>2
<1>8. Chain(t, n + 6, e, q)
  <2>1. \h514 < e
    BY DEF Chain
  <2>. QED BY <1>2, <1>5, <1>6, <1>7, <2>1 DEF Chain
<1>. QED BY <1>3, <1>4, <1>8

\* The stages that the lists add.
LEMMA StagesFit ==
  ASSUME NEW e \in Nat, \h514 < e
  PROVE  /\ \A b \in Word, l \in 1..8, c \in {\h01, \h41}, k \in Later :
              b >= e /\ b >= \h52C /\ k < e =>
                Stage(DataIn(b, l, c, k), e) /\ DataIn(b, l, c, k)[6] = k
         /\ Stage(StatusOut, e) /\ Stage(StatusIn, e)
         /\ Stage(Descriptor(0, 0, \h90, \h41, 0), e)
<1>1. ASSUME NEW b \in Word, NEW l \in 1..8, NEW c \in {\h01, \h41}, NEW k \in Later,
             b >= e, b >= \h52C, k < e
      PROVE  Stage(DataIn(b, l, c, k), e) /\ DataIn(b, l, c, k)[6] = k
  <2>1. k \in Word
    BY DEF Later, Word
  <2>. DEFINE d == DataIn(b, l, c, k)
  <2>2. d \in Seq(Word) /\ Len(d) = 6
    BY <2>1 DEF DataIn, Descriptor, Word
  <2>3. d[1] = b /\ d[2] = l /\ d[3] = \h290 /\ d[5] = \h13 /\ d[6] = k
    BY DEF DataIn, Descriptor
  <2>. HIDE DEF d
  <2>4. Fits(d, 0, e)
    BY <1>1, <2>3 DEF Fits
  <2>. QED BY <2>2, <2>3, <2>4 DEF d, Stage
<1>2. Stage(StatusOut, e)
  <2>1. StatusOut \in Seq(Word) /\ Len(StatusOut) = 6
    BY DEF StatusOut, Descriptor, Word
  <2>2. StatusOut[2] = 0 /\ StatusOut[3] = \h210 /\ StatusOut[5] = \h13 /\ StatusOut[6] = 0
    BY DEF StatusOut, Descriptor
  <2>. QED BY <2>1, <2>2 DEF Fits, Stage
<1>3. Stage(StatusIn, e)
  <2>1. StatusIn \in Seq(Word) /\ Len(StatusIn) = 6
    BY DEF StatusIn, Descriptor, Word
  <2>2. StatusIn[2] = 0 /\ StatusIn[3] = \h290 /\ StatusIn[5] = \h13 /\ StatusIn[6] = 0
    BY DEF StatusIn, Descriptor
  <2>. QED BY <2>1, <2>2 DEF Fits, Stage
<1>4. Stage(Descriptor(0, 0, \h90, \h41, 0), e)
  <2>. DEFINE d == Descriptor(0, 0, \h90, \h41, 0)
  <2>1. d \in Seq(Word) /\ Len(d) = 6
    BY DEF Descriptor, Word
  <2>2. d[2] = 0 /\ d[3] = \h90 /\ d[5] = \h13 /\ d[6] = 0
    BY DEF Descriptor
  <2>. HIDE DEF d
  <2>3. Fits(d, 0, e)
    BY <2>2 DEF Fits
  <2>. QED BY <2>1, <2>3 DEF Stage, d
<1>. QED BY <1>1, <1>2, <1>3, <1>4

\* The numbers of a data stage that brings a list from n to m words.
DataFits(b, l, c, k, n, m, e) ==
    /\ e \in Nat /\ n \in Starts /\ m = n + 6
    /\ b \in Word /\ l \in 1..8 /\ c \in {\h01, \h41} /\ k \in Later
    /\ e <= b /\ \h52C <= b /\ k < e

LEMMA DataMore ==
  ASSUME NEW s, NEW n, NEW e, NEW q, Chain(s, n, e, q),
         NEW b, NEW l, NEW c, NEW k, NEW m, DataFits(b, l, c, k, n, m, e),
         NEW u, u = Add(s, DataIn(b, l, c, k))
  PROVE  /\ Chain(u, m, e, q) /\ u[m] = k
         /\ \A i \in 1..n : u[i] = s[i]
<1>1. PICK d : d = DataIn(b, l, c, k)
  OBVIOUS
<1>2. Stage(d, e) /\ d[6] = k
  <2>1. \h514 < e
    BY DEF Chain
  <2>. QED BY <1>1, <2>1, StagesFit DEF DataFits
<1>3. /\ Chain(u, m, e, q)
      /\ \A i \in 1..n : u[i] = s[i]
      /\ \A j \in 1..6 : u[n + j] = d[j]
  <2>1. n \in Starts /\ m = n + 6 /\ e \in Nat
    BY DEF DataFits
  <2>. QED BY <1>1, <1>2, <2>1, OneMore
<1>4. m = n + 6
  BY DEF DataFits
<1>. QED BY <1>2, <1>3, <1>4

\* The same of the status stage.
StatusFits(n, m, e) == e \in Nat /\ n \in Starts /\ m = n + 6

LEMMA StatusMore ==
  ASSUME NEW s, NEW n, NEW e, NEW q, Chain(s, n, e, q),
         NEW m, StatusFits(n, m, e),
         NEW d, d = StatusIn \/ d = StatusOut \/ d = Descriptor(0, 0, \h90, \h41, 0),
         NEW u, u = Add(s, d)
  PROVE  /\ Chain(u, m, e, q)
         /\ \A i \in 1..n : u[i] = s[i]
         /\ \A j \in 1..6 : u[n + j] = d[j]
<1>1. \h514 < e
  BY DEF Chain
<1>2. n \in Starts /\ m = n + 6 /\ e \in Nat
  BY DEF StatusFits
<1>3. Stage(d, e)
  BY <1>1, <1>2, StagesFit
<1>. QED BY <1>2, <1>3, OneMore

LEMMA UsbSetAddressWhole ==
  /\ Chain(UsbSetAddress, 16, \h520, \h500) /\ UsbSetAddress[3] = \hD0
  /\ \A j \in 1..6 : UsbSetAddress[10 + j] = Descriptor(0, 0, \h90, \h41, 0)[j]
<1>. DEFINE r == <<\h500, 2, 0, 0>>
<1>1. (r \in Seq(Word) /\ Len(r) = 4) /\ r[1] = \h500
  BY SMT DEF Word
<1>. HIDE DEF r
<1>2. \h520 \in Nat /\ \h514 < \h520
  BY SMT
<1>3. PICK s0 : s0 = Setup(\hD0, r)
  BY SMT
<1>4. Chain(s0, 10, \h520, \h500) /\ s0[3] = \hD0
  BY <1>1, <1>2, <1>3, SetupWords, SMT
<1>5. PICK u : u = Add(s0, Descriptor(0, 0, \h90, \h41, 0))
  BY SMT
<1>6. Chain(u, 16, \h520, \h500) /\ u[3] = \hD0
      /\ \A j \in 1..6 : u[10 + j] = Descriptor(0, 0, \h90, \h41, 0)[j]
  <2>1. StatusFits(10, 16, \h520)
    BY SMT DEF StatusFits, Starts
  <2>. QED BY <1>4, <1>5, <2>1, StatusMore, SMT
<1>7. u = UsbSetAddress
  <2>1. UsbSetAddress =
          Add(Setup(\hD0, <<\h500, 2, 0, 0>>), Descriptor(0, 0, \h90, \h41, 0))
    BY SMT DEF Add, UsbSetAddress
  <2>. QED BY <1>3, <1>5, <2>1, SMT DEF r
<1>. QED BY <1>6, <1>7, SMT

LEMMA UsbGetDeviceDesc1Whole ==
  WholeList(UsbGetDeviceDesc1, \h680)
<1>. DEFINE r == <<\h680, \h100, 0, 8>>
<1>1. (r \in Seq(Word) /\ Len(r) = 4) /\ r[1] = \h680
  BY SMT DEF Word
<1>. HIDE DEF r
<1>2. \h52C \in Nat /\ \h514 < \h52C
  BY SMT
<1>3. PICK s0 : s0 = Setup(\h2D0, r)
  BY SMT
<1>4. Chain(s0, 10, \h52C, \h680)
  BY <1>1, <1>2, <1>3, SetupWords, SMT
<1>5. PICK s1 : s1 = Add(s0, DataIn(\h52C, 8, \h41, \h520))
  BY SMT
<1>6. Chain(s1, 16, \h52C, \h680)
  <2>1. DataFits(\h52C, 8, \h41, \h520, 10, 16, \h52C)
    BY SMT DEF DataFits, Word, Later, Starts
  <2>. QED BY <1>4, <1>5, <2>1, DataMore, SMT
<1>7. PICK u : u = Add(s1, StatusOut)
  BY SMT
<1>8. Chain(u, 22, \h52C, \h680)
  <2>1. StatusFits(16, 22, \h52C)
    BY SMT DEF StatusFits, Starts
  <2>. QED BY <1>6, <1>7, <2>1, StatusMore, SMT
<1>9. u = UsbGetDeviceDesc1
  <2>1. UsbGetDeviceDesc1 =
          Add(Add(Setup(\h2D0, <<\h680, \h100, 0, 8>>),
          DataIn(\h52C, 8, \h41, \h520)), StatusOut)
    BY SMT DEF Add, UsbGetDeviceDesc1
  <2>. QED BY <1>3, <1>5, <1>7, <2>1, SMT DEF r
<1>10. 22 \in Starts \cup {64} /\ \h52C = ListBase + 2 * 22
  BY SMT DEF Starts, ListBase
<1>. QED BY <1>8, <1>9, <1>10, SMT DEF WholeList

LEMMA UsbGetDeviceDesc2Whole ==
  WholeList(UsbGetDeviceDesc2, \h680)
<1>. DEFINE r == <<\h680, \h100, 0, \h12>>
<1>1. (r \in Seq(Word) /\ Len(r) = 4) /\ r[1] = \h680
  BY SMT DEF Word
<1>. HIDE DEF r
<1>2. \h544 \in Nat /\ \h514 < \h544
  BY SMT
<1>3. PICK s0 : s0 = Setup(\h2D0, r)
  BY SMT
<1>4. Chain(s0, 10, \h544, \h680)
  BY <1>1, <1>2, <1>3, SetupWords, SMT
<1>5. PICK s1 : s1 = Add(s0, DataIn(\h544, 8, \h41, \h520))
  BY SMT
<1>6. Chain(s1, 16, \h544, \h680)
  <2>1. DataFits(\h544, 8, \h41, \h520, 10, 16, \h544)
    BY SMT DEF DataFits, Word, Later, Starts
  <2>. QED BY <1>4, <1>5, <2>1, DataMore, SMT
<1>7. PICK s2 : s2 = Add(s1, DataIn(\h54C, 8, \h01, \h52C))
  BY SMT
<1>8. Chain(s2, 22, \h544, \h680)
  <2>1. DataFits(\h54C, 8, \h01, \h52C, 16, 22, \h544)
    BY SMT DEF DataFits, Word, Later, Starts
  <2>. QED BY <1>6, <1>7, <2>1, DataMore, SMT
<1>9. PICK s3 : s3 = Add(s2, DataIn(\h554, 2, \h41, \h538))
  BY SMT
<1>10. Chain(s3, 28, \h544, \h680)
  <2>1. DataFits(\h554, 2, \h41, \h538, 22, 28, \h544)
    BY SMT DEF DataFits, Word, Later, Starts
  <2>. QED BY <1>8, <1>9, <2>1, DataMore, SMT
<1>11. PICK u : u = Add(s3, StatusOut)
  BY SMT
<1>12. Chain(u, 34, \h544, \h680)
  <2>1. StatusFits(28, 34, \h544)
    BY SMT DEF StatusFits, Starts
  <2>. QED BY <1>10, <1>11, <2>1, StatusMore, SMT
<1>13. u = UsbGetDeviceDesc2
  <2>1. UsbGetDeviceDesc2 =
          Add(Add(Add(Add(Setup(\h2D0, <<\h680, \h100, 0, \h12>>),
          DataIn(\h544, 8, \h41, \h520)),
          DataIn(\h54C, 8, \h01, \h52C)),
          DataIn(\h554, 2, \h41, \h538)), StatusOut)
    BY SMT DEF Add, UsbGetDeviceDesc2
  <2>. QED BY <1>3, <1>5, <1>7, <1>9, <1>11, <2>1, SMT DEF r
<1>14. 34 \in Starts \cup {64} /\ \h544 = ListBase + 2 * 34
  BY SMT DEF Starts, ListBase
<1>. QED BY <1>12, <1>13, <1>14, SMT DEF WholeList

LEMMA UsbGetConfigDesc1Whole ==
  WholeList(UsbGetConfigDesc1, \h680)
<1>. DEFINE r == <<\h680, \h200, 0, 9>>
<1>1. (r \in Seq(Word) /\ Len(r) = 4) /\ r[1] = \h680
  BY SMT DEF Word
<1>. HIDE DEF r
<1>2. \h538 \in Nat /\ \h514 < \h538
  BY SMT
<1>3. PICK s0 : s0 = Setup(\h2D0, r)
  BY SMT
<1>4. Chain(s0, 10, \h538, \h680)
  BY <1>1, <1>2, <1>3, SetupWords, SMT
<1>5. PICK s1 : s1 = Add(s0, DataIn(\h544, 8, \h41, \h520))
  BY SMT
<1>6. Chain(s1, 16, \h538, \h680)
  <2>1. DataFits(\h544, 8, \h41, \h520, 10, 16, \h538)
    BY SMT DEF DataFits, Word, Later, Starts
  <2>. QED BY <1>4, <1>5, <2>1, DataMore, SMT
<1>7. PICK s2 : s2 = Add(s1, DataIn(\h54C, 1, \h01, \h52C))
  BY SMT
<1>8. Chain(s2, 22, \h538, \h680)
  <2>1. DataFits(\h54C, 1, \h01, \h52C, 16, 22, \h538)
    BY SMT DEF DataFits, Word, Later, Starts
  <2>. QED BY <1>6, <1>7, <2>1, DataMore, SMT
<1>9. PICK u : u = Add(s2, StatusOut)
  BY SMT
<1>10. Chain(u, 28, \h538, \h680)
  <2>1. StatusFits(22, 28, \h538)
    BY SMT DEF StatusFits, Starts
  <2>. QED BY <1>8, <1>9, <2>1, StatusMore, SMT
<1>11. u = UsbGetConfigDesc1
  <2>1. UsbGetConfigDesc1 =
          Add(Add(Add(Setup(\h2D0, <<\h680, \h200, 0, 9>>),
          DataIn(\h544, 8, \h41, \h520)),
          DataIn(\h54C, 1, \h01, \h52C)), StatusOut)
    BY SMT DEF Add, UsbGetConfigDesc1
  <2>. QED BY <1>3, <1>5, <1>7, <1>9, <2>1, SMT DEF r
<1>12. 28 \in Starts \cup {64} /\ \h538 = ListBase + 2 * 28
  BY SMT DEF Starts, ListBase
<1>. QED BY <1>10, <1>11, <1>12, SMT DEF WholeList

LEMMA UsbGetConfigDesc2Whole ==
  WholeList(UsbGetConfigDesc2, \h680)
<1>. DEFINE r == <<\h680, \h200, 0, \hFF>>
<1>1. (r \in Seq(Word) /\ Len(r) = 4) /\ r[1] = \h680
  BY SMT DEF Word
<1>. HIDE DEF r
<1>2. \h55C \in Nat /\ \h514 < \h55C
  BY SMT
<1>3. PICK s0 : s0 = Setup(\h2D0, r)
  BY SMT
<1>4. Chain(s0, 10, \h55C, \h680)
  BY <1>1, <1>2, <1>3, SetupWords, SMT
<1>5. PICK s1 : s1 = Add(s0, DataIn(\h55C, 8, \h41, \h520))
  BY SMT
<1>6. Chain(s1, 16, \h55C, \h680)
  <2>1. DataFits(\h55C, 8, \h41, \h520, 10, 16, \h55C)
    BY SMT DEF DataFits, Word, Later, Starts
  <2>. QED BY <1>4, <1>5, <2>1, DataMore, SMT
<1>7. PICK s2 : s2 = Add(s1, DataIn(\h564, 8, \h01, \h52C))
  BY SMT
<1>8. Chain(s2, 22, \h55C, \h680)
  <2>1. DataFits(\h564, 8, \h01, \h52C, 16, 22, \h55C)
    BY SMT DEF DataFits, Word, Later, Starts
  <2>. QED BY <1>6, <1>7, <2>1, DataMore, SMT
<1>9. PICK s3 : s3 = Add(s2, DataIn(\h56C, 8, \h41, \h538))
  BY SMT
<1>10. Chain(s3, 28, \h55C, \h680)
  <2>1. DataFits(\h56C, 8, \h41, \h538, 22, 28, \h55C)
    BY SMT DEF DataFits, Word, Later, Starts
  <2>. QED BY <1>8, <1>9, <2>1, DataMore, SMT
<1>11. PICK s4 : s4 = Add(s3, DataIn(\h574, 8, \h01, \h544))
  BY SMT
<1>12. Chain(s4, 34, \h55C, \h680)
  <2>1. DataFits(\h574, 8, \h01, \h544, 28, 34, \h55C)
    BY SMT DEF DataFits, Word, Later, Starts
  <2>. QED BY <1>10, <1>11, <2>1, DataMore, SMT
<1>13. PICK s5 : s5 = Add(s4, DataIn(\h57C, 2, \h41, \h550))
  BY SMT
<1>14. Chain(s5, 40, \h55C, \h680)
  <2>1. DataFits(\h57C, 2, \h41, \h550, 34, 40, \h55C)
    BY SMT DEF DataFits, Word, Later, Starts
  <2>. QED BY <1>12, <1>13, <2>1, DataMore, SMT
<1>15. PICK u : u = Add(s5, StatusOut)
  BY SMT
<1>16. Chain(u, 46, \h55C, \h680)
  <2>1. StatusFits(40, 46, \h55C)
    BY SMT DEF StatusFits, Starts
  <2>. QED BY <1>14, <1>15, <2>1, StatusMore, SMT
<1>17. u = UsbGetConfigDesc2
  <2>1. UsbGetConfigDesc2 =
          Add(Add(Add(Add(Add(Add(Setup(\h2D0, <<\h680, \h200, 0, \hFF>>),
          DataIn(\h55C, 8, \h41, \h520)),
          DataIn(\h564, 8, \h01, \h52C)),
          DataIn(\h56C, 8, \h41, \h538)),
          DataIn(\h574, 8, \h01, \h544)),
          DataIn(\h57C, 2, \h41, \h550)), StatusOut)
    BY SMT DEF Add, UsbGetConfigDesc2
  <2>. QED BY <1>3, <1>5, <1>7, <1>9, <1>11, <1>13, <1>15, <2>1, SMT DEF r
<1>18. 46 \in Starts \cup {64} /\ \h55C = ListBase + 2 * 46
  BY SMT DEF Starts, ListBase
<1>. QED BY <1>16, <1>17, <1>18, SMT DEF WholeList

LEMMA UsbSetConfigWhole ==
  /\ Chain(UsbSetConfig, 16, \h520, \h900) /\ UsbSetConfig[3] = \h2D0
  /\ \A j \in 1..6 : UsbSetConfig[10 + j] = StatusIn[j]
<1>. DEFINE r == <<\h900, 1, 0, 0>>
<1>1. (r \in Seq(Word) /\ Len(r) = 4) /\ r[1] = \h900
  BY SMT DEF Word
<1>. HIDE DEF r
<1>2. \h520 \in Nat /\ \h514 < \h520
  BY SMT
<1>3. PICK s0 : s0 = Setup(\h2D0, r)
  BY SMT
<1>4. Chain(s0, 10, \h520, \h900) /\ s0[3] = \h2D0
  BY <1>1, <1>2, <1>3, SetupWords, SMT
<1>5. PICK u : u = Add(s0, StatusIn)
  BY SMT
<1>6. Chain(u, 16, \h520, \h900) /\ u[3] = \h2D0
      /\ \A j \in 1..6 : u[10 + j] = StatusIn[j]
  <2>1. StatusFits(10, 16, \h520)
    BY SMT DEF StatusFits, Starts
  <2>. QED BY <1>4, <1>5, <2>1, StatusMore, SMT
<1>7. u = UsbSetConfig
  <2>1. UsbSetConfig =
          Add(Setup(\h2D0, <<\h900, 1, 0, 0>>), StatusIn)
    BY SMT DEF Add, UsbSetConfig
  <2>. QED BY <1>3, <1>5, <2>1, SMT DEF r
<1>. QED BY <1>6, <1>7, SMT

LEMMA UsbClassRequestWhole ==
  WholeList(UsbClassRequest, \hA21)
<1>. DEFINE r == <<\hA21, 0, 0, 0>>
<1>1. (r \in Seq(Word) /\ Len(r) = 4) /\ r[1] = \hA21
  BY SMT DEF Word
<1>. HIDE DEF r
<1>2. \h520 \in Nat /\ \h514 < \h520
  BY SMT
<1>3. PICK s0 : s0 = Setup(\h2D0, r)
  BY SMT
<1>4. Chain(s0, 10, \h520, \hA21)
  BY <1>1, <1>2, <1>3, SetupWords, SMT
<1>5. PICK u : u = Add(s0, StatusIn)
  BY SMT
<1>6. Chain(u, 16, \h520, \hA21)
  <2>1. StatusFits(10, 16, \h520)
    BY SMT DEF StatusFits, Starts
  <2>. QED BY <1>4, <1>5, <2>1, StatusMore, SMT
<1>7. u = UsbClassRequest
  <2>1. UsbClassRequest =
          Add(Setup(\h2D0, <<\hA21, 0, 0, 0>>), StatusIn)
    BY SMT DEF Add, UsbClassRequest
  <2>. QED BY <1>3, <1>5, <2>1, SMT DEF r
<1>8. 16 \in Starts \cup {64} /\ \h520 = ListBase + 2 * 16
  BY SMT DEF Starts, ListBase
<1>. QED BY <1>6, <1>7, <1>8, SMT DEF WholeList

LEMMA UsbGetHidDescWhole ==
  WholeList(UsbGetHidDesc, \h681)
<1>. DEFINE r == <<\h681, \h2100, 0, \h7B>>
<1>1. (r \in Seq(Word) /\ Len(r) = 4) /\ r[1] = \h681
  BY SMT DEF Word
<1>. HIDE DEF r
<1>2. \h52C \in Nat /\ \h514 < \h52C
  BY SMT
<1>3. PICK s0 : s0 = Setup(\h2D0, r)
  BY SMT
<1>4. Chain(s0, 10, \h52C, \h681)
  BY <1>1, <1>2, <1>3, SetupWords, SMT
<1>5. PICK s1 : s1 = Add(s0, DataIn(\h544, 8, \h41, \h520))
  BY SMT
<1>6. Chain(s1, 16, \h52C, \h681)
  <2>1. DataFits(\h544, 8, \h41, \h520, 10, 16, \h52C)
    BY SMT DEF DataFits, Word, Later, Starts
  <2>. QED BY <1>4, <1>5, <2>1, DataMore, SMT
<1>7. PICK u : u = Add(s1, StatusOut)
  BY SMT
<1>8. Chain(u, 22, \h52C, \h681)
  <2>1. StatusFits(16, 22, \h52C)
    BY SMT DEF StatusFits, Starts
  <2>. QED BY <1>6, <1>7, <2>1, StatusMore, SMT
<1>9. u = UsbGetHidDesc
  <2>1. UsbGetHidDesc =
          Add(Add(Setup(\h2D0, <<\h681, \h2100, 0, \h7B>>),
          DataIn(\h544, 8, \h41, \h520)), StatusOut)
    BY SMT DEF Add, UsbGetHidDesc
  <2>. QED BY <1>3, <1>5, <1>7, <2>1, SMT DEF r
<1>10. 22 \in Starts \cup {64} /\ \h52C = ListBase + 2 * 22
  BY SMT DEF Starts, ListBase
<1>. QED BY <1>8, <1>9, <1>10, SMT DEF WholeList

LEMMA UsbGetReportDescWhole ==
  WholeList(UsbGetReportDesc, \h681) /\ UsbGetReportDesc[16] = \h520
<1>. DEFINE r == <<\h681, \h2200, 0, \h7B>>
<1>1. (r \in Seq(Word) /\ Len(r) = 4) /\ r[1] = \h681
  BY SMT DEF Word
<1>. HIDE DEF r
<1>2. \h580 \in Nat /\ \h514 < \h580
  BY SMT
<1>3. PICK s0 : s0 = Setup(\h2D0, r)
  BY SMT
<1>4. Chain(s0, 10, \h580, \h681)
  BY <1>1, <1>2, <1>3, SetupWords, SMT
<1>5. PICK s1 : s1 = Add(s0, DataIn(\h580, 8, \h41, \h520))
  BY SMT
<1>6. Chain(s1, 16, \h580, \h681) /\ s1[16] = \h520
  <2>1. DataFits(\h580, 8, \h41, \h520, 10, 16, \h580)
    BY SMT DEF DataFits, Word, Later, Starts
  <2>. QED BY <1>4, <1>5, <2>1, DataMore, SMT
<1>7. PICK s2 : s2 = Add(s1, DataIn(\h588, 8, \h01, \h52C))
  BY SMT
<1>8. Chain(s2, 22, \h580, \h681) /\ s2[16] = \h520
  <2>1. DataFits(\h588, 8, \h01, \h52C, 16, 22, \h580)
    BY SMT DEF DataFits, Word, Later, Starts
  <2>. QED BY <1>6, <1>7, <2>1, DataMore, SMT
<1>9. PICK s3 : s3 = Add(s2, DataIn(\h590, 8, \h41, \h538))
  BY SMT
<1>10. Chain(s3, 28, \h580, \h681) /\ s3[16] = \h520
  <2>1. DataFits(\h590, 8, \h41, \h538, 22, 28, \h580)
    BY SMT DEF DataFits, Word, Later, Starts
  <2>. QED BY <1>8, <1>9, <2>1, DataMore, SMT
<1>11. PICK s4 : s4 = Add(s3, DataIn(\h598, 8, \h01, \h544))
  BY SMT
<1>12. Chain(s4, 34, \h580, \h681) /\ s4[16] = \h520
  <2>1. DataFits(\h598, 8, \h01, \h544, 28, 34, \h580)
    BY SMT DEF DataFits, Word, Later, Starts
  <2>. QED BY <1>10, <1>11, <2>1, DataMore, SMT
<1>13. PICK s5 : s5 = Add(s4, DataIn(\h5A0, 8, \h41, \h550))
  BY SMT
<1>14. Chain(s5, 40, \h580, \h681) /\ s5[16] = \h520
  <2>1. DataFits(\h5A0, 8, \h41, \h550, 34, 40, \h580)
    BY SMT DEF DataFits, Word, Later, Starts
  <2>. QED BY <1>12, <1>13, <2>1, DataMore, SMT
<1>15. PICK s6 : s6 = Add(s5, DataIn(\h5A8, 8, \h01, \h55C))
  BY SMT
<1>16. Chain(s6, 46, \h580, \h681) /\ s6[16] = \h520
  <2>1. DataFits(\h5A8, 8, \h01, \h55C, 40, 46, \h580)
    BY SMT DEF DataFits, Word, Later, Starts
  <2>. QED BY <1>14, <1>15, <2>1, DataMore, SMT
<1>17. PICK s7 : s7 = Add(s6, DataIn(\h5B0, 8, \h41, \h568))
  BY SMT
<1>18. Chain(s7, 52, \h580, \h681) /\ s7[16] = \h520
  <2>1. DataFits(\h5B0, 8, \h41, \h568, 46, 52, \h580)
    BY SMT DEF DataFits, Word, Later, Starts
  <2>. QED BY <1>16, <1>17, <2>1, DataMore, SMT
<1>19. PICK s8 : s8 = Add(s7, DataIn(\h5B8, 3, \h01, \h574))
  BY SMT
<1>20. Chain(s8, 58, \h580, \h681) /\ s8[16] = \h520
  <2>1. DataFits(\h5B8, 3, \h01, \h574, 52, 58, \h580)
    BY SMT DEF DataFits, Word, Later, Starts
  <2>. QED BY <1>18, <1>19, <2>1, DataMore, SMT
<1>21. PICK u : u = Add(s8, StatusOut)
  BY SMT
<1>22. Chain(u, 64, \h580, \h681) /\ u[16] = \h520
  <2>1. StatusFits(58, 64, \h580)
    BY SMT DEF StatusFits, Starts
  <2>. QED BY <1>20, <1>21, <2>1, StatusMore, SMT
<1>23. u = UsbGetReportDesc
  <2>1. UsbGetReportDesc =
          Add(Add(Add(Add(Add(Add(Add(Add(Add(Setup(\h2D0, <<\h681, \h2200, 0, \h7B>>),
          DataIn(\h580, 8, \h41, \h520)),
          DataIn(\h588, 8, \h01, \h52C)),
          DataIn(\h590, 8, \h41, \h538)),
          DataIn(\h598, 8, \h01, \h544)),
          DataIn(\h5A0, 8, \h41, \h550)),
          DataIn(\h5A8, 8, \h01, \h55C)),
          DataIn(\h5B0, 8, \h41, \h568)),
          DataIn(\h5B8, 3, \h01, \h574)), StatusOut)
    BY SMT DEF Add, UsbGetReportDesc
  <2>. QED BY <1>3, <1>5, <1>7, <1>9, <1>11, <1>13, <1>15, <1>17, <1>19, <1>21, <2>1, SMT DEF r
<1>24. 64 \in Starts \cup {64} /\ \h580 = ListBase + 2 * 64
  BY SMT DEF Starts, ListBase
<1>. QED BY <1>22, <1>23, <1>24, SMT DEF WholeList

\* The requests that the lists begin with.
Requests == {\h500, \h680, \h900, \hA21, \h681}

LEMMA EveryList ==
  ASSUME NEW i \in 1..Last
  PROVE  \E q \in Requests : WholeList(Lists[i], q) /\ (i # 1 => q # \h500)
<1>1. /\ Lists[1] = UsbSetAddress /\ Lists[2] = UsbGetDeviceDesc1
      /\ Lists[3] = UsbGetDeviceDesc2 /\ Lists[4] = UsbGetConfigDesc1
      /\ Lists[5] = UsbGetConfigDesc2 /\ Lists[6] = UsbSetConfig
      /\ Lists[7] = UsbClassRequest /\ Lists[8] = UsbGetHidDesc
      /\ Lists[9] = UsbGetReportDesc
  BY SMT DEF Lists, FirstLists, ConfigLists, LastLists
<1>2. i \in {1, 2, 3, 4, 5, 6, 7, 8, 9}
  BY SMT DEF Last
<1>3. WholeList(UsbSetAddress, \h500) /\ WholeList(UsbSetConfig, \h900)
  <2>1. 16 \in Starts \cup {64} /\ \h520 = ListBase + 2 * 16
    BY SMT DEF Starts, ListBase
  <2>. QED BY <2>1, UsbSetAddressWhole, UsbSetConfigWhole, SMT DEF WholeList
<1>4. /\ \h500 \in Requests /\ \h680 \in Requests /\ \h900 \in Requests
      /\ \hA21 \in Requests /\ \h681 \in Requests
  BY SMT DEF Requests
<1>5. CASE i \in {1, 2, 3}
  BY <1>1, <1>3, <1>4, <1>5, UsbGetDeviceDesc1Whole, UsbGetDeviceDesc2Whole, SMT
<1>6. CASE i \in {4, 5, 6}
  BY <1>1, <1>3, <1>4, <1>6, UsbGetConfigDesc1Whole, UsbGetConfigDesc2Whole, SMT
<1>7. CASE i \in {7, 8, 9}
  BY <1>1, <1>4, <1>7, UsbClassRequestWhole, UsbGetHidDescWhole, UsbGetReportDescWhole, SMT
<1>. QED BY <1>2, <1>5, <1>6, <1>7

\* What an active descriptor at an address may hold: the words of its
\* buffer, length, target, state and link.
Live(w) == (w \div 16) % 2 = 1
Sound(at, b, l, t, w, k) == Live(w) =>
    /\ k \in Later \cup {0} /\ l <= 15
    /\ t % 256 = \h90 /\ l > 0 => at # ListBase /\ (b = 0 \/ b >= \h52C)
    /\ t % 256 = \h91 => at = ListBase /\ b = \h51C
    /\ t % 256 = \hD0 => at = ListBase /\ b = \h50C

\* What one that the program has just written holds besides, e being the
\* end of its list.
Clear(b, l, t, k, e) ==
    /\ (t % 256 = \h90 /\ l > 0) \/ t % 256 = \h91 => b >= e
    /\ k < e

\* What the program writes when it sends a list of n words.
Laid(s, n) ==
    /\ s \in Seq(Word) /\ Len(s) = n /\ n \in {6} \cup Starts \cup {64}
    /\ \A o \in {0} \cup Starts : o < n =>
         /\ o + 6 <= n
         /\ Sound(ListBase + 2 * o, s[o + 1], s[o + 2], s[o + 3], s[o + 5], s[o + 6])
         /\ Clear(s[o + 1], s[o + 2], s[o + 3], s[o + 6], ListBase + 2 * n)

LEMMA WholeLaid ==
  ASSUME NEW s, NEW q, WholeList(s, q)
  PROVE  /\ \E n \in Starts \cup {64} : n # 10 /\ Laid(s, n)
         /\ Opens(s, q)
<1>1. PICK n \in Starts \cup {64} : Chain(s, n, ListBase + 2 * n, q)
  BY DEF WholeList
<1>. DEFINE e == ListBase + 2 * n
<1>2. /\ s \in Seq(Word) /\ Len(s) = n /\ Opens(s, q) /\ \h514 < e
      /\ \A o \in Starts : o < n => Fits(s, o, e)
  BY <1>1 DEF Chain
<1>3. e = \h500 + 2 * n
  BY DEF ListBase
<1>. HIDE DEF e
<1>4. Sound(ListBase, s[1], s[2], s[3], s[5], s[6]) /\ Clear(s[1], s[2], s[3], s[6], e)
  BY <1>2, SMT DEF Opens, Sound, Clear, Later
<1>5. ASSUME NEW o \in Starts, o < n
      PROVE  /\ Sound(ListBase + 2 * o, s[o + 1], s[o + 2], s[o + 3], s[o + 5], s[o + 6])
             /\ Clear(s[o + 1], s[o + 2], s[o + 3], s[o + 6], e)
  <2>1. Fits(s, o, e)
    BY <1>2, <1>5
  <2>2. s[o + 2] \in Word
    <3>1. o + 2 \in 1..n
      BY <1>5, SMT DEF Starts
    <3>. QED BY <1>2, <3>1
  <2>3. ListBase + 2 * o # ListBase
    BY SMT DEF ListBase, Starts
  <2>4. \A b, l, t, w, k, at :
           /\ at # ListBase /\ l \in Word /\ l <= 8 /\ k \in Later \cup {0} /\ k < e
           /\ t \in {\h90, \h290, \h210}
           /\ (l > 0 => b >= e /\ b >= \h52C)
           => Sound(at, b, l, t, w, k) /\ Clear(b, l, t, k, e)
    BY SMT DEF Sound, Clear, Word
  <2>. QED BY <2>1, <2>2, <2>3, <2>4, SMT DEF Fits
<1>6. \A o \in {0} \cup Starts : o < n => o + 6 <= n
  BY SMT DEF Starts
<1>7. Laid(s, n)
  <2>1. ASSUME NEW o \in {0} \cup Starts, o < n
        PROVE  /\ Sound(ListBase + 2 * o, s[o + 1], s[o + 2], s[o + 3], s[o + 5], s[o + 6])
               /\ Clear(s[o + 1], s[o + 2], s[o + 3], s[o + 6], e)
    <3>1. CASE o = 0
      <4>1. ListBase + 2 * 0 = ListBase
        BY SMT DEF ListBase
      <4>. QED BY <1>4, <3>1, <4>1
    <3>2. CASE o \in Starts
      BY <1>5, <2>1, <3>2
    <3>. QED BY <3>1, <3>2
  <2>. QED BY <1>2, <1>6, <2>1 DEF Laid, e
<1>8. n # 10
  BY <1>2, <1>3, SMT DEF Starts
<1>. QED BY <1>2, <1>7, <1>8

LEMMA PollLaid ==
  ASSUME NEW t \in 0..1, NEW z \in Nat
  PROVE  /\ Laid(PollList(t, z), 6) /\ PollList(t, z)[3] = \h291
         /\ PollList(t, z)[2] = z % 16
<1>. DEFINE s == PollList(t, z)
            c == IF t = 1 THEN \h01 ELSE \h41
<1>4. z % 16 \in Word /\ z % 16 <= 15
  BY SMT DEF Word
<1>5. /\ s[1] = \h51C /\ s[2] = z % 16 /\ s[3] = \h291 /\ s[5] = \h13 /\ s[6] = 0
  BY DEF PollList, Descriptor
<1>6. s \in Seq(Word) /\ Len(s) = 6
  <2>1. s = <<\h51C, z % 16, \h291, c, \h13, 0>>
    BY SMT DEF PollList, Descriptor
  <2>2. c \in Word
    BY SMT DEF Word
  <2>. HIDE DEF s, c
  <2>. QED BY <1>4, <2>1, <2>2, SMT DEF Word
<1>. HIDE DEF s
<1>7. /\ Sound(ListBase, s[1], s[2], s[3], s[5], s[6])
      /\ Clear(s[1], s[2], s[3], s[6], ListBase + 2 * 6)
  BY <1>4, <1>5, SMT DEF Sound, Clear, ListBase
<1>8. Laid(s, 6)
  <2>1. \A o \in {0} \cup Starts : o < 6 => o = 0
    BY SMT DEF Starts
  <2>2. ListBase + 2 * 0 = ListBase
    BY SMT DEF ListBase
  <2>. QED BY <1>6, <1>7, <2>1, <2>2 DEF Laid
<1>. QED BY <1>5, <1>8 DEF s

-----------------------------------------------------------------------------
(* The memory. *)

LEMMA AddressNumbers ==
  ASSUME NEW a
  PROVE  a \in Addresses <=> a \in Nat /\ \h500 <= a /\ a <= \h5BE /\ a % 2 = 0
BY SMT DEF Addresses, ListBase

LEMMA SpotNumbers ==
  ASSUME NEW b \in Spots
  PROVE  \E o \in {0} \cup Starts : o \in Nat /\ o <= 58 /\ b = ListBase + 2 * o
BY SMT DEF Spots, Later, Starts, ListBase

\* The words of a descriptor have addresses.
LEMMA SpotWords ==
  ASSUME NEW b \in Spots
  PROVE  /\ b \in Addresses /\ b + 2 \in Addresses /\ b + 4 \in Addresses
         /\ b + 6 \in Addresses /\ b + 8 \in Addresses /\ b + 10 \in Addresses
BY AddressNumbers, SMT DEF Spots, Later, ListBase

SameWords(m, m2, b) ==
    /\ m2[b] = m[b] /\ m2[b + 2] = m[b + 2] /\ m2[b + 4] = m[b + 4]
    /\ m2[b + 6] = m[b + 6] /\ m2[b + 8] = m[b + 8] /\ m2[b + 10] = m[b + 10]

SoundAt(m, b) == Sound(b, m[b], m[b + 2], m[b + 4], m[b + 8], m[b + 10])
ClearAt(m, b, e) == Clear(m[b], m[b + 2], m[b + 4], m[b + 10], e)

\* A word that a list puts at an address.
Index(a) == (a - ListBase) \div 2 + 1
ListWord(s, a) == s[Index(a)]

\* A list is written over everything before its end.
LEMMA ListWords ==
  ASSUME NEW m \in [Addresses -> Word], NEW s, NEW n, Laid(s, n),
         NEW m2, m2 = Written(m, ListBase, s)
  PROVE  /\ m2 \in [Addresses -> Word]
         /\ \A a \in Addresses :
              m2[a] = IF a < ListBase + 2 * n THEN ListWord(s, a) ELSE m[a]
<1>1. s \in Seq(Word) /\ Len(s) = n /\ n \in Nat
  BY SMT DEF Laid, Starts
<1>2. DOMAIN m = Addresses /\ \A a \in Addresses : m[a] \in Word
  OBVIOUS
<1>3. m2 = [a \in Addresses |-> IF a >= ListBase /\ a < ListBase + 2 * n
                                THEN ListWord(s, a) ELSE m[a]]
  BY <1>1, <1>2, SMT DEF Written, ListWord, Index
<1>4. ASSUME NEW a \in Addresses
      PROVE  /\ m2[a] = IF a < ListBase + 2 * n THEN ListWord(s, a) ELSE m[a]
             /\ m2[a] \in Word
  <2>1. a \in Nat /\ \h500 <= a /\ a % 2 = 0
    BY AddressNumbers
  <2>2. a >= ListBase
    BY <2>1, SMT DEF ListBase
  <2>3. m2[a] = IF a < ListBase + 2 * n THEN ListWord(s, a) ELSE m[a]
    BY <1>3, <2>2
  <2>4. ASSUME a < ListBase + 2 * n
        PROVE  ListWord(s, a) \in Word
    <3>1. Index(a) \in 1..n
      BY <1>1, <2>1, <2>4, SMT DEF ListBase, Index
    <3>. QED BY <1>1, <3>1 DEF ListWord
  <2>. QED BY <1>2, <2>3, <2>4
<1>5. m2 \in [Addresses -> Word]
  BY <1>3, <1>4, Zenon
<1>. QED BY <1>4, <1>5

LEMMA Rewritten ==
  ASSUME NEW m \in [Addresses -> Word], NEW s, NEW n, Laid(s, n),
         NEW m2, m2 = Written(m, ListBase, s)
  PROVE  \A b \in Spots :
           /\ b < ListBase + 2 * n => SoundAt(m2, b) /\ ClearAt(m2, b, ListBase + 2 * n)
           /\ b >= ListBase + 2 * n => SameWords(m, m2, b)
<1>1. /\ n \in Nat
      /\ \A o \in {0} \cup Starts : o < n =>
           /\ o + 6 <= n
           /\ Sound(ListBase + 2 * o, s[o + 1], s[o + 2], s[o + 3], s[o + 5], s[o + 6])
           /\ Clear(s[o + 1], s[o + 2], s[o + 3], s[o + 6], ListBase + 2 * n)
  BY SMT DEF Laid, Starts
<1>2. \A a \in Addresses :
         m2[a] = IF a < ListBase + 2 * n THEN ListWord(s, a) ELSE m[a]
  BY ListWords
<1>3. ASSUME NEW b \in Spots
      PROVE  /\ b < ListBase + 2 * n => SoundAt(m2, b) /\ ClearAt(m2, b, ListBase + 2 * n)
             /\ b >= ListBase + 2 * n => SameWords(m, m2, b)
  <2>1. PICK o \in {0} \cup Starts : o \in Nat /\ o <= 58 /\ b = ListBase + 2 * o
    BY SpotNumbers
  <2>2. /\ b \in Addresses /\ b + 2 \in Addresses /\ b + 4 \in Addresses
        /\ b + 6 \in Addresses /\ b + 8 \in Addresses /\ b + 10 \in Addresses
    BY SpotWords
  <2>3. ASSUME b < ListBase + 2 * n
        PROVE  SoundAt(m2, b) /\ ClearAt(m2, b, ListBase + 2 * n)
    <3>1. o < n /\ o + 6 <= n
      BY <1>1, <2>1, <2>3, SMT DEF ListBase
    <3>2. /\ b + 2 < ListBase + 2 * n /\ b + 4 < ListBase + 2 * n
          /\ b + 8 < ListBase + 2 * n /\ b + 10 < ListBase + 2 * n
          /\ Index(b) = o + 1 /\ Index(b + 2) = o + 2 /\ Index(b + 4) = o + 3
          /\ Index(b + 8) = o + 5 /\ Index(b + 10) = o + 6
      BY <1>1, <2>1, <3>1, SMT DEF ListBase, Index
    <3>3. /\ ListWord(s, b) = s[o + 1] /\ ListWord(s, b + 2) = s[o + 2]
          /\ ListWord(s, b + 4) = s[o + 3] /\ ListWord(s, b + 8) = s[o + 5]
          /\ ListWord(s, b + 10) = s[o + 6]
      BY <3>2 DEF ListWord
    <3>4. /\ m2[b] = s[o + 1] /\ m2[b + 2] = s[o + 2] /\ m2[b + 4] = s[o + 3]
          /\ m2[b + 8] = s[o + 5] /\ m2[b + 10] = s[o + 6]
      BY <1>2, <2>2, <2>3, <3>2, <3>3
    <3>. QED BY <1>1, <2>1, <3>1, <3>4 DEF SoundAt, ClearAt
  <2>4. ASSUME b >= ListBase + 2 * n
        PROVE  SameWords(m, m2, b)
    <3>1. /\ ~(b < ListBase + 2 * n) /\ ~(b + 2 < ListBase + 2 * n)
          /\ ~(b + 4 < ListBase + 2 * n) /\ ~(b + 6 < ListBase + 2 * n)
          /\ ~(b + 8 < ListBase + 2 * n) /\ ~(b + 10 < ListBase + 2 * n)
      BY <1>1, <2>1, <2>4, SMT DEF ListBase
    <3>. QED BY <1>2, <2>2, <3>1 DEF SameWords
  <2>. QED BY <2>3, <2>4
<1>. QED BY <1>3

LEMMA EndpointWritten ==
  ASSUME NEW m \in [Addresses -> Word], NEW m2, m2 = Written(m, EndpointAt, EndpointWords)
  PROVE  /\ m2 \in [Addresses -> Word]
         /\ \A a \in Addresses : a < EndpointAt \/ a > EndpointAt + 8 => m2[a] = m[a]
         /\ m2[SizeWord] = 8 /\ m2[EndpointAt + 8] = \hAC0A
<1>. DEFINE x(a) == (a - EndpointAt) \div 2 + 1
            w(a) == EndpointWords[x(a)]
            n == Len(EndpointWords)
<1>1. /\ EndpointWords[1] = \h73F /\ EndpointWords[2] = \h8105 /\ EndpointWords[3] = 3
      /\ EndpointWords[4] = 8 /\ EndpointWords[5] = \hAC0A
  BY DEF EndpointWords
<1>2. n = 5
  BY DEF EndpointWords
<1>. HIDE DEF n
<1>3. DOMAIN m = Addresses /\ \A a \in Addresses : m[a] \in Word
  OBVIOUS
<1>4. m2 = [a \in Addresses |-> IF a >= EndpointAt /\ a < EndpointAt + 2 * n
                                THEN w(a) ELSE m[a]]
  BY <1>3, Zenon DEF Written, n
<1>5. EndpointAt = \h576 /\ SizeWord = \h57C
  BY DEF EndpointAt, SizeWord
<1>6. ASSUME NEW a \in Addresses, a >= EndpointAt, a < EndpointAt + 2 * n
      PROVE  w(a) \in Word
  <2>1. x(a) \in {1, 2, 3, 4, 5}
    BY <1>2, <1>5, <1>6, AddressNumbers, SMT
  <2>. HIDE DEF x
  <2>. QED BY <1>1, <2>1, SMT DEF Word
<1>7. m2 \in [Addresses -> Word]
  BY <1>3, <1>4, <1>6, Zenon
<1>8. \A a \in Addresses : a < EndpointAt \/ a > EndpointAt + 8 => m2[a] = m[a]
  <2>1. \A a \in Addresses : a < EndpointAt \/ a > EndpointAt + 8
                               => ~(a >= EndpointAt /\ a < EndpointAt + 2 * n)
    BY <1>2, <1>5, AddressNumbers, SMT
  <2>. QED BY <1>4, <2>1, Zenon
<1>9. m2[SizeWord] = 8 /\ m2[EndpointAt + 8] = \hAC0A
  <2>1. /\ SizeWord \in Addresses /\ EndpointAt + 8 \in Addresses
        /\ SizeWord >= EndpointAt /\ SizeWord < EndpointAt + 2 * n
        /\ EndpointAt + 8 >= EndpointAt /\ EndpointAt + 8 < EndpointAt + 2 * n
        /\ x(SizeWord) = 4 /\ x(EndpointAt + 8) = 5
    BY <1>2, <1>5, AddressNumbers, SMT
  <2>2. m2[SizeWord] = w(SizeWord) /\ m2[EndpointAt + 8] = w(EndpointAt + 8)
    BY <1>4, <2>1, Zenon
  <2>. HIDE DEF x
  <2>3. w(SizeWord) = 8 /\ w(EndpointAt + 8) = \hAC0A
    BY <1>1, <2>1, SMT
  <2>. HIDE DEF w
  <2>. QED BY <2>2, <2>3, SMT
<1>. QED BY <1>7, <1>8, <1>9

\* What the chip may do to the memory when it has executed the descriptor
\* td at an address, r being the report that waits.
Rest(v, w, td, r, a) ==
    \/ w = v
    \/ /\ IsData(td) /\ a >= \h52C
       /\ w = 0 \/ (a = ProtocolWord /\ w = 1) \/ (a = SizeWord /\ w = \hA00)
    \/ /\ IsPoll(td) /\ a >= \h51C /\ a <= \h52A
       /\ w = 0 \/ (a = KeyWord /\ w = r)
Worn(m, m2, at, td, r) ==
    /\ \A a \in Addresses : \/ Rest(m[a], m2[a], td, r, a)
                            \/ a = at + 8 /\ m2[a] \in {0, 2, 3}
    /\ m2[KeyWord] = m[KeyWord] \/ m2[KeyWord - 2] \in {0, 2, 3}

\* The descriptor in execution.
RunSound ==
    /\ run.at \in Spots \cup {EndpointAt}
    /\ run.td[1] \in Word /\ run.td[2] \in Word
    /\ Sound(run.at, run.td[1], run.td[2], run.td[3], run.td[5], run.td[6])
    /\ run.at = EndpointAt => ~Live(run.td[5])

LEMMA KeyElsewhere ==
  ASSUME NEW b \in Spots
  PROVE  KeyWord # b + 8 /\ KeyWord \in Addresses /\ KeyWord - 2 \in Addresses
BY AddressNumbers, SMT DEF KeyWord, Spots, Later, ListBase

LEMMA RestKeepsKey ==
  ASSUME NEW td, NEW v, NEW w, NEW r, Rest(v, w, td, r, KeyWord), ~IsPoll(td)
  PROVE  w = v
BY SMT DEF Rest, KeyWord

LEMMA ResultWorn ==
  ASSUME NEW m \in [Addresses -> Word], NEW f \in [Addresses -> Word],
         NEW v \in {0, 2, 3}, run.at \in Spots, NEW m2, m2 = Result(f, v), NEW r,
         Worn(m, f, run.at, run.td, r)
  PROVE  /\ m2 \in [Addresses -> Word]
         /\ Worn(m, m2, run.at, run.td, r)
         /\ m2[run.at + 8] = v
         /\ \A a \in Addresses : a # run.at + 8 => m2[a] = f[a]
<1>1. m2 = [f EXCEPT ![run.at + 8] = v]
  BY DEF Result
<1>2. run.at + 8 \in Addresses
  BY SpotWords
<1>3. v \in Word
  BY SMT DEF Word
<1>4. \A a \in Addresses : a # run.at + 8 => m2[a] = f[a]
  BY <1>1
<1>5. m2[run.at + 8] = v /\ m2 \in [Addresses -> Word]
  BY <1>1, <1>2, <1>3
<1>6. \A a \in Addresses : \/ Rest(m[a], m2[a], run.td, r, a)
                           \/ a = run.at + 8 /\ m2[a] \in {0, 2, 3}
  <2>1. \A a \in Addresses : a # run.at + 8 => Rest(m[a], m2[a], run.td, r, a)
    BY <1>4, Zenon DEF Worn
  <2>. QED BY <1>5, <2>1, Zenon
<1>7. m2[KeyWord] = m[KeyWord] \/ m2[KeyWord - 2] \in {0, 2, 3}
  <2>1. m2[KeyWord] = f[KeyWord]
    BY <1>4, KeyElsewhere
  <2>2. m2[KeyWord - 2] = v \/ m2[KeyWord - 2] = f[KeyWord - 2]
    BY <1>4, <1>5, KeyElsewhere
  <2>3. f[KeyWord] = m[KeyWord] \/ f[KeyWord - 2] \in {0, 2, 3}
    BY Zenon DEF Worn
  <2>. QED BY <2>1, <2>2, <2>3, Zenon
<1>8. Worn(m, m2, run.at, run.td, r)
  BY <1>6, <1>7, Zenon DEF Worn
<1>. QED BY <1>4, <1>5, <1>8

LEMMA DataReceived ==
  ASSUME mem \in [Addresses -> Word], RunSound, Active(run.td),
         NEW f, f = Received(run.td), NEW r
  PROVE  /\ f \in [Addresses -> Word]
         /\ Worn(mem, f, run.at, run.td, r)
         /\ ~IsData(run.td) => f = mem
<1>. DEFINE td == run.td
<1>1. CASE ~IsData(td)
  <2>1. f = mem
    BY <1>1 DEF Received
  <2>2. Worn(mem, mem, run.at, run.td, r)
    BY SMT DEF Worn, Rest
  <2>. QED BY <2>1, <2>2, Zenon
<1>2. CASE IsData(td)
  <2>1. f = [a \in Addresses |-> IF a >= td[1] /\ a < td[1] + td[2]
                                 THEN DescriptorWord(td, a) ELSE mem[a]]
    BY <1>2, Zenon DEF Received, Stored, Length
  <2>2. /\ td[1] \in Word /\ td[2] \in Word /\ td[2] <= 15
        /\ td[1] = 0 \/ td[1] >= \h52C
    <3>1. Live(td[5])
      BY DEF Active, Live
    <3>2. td[3] % 256 = \h90 /\ td[2] > 0
      BY <1>2 DEF IsData, Length
    <3>. QED BY <3>1, <3>2, SMT DEF RunSound, Sound
  <2>3. ASSUME NEW a \in Addresses
        PROVE  f[a] \in Word /\ Rest(mem[a], f[a], td, r, a)
    <3>1. a \in Nat /\ a >= \h500
      BY AddressNumbers
    <3>2. CASE a >= td[1] /\ a < td[1] + td[2]
      <4>1. a >= \h52C
        BY <2>2, <3>1, <3>2, SMT DEF Word
      <4>2. f[a] = DescriptorWord(td, a)
        BY <2>1, <3>2, Zenon
      <4>3. \/ f[a] = 0
            \/ a = ProtocolWord /\ f[a] = 1
            \/ a = SizeWord /\ f[a] = \hA00
        BY <4>2, SMT DEF DescriptorWord
      <4>4. 0 \in Word /\ 1 \in Word /\ \hA00 \in Word
        BY SMT DEF Word
      <4>. QED BY <1>2, <4>1, <4>3, <4>4, SMT DEF Rest
    <3>3. CASE ~(a >= td[1] /\ a < td[1] + td[2])
      <4>1. f[a] = mem[a]
        BY <2>1, <3>3, Zenon
      <4>. QED BY <4>1, SMT DEF Rest
    <3>. QED BY <3>2, <3>3
  <2>4. f \in [Addresses -> Word]
    BY <2>1, <2>3, Zenon
  <2>5. Worn(mem, f, run.at, td, r)
    <3>1. ~IsPoll(td)
      BY <1>2, SMT DEF IsData, IsPoll
    <3>2. KeyWord \in Addresses
      BY AddressNumbers, SMT DEF KeyWord
    <3>3. f[KeyWord] = mem[KeyWord]
      BY <2>3, <3>1, <3>2, RestKeepsKey
    <3>. QED BY <2>3, <3>3, Zenon DEF Worn
  <2>. QED BY <1>2, <2>4, <2>5
<1>. QED BY <1>1, <1>2

StoredReport(td, r) == Stored(td, LAMBDA a : IF a = td[1] + 2 THEN r ELSE 0)

LEMMA ReportReceived ==
  ASSUME mem \in [Addresses -> Word], RunSound, Active(run.td), IsPoll(run.td),
         NEW r \in Word, NEW f, f = StoredReport(run.td, r)
  PROVE  /\ f \in [Addresses -> Word]
         /\ Worn(mem, f, run.at, run.td, r)
         /\ f[KeyWord] = IF Length(run.td) > 2 THEN r ELSE mem[KeyWord]
<1>. DEFINE td == run.td
<1>1. f = [a \in Addresses |-> IF a >= td[1] /\ a < td[1] + td[2]
                               THEN (IF a = td[1] + 2 THEN r ELSE 0) ELSE mem[a]]
  BY Zenon DEF StoredReport, Stored, Length
<1>2. td[1] = \h51C /\ td[2] \in Word /\ td[2] <= 15
  <2>1. Live(td[5])
    BY DEF Active, Live
  <2>2. td[3] % 256 = \h91
    BY DEF IsPoll
  <2>. QED BY <2>1, <2>2, SMT DEF RunSound, Sound
<1>3. ASSUME NEW a \in Addresses
      PROVE  f[a] \in Word /\ Rest(mem[a], f[a], td, r, a)
  <2>1. a \in Nat
    BY AddressNumbers
  <2>2. CASE a >= td[1] /\ a < td[1] + td[2]
    <3>1. a >= \h51C /\ a <= \h52A
      BY <1>2, <2>1, <2>2, AddressNumbers, SMT DEF Word
    <3>2. f[a] = IF a = td[1] + 2 THEN r ELSE 0
      BY <1>1, <2>2, Zenon
    <3>3. f[a] = 0 \/ (a = KeyWord /\ f[a] = r)
      BY <1>2, <3>2, SMT DEF KeyWord
    <3>4. 0 \in Word
      BY SMT DEF Word
    <3>. QED BY <3>1, <3>3, <3>4, SMT DEF Rest
  <2>3. CASE ~(a >= td[1] /\ a < td[1] + td[2])
    <3>1. f[a] = mem[a]
      BY <1>1, <2>3, Zenon
    <3>. QED BY <3>1, SMT DEF Rest
  <2>. QED BY <2>2, <2>3
<1>4. f \in [Addresses -> Word]
  BY <1>1, <1>3, Zenon
<1>6. f[KeyWord] = IF Length(td) > 2 THEN r ELSE mem[KeyWord]
  <2>1. KeyWord \in Addresses /\ KeyWord = td[1] + 2
    BY <1>2, AddressNumbers, SMT DEF KeyWord
  <2>2. Length(td) > 2 <=> KeyWord >= td[1] /\ KeyWord < td[1] + td[2]
    BY <1>2, SMT DEF Length, KeyWord, Word
  <2>. QED BY <1>1, <2>1, <2>2, Zenon
<1>7. Length(td) > 2 => f[KeyWord - 2] = 0
  <2>1. KeyWord - 2 \in Addresses /\ KeyWord - 2 = td[1] /\ td[1] # td[1] + 2
    BY <1>2, AddressNumbers, SMT DEF KeyWord
  <2>2. Length(td) > 2 => KeyWord - 2 >= td[1] /\ KeyWord - 2 < td[1] + td[2]
    BY <1>2, SMT DEF Length, KeyWord, Word
  <2>. QED BY <1>1, <2>1, <2>2, Zenon
<1>8. Worn(mem, f, run.at, td, r)
  <2>1. f[KeyWord] = mem[KeyWord] \/ f[KeyWord - 2] \in {0, 2, 3}
    BY <1>6, <1>7, Zenon
  <2>. QED BY <1>3, <2>1, Zenon DEF Worn
<1>. QED BY <1>4, <1>6, <1>8

-----------------------------------------------------------------------------
(* What the chip does when it has executed a descriptor. *)

Done == Complete \/ Nak
Posted ==
    /\ msgFlag' = TRUE /\ msg' \in {"done", "mixed"}
    /\ msg \in {"none", "done"} => msg' = "done"

LEMMA PostFacts ==
  ASSUME Post("done")
  PROVE  Posted
BY DEF Post, Posted, Merges

LEMMA DoneControl ==
  ASSUME Done
  PROVE  /\ run # NoRun /\ run' = NoRun
         /\ UNCHANGED <<mail, mailFlag, command>>
         /\ ptr' = ptr \/ (ptr = 0 /\ Active(run.td) /\ ptr' = run.td[6])
         /\ Silent \/ Posted
<1>1. ASSUME NEW td, NextDescriptor(td)
      PROVE  /\ ptr' = ptr \/ (ptr = 0 /\ ptr' = td[6])
             /\ Silent \/ Posted
  BY <1>1, PostFacts DEF NextDescriptor, GoesOn, ListEnds
<1>2. ASSUME ListEnds
      PROVE  ptr' = ptr /\ Posted
  BY <1>2, PostFacts DEF ListEnds
<1>3. CASE CompleteInactive
  BY <1>3, PostFacts DEF Done, Complete, Nak, CompleteInactive, CompleteNak
<1>4. CASE CompleteControl
  BY <1>1, <1>4 DEF Done, Complete, Nak, CompleteControl, CompleteNak
<1>5. CASE CompleteRetried
  BY <1>5 DEF Done, Complete, Nak, CompleteRetried, CompleteNak, Silent
<1>6. CASE CompleteReport
  BY <1>2, <1>6 DEF Done, Complete, Nak, CompleteReport, CompleteNak
<1>7. CASE CompleteFailed
  BY <1>2, <1>7, PostFacts DEF Done, Complete, Nak, CompleteFailed, CompleteNak
<1>8. CASE CompleteNak
  BY <1>2, <1>8 DEF Done, Complete, Nak, CompleteNak
<1>. QED BY <1>3, <1>4, <1>5, <1>6, <1>7, <1>8 DEF Done, Complete, Nak

\* The buffer of the report and what the program keeps of it.
KeyStored ==
    \/ mem'[KeyWord] = mem[KeyWord] /\ delivered' = delivered
    \/ /\ Active(run.td) /\ IsPoll(run.td) /\ report \in Reports
       /\ mem'[KeyWord] = report /\ delivered' = report

LEMMA ReportsAreWords ==
  \A r \in Reports : r \in Word /\ r % 256 = r /\ r \in 0..255
BY KeysAssumption, SMT DEF Reports, Word

LEMMA DoneMemory ==
  ASSUME mem \in [Addresses -> Word], report \in Reports \cup {NoReport},
         run = NoRun \/ RunSound, Done
  PROVE  /\ mem' \in [Addresses -> Word]
         /\ Worn(mem, mem', run.at, run.td, report)
         /\ Active(run.td) => run.at \in Spots /\ mem'[run.at + 8] \in {0, 2, 3}
         /\ ~Active(run.td) => mem' = mem
         /\ ~IsData(run.td) /\ ~IsPoll(run.td) =>
              \A a \in Addresses : a # run.at + 8 => mem'[a] = mem[a]
         /\ KeyStored
<1>1. RunSound
  BY DoneControl
<1>2. Active(run.td) => run.at \in Spots
  BY <1>1 DEF RunSound, Active, Live
<1>3. Worn(mem, mem, run.at, run.td, report)
  BY SMT DEF Worn, Rest
<1>4. CASE ~Active(run.td)
  <2>1. mem' = mem /\ delivered' = delivered
    BY <1>4 DEF Done, Complete, Nak, CompleteInactive, CompleteControl,
         CompleteRetried, CompleteReport, CompleteFailed, CompleteNak, IsPoll, busVars
  <2>. QED BY <1>3, <1>4, <2>1 DEF KeyStored
<1>5. CASE Active(run.td)
  <2>1. KeyWord # run.at + 8 /\ KeyWord \in Addresses
    BY <1>2, <1>5, KeyElsewhere
  <2>2. ASSUME NEW f \in [Addresses -> Word], NEW v \in {0, 2, 3}, mem' = Result(f, v),
               Worn(mem, f, run.at, run.td, report)
        PROVE  /\ mem' \in [Addresses -> Word]
               /\ Worn(mem, mem', run.at, run.td, report)
               /\ mem'[run.at + 8] \in {0, 2, 3}
               /\ \A a \in Addresses : a # run.at + 8 => mem'[a] = f[a]
    BY <1>2, <1>5, <2>2, ResultWorn
  <2>3. ASSUME NEW v \in {0, 2, 3}, mem' = Result(mem, v), delivered' = delivered
        PROVE  /\ mem' \in [Addresses -> Word]
               /\ Worn(mem, mem', run.at, run.td, report)
               /\ mem'[run.at + 8] \in {0, 2, 3}
               /\ \A a \in Addresses : a # run.at + 8 => mem'[a] = mem[a]
               /\ KeyStored
    <3>2. /\ mem' \in [Addresses -> Word]
          /\ Worn(mem, mem', run.at, run.td, report)
          /\ mem'[run.at + 8] \in {0, 2, 3}
          /\ \A a \in Addresses : a # run.at + 8 => mem'[a] = mem[a]
      BY <1>3, <2>2, <2>3
    <3>. QED BY <2>1, <2>3, <3>2 DEF KeyStored
  <2>4. CASE CompleteControl
    <3>1. PICK f : f = Received(run.td)
      OBVIOUS
    <3>2. /\ f \in [Addresses -> Word]
          /\ Worn(mem, f, run.at, run.td, report)
          /\ ~IsData(run.td) => f = mem
      BY <1>1, <1>5, <3>1, DataReceived
    <3>3. mem' = Result(f, 3) /\ delivered' = delivered /\ ~IsPoll(run.td)
      BY <2>4, <3>1 DEF CompleteControl
    <3>4. /\ mem' \in [Addresses -> Word]
          /\ Worn(mem, mem', run.at, run.td, report)
          /\ mem'[run.at + 8] \in {0, 2, 3}
          /\ \A a \in Addresses : a # run.at + 8 => mem'[a] = f[a]
      BY <2>2, <3>2, <3>3
    <3>5. Rest(mem[KeyWord], mem'[KeyWord], run.td, report, KeyWord)
      BY <2>1, <3>4 DEF Worn
    <3>6. KeyStored
      BY <3>3, <3>5, RestKeepsKey DEF KeyStored
    <3>. QED BY <1>2, <1>5, <3>2, <3>4, <3>6
  <2>5. CASE CompleteRetried
    BY <1>2, <1>5, <2>3, <2>5 DEF CompleteRetried
  <2>6. CASE CompleteReport
    <3>1. PICK f : f = StoredReport(run.td, report)
      OBVIOUS
    <3>2. IsPoll(run.td) /\ report \in Reports /\ report \in Word
      <4>1. IsPoll(run.td) /\ report # NoReport
        BY <2>6, Zenon DEF CompleteReport
      <4>. QED BY <4>1, ReportsAreWords
    <3>3. /\ f \in [Addresses -> Word]
          /\ Worn(mem, f, run.at, run.td, report)
          /\ f[KeyWord] = IF Length(run.td) > 2 THEN report ELSE mem[KeyWord]
      BY <1>1, <1>5, <3>1, <3>2, ReportReceived
    <3>4. /\ mem' = Result(f, 3)
          /\ delivered' = IF Length(run.td) > 2 THEN report ELSE delivered
      BY <2>6, <3>1, Zenon DEF CompleteReport, StoredReport
    <3>5. /\ mem' \in [Addresses -> Word]
          /\ Worn(mem, mem', run.at, run.td, report)
          /\ mem'[run.at + 8] \in {0, 2, 3}
          /\ \A a \in Addresses : a # run.at + 8 => mem'[a] = f[a]
      BY <2>2, <3>3, <3>4
    <3>6. KeyStored
      BY <1>5, <2>1, <3>2, <3>3, <3>4, <3>5 DEF KeyStored
    <3>. QED BY <1>2, <1>5, <3>2, <3>5, <3>6
  <2>7. CASE CompleteFailed
    BY <1>2, <1>5, <2>3, <2>7 DEF CompleteFailed, busVars
  <2>8. CASE CompleteNak
    BY <1>2, <1>5, <2>3, <2>8 DEF CompleteNak, busVars
  <2>9. CompleteControl \/ CompleteRetried \/ CompleteReport \/ CompleteFailed \/ CompleteNak
    BY <1>5 DEF Done, Complete, Nak, CompleteInactive
  <2>. QED BY <2>4, <2>5, <2>6, <2>7, <2>8, <2>9
<1>. QED BY <1>4, <1>5

-----------------------------------------------------------------------------
(* What is in the memory, whatever happens. *)

MemoryOK ==
    /\ mem \in [Addresses -> Word]
    /\ \A b \in Spots : SoundAt(mem, b)
    /\ ptr \in Spots \cup {0, EndpointAt}
    /\ ptr = EndpointAt => ~Live(mem[EndpointAt + 8])
    /\ run = NoRun \/ RunSound

\* Values that make no descriptor active.
LEMMA NotLive ==
  /\ ~Live(0) /\ ~Live(1) /\ ~Live(2) /\ ~Live(3) /\ ~Live(8) /\ ~Live(\hA00)
  /\ ~Live(\hAC0A) /\ Live(\h13)
BY SMT DEF Live

LEMMA EndpointNumbers ==
  /\ EndpointAt \in Addresses /\ EndpointAt + 8 \in Addresses
  /\ EndpointAt \notin Spots /\ EndpointAt # 0 /\ ListBase # 0 /\ ListBase # EndpointAt
  /\ ListBase \in Spots /\ Spots \subseteq Addresses /\ 0 \notin Spots
  /\ Later \subseteq Spots /\ ListBase \notin Later /\ 0 \notin Later
  /\ EndpointAt + 8 \notin {b + 8 : b \in Spots}
BY AddressNumbers, SMT DEF EndpointAt, Spots, Later, ListBase

\* What the chip stores in a word that is none of the three it looks at.
LEMMA RestWord ==
  ASSUME NEW td, NEW v, NEW w, NEW r, NEW a, Rest(v, w, td, r, a),
         a # ProtocolWord, a # SizeWord, a # KeyWord
  PROVE  w = v \/ (w = 0 /\ a # ListBase)
BY SMT DEF Rest, ListBase

LEMMA SpotGaps ==
  ASSUME NEW b \in Spots, NEW c \in Spots
  PROVE  /\ \A a \in {b, b + 2, b + 4, b + 10} : a # c + 8
         /\ \A a \in {b, b + 2, b + 10} : a # ProtocolWord /\ a # SizeWord
         /\ \A a \in {b, b + 2, b + 4, b + 8} : a # KeyWord
         /\ b + 10 = KeyWord => b + 8 = KeyWord - 2
         /\ b + 4 # SizeWord /\ b + 8 # ProtocolWord
BY SMT DEF Spots, Later, ListBase, ProtocolWord, SizeWord, KeyWord

LEMMA SoundLess ==
  ASSUME NEW at, NEW b, NEW l, NEW t, NEW w, NEW k, Sound(at, b, l, t, w, k),
         NEW b2, NEW l2, NEW t2, NEW k2,
         b2 = b \/ (b2 = 0 /\ at # ListBase),
         l2 = l \/ l2 = 0, t2 = t \/ t2 = 0 \/ t2 = 1, k2 = k \/ k2 = 0
  PROVE  Sound(at, b2, l2, t2, w, k2)
BY SMT DEF Sound

\* Only a descriptor that is active has to be sound.
LEMMA SoundIfLive ==
  ASSUME NEW m, NEW b, Live(m[b + 8]) => SoundAt(m, b)
  PROVE  SoundAt(m, b)
BY SMT DEF SoundAt, Sound

\* What the chip leaves of a sound descriptor is sound.
LEMMA WornSound ==
  ASSUME NEW m \in [Addresses -> Word], NEW m2 \in [Addresses -> Word],
         NEW at \in Spots, NEW td, NEW r, Worn(m, m2, at, td, r),
         NEW b \in Spots, SoundAt(m, b)
  PROVE  SoundAt(m2, b) /\ (Live(m2[b + 8]) => Live(m[b + 8]))
<1>1. /\ b \in Addresses /\ b + 2 \in Addresses /\ b + 4 \in Addresses
      /\ b + 8 \in Addresses /\ b + 10 \in Addresses
  BY SpotWords
<1>2. SUFFICES ASSUME Live(m2[b + 8])
               PROVE  SoundAt(m2, b) /\ Live(m[b + 8])
  BY SoundIfLive
<1>3. m2[b + 8] \notin {0, 2, 3}
  BY <1>2, NotLive, SMT
<1>4. m2[b + 8] = m[b + 8]
  <2>1. Rest(m[b + 8], m2[b + 8], td, r, b + 8)
    BY <1>1, <1>3, Zenon DEF Worn
  <2>2. b + 8 # KeyWord /\ b + 8 # ProtocolWord
    BY SpotGaps
  <2>3. m2[b + 8] # \hA00 /\ m2[b + 8] # 0
    BY <1>2, NotLive, SMT
  <2>. QED BY <2>1, <2>2, <2>3, SMT DEF Rest
<1>5. \A a \in {b, b + 2, b + 4, b + 10} : Rest(m[a], m2[a], td, r, a)
  <2>1. \A a \in {b, b + 2, b + 4, b + 10} : a # at + 8 /\ a \in Addresses
    BY <1>1, SpotGaps, Zenon
  <2>. QED BY <2>1, Zenon DEF Worn
<1>6. m2[b] = m[b] \/ (m2[b] = 0 /\ b # ListBase)
  <2>1. b # ProtocolWord /\ b # SizeWord /\ b # KeyWord
    BY SpotGaps, Zenon
  <2>. QED BY <1>5, <2>1, RestWord, SMT
<1>7. m2[b + 2] = m[b + 2] \/ m2[b + 2] = 0
  <2>1. b + 2 # ProtocolWord /\ b + 2 # SizeWord /\ b + 2 # KeyWord
    BY SpotGaps, Zenon
  <2>. QED BY <1>5, <2>1, RestWord, SMT
<1>8. m2[b + 4] = m[b + 4] \/ m2[b + 4] = 0 \/ m2[b + 4] = 1
  <2>1. b + 4 # SizeWord /\ b + 4 # KeyWord
    BY SpotGaps, Zenon
  <2>2. Rest(m[b + 4], m2[b + 4], td, r, b + 4)
    BY <1>5, Zenon
  <2>. QED BY <2>1, <2>2, SMT DEF Rest
<1>9. m2[b + 10] = m[b + 10] \/ m2[b + 10] = 0
  <2>1. CASE b + 10 = KeyWord
    <3>1. b + 8 = KeyWord - 2
      BY <2>1, SpotGaps
    <3>2. m2[KeyWord] = m[KeyWord]
      BY <1>3, <3>1, Zenon DEF Worn
    <3>. QED BY <2>1, <3>2
  <2>2. CASE b + 10 # KeyWord
    <3>1. b + 10 # ProtocolWord /\ b + 10 # SizeWord
      BY SpotGaps, Zenon
    <3>2. Rest(m[b + 10], m2[b + 10], td, r, b + 10)
      BY <1>5, Zenon
    <3>. QED BY <2>2, <3>1, <3>2, RestWord, SMT
  <2>. QED BY <2>1, <2>2
<1>10. Sound(b, m[b], m[b + 2], m[b + 4], m[b + 8], m[b + 10])
  BY DEF SoundAt
<1>11. Sound(b, m2[b], m2[b + 2], m2[b + 4], m[b + 8], m2[b + 10])
  BY <1>6, <1>7, <1>8, <1>9, <1>10, SoundLess, SMT
<1>. QED BY <1>2, <1>4, <1>11, Zenon DEF SoundAt

LEMMA EndpointSound ==
  ASSUME NEW m \in [Addresses -> Word], NEW m2, m2 = Written(m, EndpointAt, EndpointWords),
         NEW b \in Spots, SoundAt(m, b)
  PROVE  SoundAt(m2, b) /\ (Live(m2[b + 8]) => Live(m[b + 8]))
<1>1. /\ b \in Addresses /\ b + 2 \in Addresses /\ b + 4 \in Addresses
      /\ b + 8 \in Addresses /\ b + 10 \in Addresses
  BY SpotWords
<1>2. /\ \A a \in Addresses : a < EndpointAt \/ a > EndpointAt + 8 => m2[a] = m[a]
      /\ m2[SizeWord] = 8
  BY EndpointWritten
<1>3. CASE b = \h574
  <2>1. b + 8 = SizeWord
    BY <1>3, SMT DEF SizeWord
  <2>2. ~Live(m2[b + 8])
    BY <1>2, <2>1, NotLive, SMT
  <2>. QED BY <2>2, SoundIfLive
<1>4. CASE b # \h574
  <2>1. /\ b < EndpointAt /\ b + 2 < EndpointAt /\ b + 4 < EndpointAt
        /\ b + 8 < EndpointAt /\ b + 10 < EndpointAt
    BY <1>4, SMT DEF EndpointAt, Spots, Later, ListBase
  <2>2. /\ m2[b] = m[b] /\ m2[b + 2] = m[b + 2] /\ m2[b + 4] = m[b + 4]
        /\ m2[b + 8] = m[b + 8] /\ m2[b + 10] = m[b + 10]
    BY <1>1, <1>2, <2>1
  <2>. QED BY <2>2 DEF SoundAt
<1>. QED BY <1>3, <1>4

\* The list of a stage.
LEMMA ListLaid ==
  ASSUME stage \in 1..Poll, toggle \in 0..1, dataSize \in 0..255
  PROVE  /\ \E n : Laid(List, n) /\ (stage # Poll => n \in Starts \cup {64} /\ n # 10)
                   /\ (stage = Poll => n = 6 /\ List[3] = \h291)
         /\ stage # Poll => \E q \in Requests : Opens(List, q) /\ (stage # 1 => q # \h500)
<1>1. CASE stage = Poll
  <2>1. List = PollList(toggle, dataSize)
    BY <1>1 DEF List
  <2>2. dataSize \in Nat
    BY SMT
  <2>. QED BY <1>1, <2>1, <2>2, PollLaid
<1>2. CASE stage # Poll
  <2>1. List = Lists[stage] /\ stage \in 1..Last
    BY <1>2, SMT DEF List, Poll, Last
  <2>2. PICK q \in Requests : WholeList(List, q) /\ (stage # 1 => q # \h500)
    BY <2>1, EveryList
  <2>. QED BY <1>2, <2>2, WholeLaid
<1>. QED BY <1>1, <1>2

LEMMA FetchFacts ==
  ASSUME Fetch, ptr \in Spots \cup {0, EndpointAt}
  PROVE  /\ command = "none" /\ run = NoRun /\ ptr # 0 /\ ptr' = 0
         /\ run'.at = ptr /\ run'.td[1] = mem[ptr] /\ run'.td[2] = mem[ptr + 2]
         /\ run'.td[3] = mem[ptr + 4] /\ run'.td[5] = mem[ptr + 8]
         /\ run'.td[6] = mem[ptr + 10] /\ run' # NoRun
         /\ run'.request = IF mem[ptr + 4] % 256 = \hD0 THEN mem[mem[ptr]] ELSE 0
         /\ UNCHANGED <<mem, msg, msgFlag, mail, mailFlag, command, busVars, mishaps>>
<1>. DEFINE td == [i \in 1..6 |-> mem[ptr + 2 * (i - 1)]]
<1>1. /\ command = "none" /\ run = NoRun /\ ptr # 0 /\ ptr' = 0
      /\ run' = [at |-> ptr, td |-> td,
                 request |-> IF td[3] % 256 = \hD0 THEN mem[td[1]] ELSE 0]
      /\ UNCHANGED <<mem, msg, msgFlag, mail, mailFlag, command, busVars, mishaps>>
  BY Zenon DEF Fetch
<1>2. ptr \in Nat
  BY SMT DEF Spots, Later, ListBase, EndpointAt
<1>3. /\ td[1] = mem[ptr] /\ td[2] = mem[ptr + 2] /\ td[3] = mem[ptr + 4]
      /\ td[5] = mem[ptr + 8] /\ td[6] = mem[ptr + 10]
  <2>1. \A i \in 1..6 : td[i] = mem[ptr + 2 * (i - 1)]
    BY Zenon
  <2>. HIDE DEF td
  <2>2. /\ 1 \in 1..6 /\ 2 \in 1..6 /\ 3 \in 1..6 /\ 5 \in 1..6 /\ 6 \in 1..6
        /\ ptr + 2 * (1 - 1) = ptr /\ ptr + 2 * (2 - 1) = ptr + 2
        /\ ptr + 2 * (3 - 1) = ptr + 4 /\ ptr + 2 * (5 - 1) = ptr + 8
        /\ ptr + 2 * (6 - 1) = ptr + 10
    BY <1>2, SMT
  <2>. QED BY <2>1, <2>2, SMT
<1>. HIDE DEF td
<1>4. /\ run'.at = ptr /\ run'.td = td
      /\ run'.request = IF td[3] % 256 = \hD0 THEN mem[td[1]] ELSE 0
  BY <1>1, SMT
<1>5. run' # NoRun
  BY <1>1, <1>4, SMT DEF NoRun
<1>. QED BY <1>1, <1>3, <1>4, <1>5, SMT

LEMMA MemoryFrame ==
  ASSUME MemoryOK, UNCHANGED <<mem, ptr, run>>
  PROVE  MemoryOK'
<1>1. mem' = mem /\ ptr' = ptr /\ run' = run
  OBVIOUS
<1>2. RunSound => RunSound'
  BY <1>1 DEF RunSound
<1>3. (run = NoRun) => (run' = NoRun)
  BY <1>1
<1>4. \A b \in Spots : SoundAt(mem', b)
  BY <1>1 DEF MemoryOK
<1>. QED BY <1>1, <1>2, <1>3, <1>4, Zenon DEF MemoryOK

\* The words at a list's end stay, and so does the descriptor in execution.
LEMMA ListWritten ==
  ASSUME MemoryOK, stage \in 1..Poll, toggle \in 0..1, dataSize \in 0..255,
         Submit(ListBase, List)
  PROVE  MemoryOK'
<1>1. PICK n : Laid(List, n)
  BY ListLaid
<1>2. mem' = Written(mem, ListBase, List) /\ ptr' = ListBase /\ run' = run
  BY Zenon DEF Submit
<1>3. mem \in [Addresses -> Word] /\ \A b \in Spots : SoundAt(mem, b)
  BY DEF MemoryOK
<1>4. mem' \in [Addresses -> Word]
  BY <1>1, <1>2, <1>3, ListWords
<1>5. ASSUME NEW b \in Spots
      PROVE  SoundAt(mem', b)
  <2>1. /\ b < ListBase + 2 * n => SoundAt(mem', b)
        /\ b >= ListBase + 2 * n => SameWords(mem, mem', b)
    BY <1>1, <1>2, <1>3, Rewritten
  <2>2. b < ListBase + 2 * n \/ b >= ListBase + 2 * n
    <3>1. b \in Nat /\ n \in Nat
      BY <1>1, SMT DEF Spots, Later, ListBase, Laid, Starts
    <3>. QED BY <3>1, SMT DEF ListBase
  <2>3. SameWords(mem, mem', b) /\ SoundAt(mem, b) => SoundAt(mem', b)
    BY Zenon DEF SameWords, SoundAt
  <2>. QED BY <1>3, <2>1, <2>2, <2>3
<1>6. run' = NoRun \/ RunSound'
  BY <1>2 DEF MemoryOK, RunSound
<1>. QED BY <1>2, <1>4, <1>5, <1>6, EndpointNumbers, Zenon DEF MemoryOK

LEMMA EndpointSent ==
  ASSUME MemoryOK, Submit(EndpointAt, EndpointWords)
  PROVE  MemoryOK'
<1>1. mem' = Written(mem, EndpointAt, EndpointWords) /\ ptr' = EndpointAt /\ run' = run
  BY Zenon DEF Submit
<1>2. mem \in [Addresses -> Word] /\ \A b \in Spots : SoundAt(mem, b)
  BY DEF MemoryOK
<1>3. mem' \in [Addresses -> Word] /\ mem'[EndpointAt + 8] = \hAC0A
  BY <1>1, <1>2, EndpointWritten
<1>4. \A b \in Spots : SoundAt(mem', b)
  BY <1>1, <1>2, EndpointSound
<1>5. run' = NoRun \/ RunSound'
  BY <1>1 DEF MemoryOK, RunSound
<1>6. mem' \in [Addresses -> Word] /\ ~Live(mem'[EndpointAt + 8])
  BY <1>3, NotLive, SMT
<1>. QED BY <1>1, <1>4, <1>5, <1>6, Zenon DEF MemoryOK

LEMMA Fetched ==
  ASSUME MemoryOK, Fetch
  PROVE  MemoryOK' /\ RunSound'
<1>1. /\ ptr # 0 /\ ptr' = 0 /\ mem' = mem
      /\ run'.at = ptr /\ run'.td[1] = mem[ptr] /\ run'.td[2] = mem[ptr + 2]
      /\ run'.td[3] = mem[ptr + 4] /\ run'.td[5] = mem[ptr + 8]
      /\ run'.td[6] = mem[ptr + 10]
  BY FetchFacts DEF MemoryOK
<1>2. ptr \in Spots \cup {EndpointAt}
  BY <1>1 DEF MemoryOK
<1>3. mem[ptr] \in Word /\ mem[ptr + 2] \in Word
  <2>1. ptr \in Addresses /\ ptr + 2 \in Addresses
    <3>1. EndpointAt + 2 \in Addresses
      BY AddressNumbers, SMT DEF EndpointAt
    <3>. QED BY <1>2, <3>1, EndpointNumbers, SpotWords
  <2>. QED BY <2>1 DEF MemoryOK
<1>4. ptr = EndpointAt => ~Live(mem[ptr + 8])
  BY DEF MemoryOK
<1>5. Sound(ptr, mem[ptr], mem[ptr + 2], mem[ptr + 4], mem[ptr + 8], mem[ptr + 10])
  <2>1. CASE ptr \in Spots
    BY <2>1 DEF MemoryOK, SoundAt
  <2>2. CASE ptr = EndpointAt
    BY <1>4, <2>2 DEF Sound
  <2>. QED BY <1>2, <2>1, <2>2
<1>6. RunSound'
  BY <1>1, <1>2, <1>3, <1>4, <1>5, Zenon DEF RunSound
<1>7. \A b \in Spots : SoundAt(mem', b)
  BY <1>1 DEF MemoryOK
<1>. QED BY <1>1, <1>6, <1>7, EndpointNumbers, Zenon DEF MemoryOK

LEMMA DoneSound ==
  ASSUME MemoryOK, report \in Reports \cup {NoReport}, Done
  PROVE  MemoryOK'
<1>1. /\ mem' \in [Addresses -> Word]
      /\ Worn(mem, mem', run.at, run.td, report)
      /\ Active(run.td) => run.at \in Spots
      /\ ~Active(run.td) => mem' = mem
  BY DoneMemory DEF MemoryOK
<1>2. /\ run # NoRun /\ run' = NoRun
      /\ ptr' = ptr \/ (ptr = 0 /\ Active(run.td) /\ ptr' = run.td[6])
  BY DoneControl
<1>3. mem \in [Addresses -> Word] /\ (\A b \in Spots : SoundAt(mem, b)) /\ RunSound
  BY <1>2, Zenon DEF MemoryOK
<1>4. \A b \in Spots : SoundAt(mem', b)
  <2>1. CASE Active(run.td)
    BY <1>1, <1>3, <2>1, WornSound
  <2>2. CASE ~Active(run.td)
    BY <1>1, <1>3, <2>2
  <2>. QED BY <2>1, <2>2
<1>5. Active(run.td) => run.td[6] \in Later \cup {0}
  <2>1. Active(run.td) => Live(run.td[5])
    BY DEF Active, Live
  <2>. QED BY <1>3, <2>1, SMT DEF RunSound, Sound
<1>6. ptr' \in Spots \cup {0, EndpointAt} /\ (ptr' = EndpointAt => ptr' = ptr)
  BY <1>2, <1>5, EndpointNumbers, Zenon DEF MemoryOK
<1>7. ASSUME ptr' = EndpointAt
      PROVE  ~Live(mem'[EndpointAt + 8])
  <2>1. ptr = EndpointAt /\ ~Live(mem[EndpointAt + 8])
    BY <1>6, <1>7 DEF MemoryOK
  <2>2. CASE Active(run.td)
    <3>1. /\ EndpointAt + 8 # run.at + 8 /\ EndpointAt + 8 \in Addresses
          /\ EndpointAt + 8 # ProtocolWord /\ EndpointAt + 8 # SizeWord
          /\ EndpointAt + 8 # KeyWord
      <4>1. run.at \in Spots
        BY <1>1, <2>2
      <4>. QED BY <4>1, EndpointNumbers, SMT DEF EndpointAt, ProtocolWord, SizeWord, KeyWord
    <3>2. Rest(mem[EndpointAt + 8], mem'[EndpointAt + 8], run.td, report, EndpointAt + 8)
      BY <1>1, <3>1, Zenon DEF Worn
    <3>3. mem'[EndpointAt + 8] = mem[EndpointAt + 8] \/ mem'[EndpointAt + 8] = 0
      BY <3>1, <3>2, RestWord
    <3>. QED BY <2>1, <3>3, NotLive, SMT
  <2>3. CASE ~Active(run.td)
    BY <1>1, <2>1, <2>3
  <2>. QED BY <2>2, <2>3
<1>. QED BY <1>1, <1>2, <1>4, <1>6, <1>7, Zenon DEF MemoryOK

-----------------------------------------------------------------------------
(* Where main may be, and the types. *)

Early == {"init", "initWait", "initAck", "bus", "busAck", "present", "insert"}
Waiting == {"flag", "again", "sleep", "resetSleep", "read", "clear"}
Checking == {"check", "retry", "retryClear", "retryFlag", "recheck"}

PlacesOK ==
    /\ pc \in Early => stage = 1
    /\ pc \in {"info", "size"} => stage = 5
    /\ pc \in {"show", "line", "removed"} => stage = Poll
    /\ pc \in Checking => stage # Poll
    /\ pc = "softReset" /\ stage # Poll => stage = 1

\* A step of main is one of these; in every other step main stays.
LEMMA NextCases ==
  ASSUME [Next]_vars
  PROVE  \/ UsbSoftReset \/ Step1 \/ Step2 \/ LookForKeyboard \/ Send
         \/ AwaitFlag \/ Sleep \/ UsbWaitTDListDone \/ Check \/ UsbGetRetryCnt
         \/ DeviceInfo \/ DataSize \/ ShowKey \/ LookAtLine
         \/ /\ UNCHANGED mainVars
            /\ ExecInit \/ ExecReset \/ Fetch \/ Done \/ TypeKey \/ PlugIn
               \/ Unplug \/ UNCHANGED vars
BY DEF Next, Main, Chip, Firmware, Done, PlugIn, Unplug, vars

LEMMA PlacesStep ==
  ASSUME PlacesOK, [Next]_vars
  PROVE  PlacesOK'
<1>. USE DEF PlacesOK, Goto, At, Early, Checking, Poll
<1>1. CASE UsbSoftReset
  BY <1>1, SMT DEF UsbSoftReset
<1>2. CASE Step1
  BY <1>2, SMT DEF Step1
<1>3. CASE Step2
  BY <1>3, SMT DEF Step2
<1>4. CASE LookForKeyboard
  BY <1>4, SMT DEF LookForKeyboard
<1>5. CASE Send \/ DeviceInfo \/ DataSize
  BY <1>5, SMT DEF Send, DeviceInfo, DataSize
<1>6. CASE AwaitFlag \/ Sleep
  BY <1>6, SMT DEF AwaitFlag, Sleep
<1>7. CASE UsbWaitTDListDone
  BY <1>7, SMT DEF UsbWaitTDListDone
<1>8. CASE Check
  BY <1>8, SMT DEF Check, NextStage
<1>9. CASE UsbGetRetryCnt
  BY <1>9, SMT DEF UsbGetRetryCnt, NextStage
<1>10. CASE ShowKey
  BY <1>10, SMT DEF ShowKey
<1>11. CASE LookAtLine
  BY <1>11, SMT DEF LookAtLine
<1>12. CASE UNCHANGED mainVars
  BY <1>12, SMT DEF mainVars
<1>. QED BY <1>1, <1>2, <1>3, <1>4, <1>5, <1>6, <1>7, <1>8, <1>9, <1>10, <1>11,
       <1>12, NextCases

LEMMA MemoryStep ==
  ASSUME TypeOK, MemoryOK, [Next]_vars
  PROVE  MemoryOK'
<1>1. /\ stage \in 1..Poll /\ toggle \in 0..1 /\ dataSize \in 0..255
      /\ report \in Reports \cup {NoReport}
  BY DEF TypeOK, ChipTypeOK
<1>2. CASE UNCHANGED <<mem, ptr, run>>
  BY <1>2, MemoryFrame
<1>3. CASE UsbSoftReset
  <2>1. mem' = mem /\ ptr' = 0 /\ run' = NoRun
    BY <1>3, Zenon DEF UsbSoftReset
  <2>. QED BY <2>1, EndpointNumbers, Zenon DEF MemoryOK
<1>4. CASE Send
  BY <1>1, <1>4, ListWritten DEF Send
<1>5. CASE AwaitFlag
  <2>1. Submit(ListBase, List) \/ UNCHANGED chipVars
    BY <1>5 DEF AwaitFlag
  <2>. QED BY <1>1, <1>2, <2>1, ListWritten DEF chipVars
<1>6. CASE DeviceInfo
  BY <1>6, EndpointSent DEF DeviceInfo
<1>7. CASE Fetch
  BY <1>7, Fetched
<1>8. CASE Done
  BY <1>1, <1>8, DoneSound
<1>9. CASE \/ Step1 \/ Step2 \/ LookForKeyboard \/ Sleep \/ UsbWaitTDListDone
           \/ Check \/ UsbGetRetryCnt \/ DataSize \/ ShowKey \/ LookAtLine
  <2>1. UNCHANGED <<mem, ptr, run>>
    BY <1>9 DEF Step1, Step2, LookForKeyboard, Sleep, UsbWaitTDListDone, Check,
         UsbGetRetryCnt, DataSize, ShowKey, LookAtLine, Exec, ReadMessage,
         ClearMessage, ReadMailbox, ChipUnchanged, chipVars
  <2>. QED BY <1>2, <2>1
<1>10. CASE ExecInit \/ ExecReset \/ TypeKey \/ PlugIn \/ Unplug \/ UNCHANGED vars
  <2>1. UNCHANGED <<mem, ptr, run>>
    BY <1>10 DEF ExecInit, ExecReset, TypeKey, PlugIn, Unplug, PortChanges,
         chipVars, vars
  <2>. QED BY <1>2, <2>1
<1>. QED BY <1>3, <1>4, <1>5, <1>6, <1>7, <1>8, <1>9, <1>10, NextCases

LEMMA MemoryInit ==
  ASSUME Init
  PROVE  MemoryOK
<1>1. mem = [a \in Addresses |-> 0] /\ ptr = 0 /\ run = NoRun
  BY DEF Init, ChipInit
<1>2. mem \in [Addresses -> Word]
  <2>1. 0 \in Word
    BY SMT DEF Word
  <2>. QED BY <1>1, <2>1
<1>3. ASSUME NEW b \in Spots
      PROVE  SoundAt(mem, b)
  <2>1. mem[b + 8] = 0
    BY <1>1, SpotWords
  <2>2. ~Live(mem[b + 8])
    BY <2>1, NotLive
  <2>. QED BY <2>2, SoundIfLive
<1>. QED BY <1>1, <1>2, <1>3, EndpointNumbers DEF MemoryOK

LEMMA Bytes == \A n \in Word : n % 256 \in 0..255
BY SMT DEF Word

LEMMA WordsAt ==
  /\ RetryWord \in Addresses /\ SizeWord \in Addresses /\ KeyWord \in Addresses
BY AddressNumbers, SMT DEF RetryWord, SizeWord, KeyWord, ListBase

MainTypeOK ==
    /\ pc \in Places
    /\ stage \in 1..Poll
    /\ got \in {"none", "done", "plug", "mixed"}
    /\ toggle \in 0..1
    /\ tries \in 0..(InsertTries + RemoveTries)
    /\ dataSize \in 0..255
    /\ keycode \in 0..255

LEMMA MainTypes ==
  ASSUME TypeOK, MemoryOK, PlacesOK, [Next]_vars
  PROVE  MainTypeOK'
<1>1. /\ MainTypeOK
      /\ msg \in {"none", "done", "plug", "mixed"}
  BY DEF TypeOK, ChipTypeOK, MainTypeOK
<1>2. mem[SizeWord] % 256 \in 0..255 /\ mem[KeyWord] % 256 \in 0..255
  BY WordsAt, Bytes, Zenon DEF MemoryOK
<1>3. 1 - toggle \in 0..1
  BY <1>1, SMT DEF MainTypeOK
<1>4. ASSUME stage # Poll
      PROVE  stage + 1 \in 1..Poll
  BY <1>1, <1>4, SMT DEF MainTypeOK, Poll
<1>5. 0 \in 0..(InsertTries + RemoveTries) /\ 1 \in 1..Poll /\ 6 \in 1..Poll
  BY TriesAssumption, SMT DEF Poll
<1>6. tries < InsertTries \/ tries < RemoveTries
        => tries + 1 \in 0..(InsertTries + RemoveTries)
  BY <1>1, TriesAssumption, SMT DEF MainTypeOK
<1>. USE DEF Goto, At
<1>7. CASE UsbSoftReset
  BY <1>1, <1>5, <1>7, SMT DEF UsbSoftReset, MainTypeOK, Places
<1>8. CASE Step1 \/ Step2
  BY <1>1, <1>8, SMT DEF Step1, Step2, MainTypeOK, Places
<1>9. CASE LookForKeyboard
  BY <1>1, <1>5, <1>6, <1>9, SMT DEF LookForKeyboard, MainTypeOK, Places
<1>10. CASE Send \/ AwaitFlag \/ Sleep \/ DeviceInfo
  BY <1>1, <1>10, SMT DEF Send, AwaitFlag, Sleep, DeviceInfo, MainTypeOK, Places
<1>11. CASE UsbWaitTDListDone
  BY <1>1, <1>11, SMT DEF UsbWaitTDListDone, MainTypeOK, Places
<1>12. CASE Check \/ UsbGetRetryCnt
  <2>1. stage # Poll
    BY <1>12 DEF Check, UsbGetRetryCnt, PlacesOK, Checking
  <2>2. /\ pc' \in Places /\ stage' \in 1..Poll /\ toggle' \in 0..1
        /\ UNCHANGED <<got, tries, dataSize, keycode>>
    BY <1>1, <1>3, <1>4, <1>12, <2>1, SMT
       DEF Check, UsbGetRetryCnt, NextStage, Places, MainTypeOK
  <2>. QED BY <1>1, <2>2, Zenon DEF MainTypeOK
<1>13. CASE DataSize
  BY <1>1, <1>2, <1>5, <1>13, Zenon DEF DataSize, MainTypeOK, Places
<1>14. CASE ShowKey
  BY <1>1, <1>2, <1>5, <1>14, Zenon DEF ShowKey, MainTypeOK, Places
<1>15. CASE LookAtLine
  BY <1>1, <1>3, <1>5, <1>6, <1>15, SMT DEF LookAtLine, MainTypeOK, Places
<1>16. CASE UNCHANGED mainVars
  BY <1>1, <1>16, Zenon DEF mainVars, MainTypeOK
<1>. QED BY <1>7, <1>8, <1>9, <1>10, <1>11, <1>12, <1>13, <1>14, <1>15, <1>16, NextCases

\* The part of the types that is not about the memory.
SignalsOK ==
    /\ msg \in {"none", "done", "plug", "mixed"}
    /\ mail \in {"ack", "other"}
    /\ command \in {"none", "init", "reset"}
    /\ device \in {"none", "powered", "default", "addressed", "configured"}
    /\ report \in Reports \cup {NoReport}
    /\ delivered \in Reports \cup {NoReport}
    /\ msgFlag \in BOOLEAN /\ mailFlag \in BOOLEAN
    /\ mishaps \subseteq Faults

LEMMA Mishaps ==
  ASSUME NEW kind, NEW bad, Mishap(kind, bad), mishaps \subseteq Faults
  PROVE  mishaps' \subseteq Faults /\ mishaps \subseteq mishaps'
BY DEF Mishap

LEMMA Messages ==
  /\ \A m \in {"done", "plug"} : Post(m) =>
       msg' \in {"none", "done", "plug", "mixed"} /\ msgFlag' \in BOOLEAN
BY DEF Post

LEMMA DoneSignals ==
  ASSUME SignalsOK, Done
  PROVE  SignalsOK'
<1>1. UNCHANGED <<mail, mailFlag, command>>
  BY DoneControl
<1>2. ASSUME ListEnds
      PROVE  /\ msg' \in {"none", "done", "plug", "mixed"} /\ msgFlag' \in BOOLEAN
             /\ mishaps' \subseteq Faults
  BY <1>2, Messages, Mishaps DEF ListEnds, SignalsOK
<1>3. ASSUME NEW td, NextDescriptor(td)
      PROVE  /\ msg' \in {"none", "done", "plug", "mixed"} /\ msgFlag' \in BOOLEAN
             /\ mishaps' \subseteq Faults
  BY <1>2, <1>3 DEF NextDescriptor, GoesOn, Silent, SignalsOK
<1>4. /\ msg' \in {"none", "done", "plug", "mixed"} /\ msgFlag' \in BOOLEAN
      /\ mishaps' \subseteq Faults
      /\ device' \in {"none", "powered", "default", "addressed", "configured"}
      /\ report' \in Reports \cup {NoReport}
      /\ delivered' \in Reports \cup {NoReport}
  <2>1. CASE CompleteInactive
    BY <2>1, Messages, Mishaps DEF CompleteInactive, Silent, busVars, SignalsOK
  <2>2. CASE CompleteControl
    <3>1. device' = DeviceAfter(run.td) /\ NextDescriptor(run.td)
          /\ UNCHANGED <<report, delivered>>
      BY <2>2, Zenon DEF CompleteControl
    <3>2. device' \in {device, "addressed", "configured"}
      BY <3>1, SMT DEF DeviceAfter
    <3>. QED BY <1>3, <3>1, <3>2 DEF SignalsOK
  <2>3. CASE CompleteRetried
    BY <2>3, Mishaps DEF CompleteRetried, SignalsOK
  <2>4. CASE CompleteReport
    <3>1. /\ report # NoReport /\ report' = NoReport /\ ListEnds
          /\ delivered' \in {report, delivered} /\ device' = device
      BY <2>4, Zenon DEF CompleteReport
    <3>. QED BY <1>2, <3>1 DEF SignalsOK
  <2>5. CASE CompleteNak
    BY <1>2, <2>5 DEF CompleteNak, busVars, SignalsOK
  <2>6. CASE CompleteFailed
    BY <1>2, <2>6, Messages, Mishaps DEF CompleteFailed, busVars, SignalsOK
  <2>. QED BY <2>1, <2>2, <2>3, <2>4, <2>5, <2>6 DEF Done, Complete, Nak
<1>. QED BY <1>1, <1>4 DEF SignalsOK

\* What main may do to the signals.
LEMMA SignalsFrame ==
  ASSUME SignalsOK, UNCHANGED <<mail, device, report, delivered>>,
         msg' = msg \/ msg' = "none", msgFlag' = msgFlag \/ msgFlag' = FALSE,
         mailFlag' = mailFlag \/ mailFlag' = FALSE,
         command' = command \/ command' = "init" \/ command' = "reset",
         mishaps' \subseteq Faults
  PROVE  SignalsOK'
<1>1. msgFlag' \in BOOLEAN /\ mailFlag' \in BOOLEAN
  BY Zenon DEF SignalsOK
<1>2. msg' \in {"none", "done", "plug", "mixed"} /\ command' \in {"none", "init", "reset"}
  BY Zenon DEF SignalsOK
<1>. QED BY <1>1, <1>2, Zenon DEF SignalsOK

\* What main's accesses leave alone.
LEMMA ChipSame ==
  ASSUME ChipUnchanged
  PROVE  UNCHANGED <<mem, ptr, run, msg, msgFlag, mail, mailFlag, command, device,
                     request, report, delivered, mishaps>>
BY DEF ChipUnchanged, chipVars, busVars

\* The look at the flag and the time that passes leave the chip alone.
LEMMA LookSame ==
  ASSUME UNCHANGED <<chipVars, busVars>>
  PROVE  UNCHANGED <<mem, ptr, run, msg, msgFlag, mail, mailFlag, command, device,
                     request, report, delivered>>
BY DEF chipVars, busVars

LEMMA SubmitSame ==
  ASSUME NEW at, NEW words, Submit(at, words)
  PROVE  /\ ptr' = at
         /\ UNCHANGED <<run, msg, msgFlag, mail, mailFlag, command, device, request,
                        report, delivered>>
BY DEF Submit, busVars

LEMMA ReadSame ==
  /\ ReadMessage =>
       /\ msgFlag' = FALSE
       /\ UNCHANGED <<mem, ptr, run, msg, mail, mailFlag, command, device, request,
                      report, delivered>>
  /\ ClearMessage =>
       /\ msg' = "none"
       /\ UNCHANGED <<mem, ptr, run, msgFlag, mail, mailFlag, command, device,
                      request, report, delivered>>
BY DEF ReadMessage, ClearMessage, busVars

LEMMA Signals ==
  ASSUME SignalsOK, [Next]_vars, ptr \in Spots \cup {0, EndpointAt}
  PROVE  SignalsOK'
<1>1. CASE UsbSoftReset
  BY <1>1 DEF UsbSoftReset, SignalsOK, busVars
<1>2. CASE Step1 \/ Step2 \/ LookForKeyboard
  <2>1. /\ UNCHANGED <<msg, msgFlag, mail, device, report, delivered>>
        /\ mailFlag' = mailFlag \/ mailFlag' = FALSE
        /\ command' = command \/ command' = "init" \/ command' = "reset"
    BY <1>2, ChipSame, LookSame
       DEF Step1, Step2, LookForKeyboard, Exec, ReadMailbox, busVars
  <2>2. mishaps' \subseteq Faults
    BY <1>2, ChipSame, Mishaps DEF Step1, Step2, LookForKeyboard, SignalsOK
  <2>. QED BY <2>1, <2>2, SignalsFrame
<1>10. CASE Send \/ AwaitFlag \/ Sleep \/ UsbWaitTDListDone
  <2>1. /\ msgFlag' = msgFlag \/ msgFlag' = FALSE
        /\ msg' = msg \/ msg' = "none"
        /\ UNCHANGED <<mail, mailFlag, command, device, report, delivered>>
    BY <1>10, ChipSame, LookSame, SubmitSame, ReadSame
       DEF Send, AwaitFlag, Sleep, UsbWaitTDListDone
  <2>2. mishaps' \subseteq Faults
    BY <1>10, ChipSame, Mishaps DEF Send, AwaitFlag, Sleep, UsbWaitTDListDone, SignalsOK
  <2>. QED BY <2>1, <2>2, SignalsFrame
<1>3. CASE \/ Check \/ UsbGetRetryCnt \/ DeviceInfo \/ DataSize \/ ShowKey
           \/ LookAtLine
  <2>1. /\ msgFlag' = msgFlag \/ msgFlag' = FALSE
        /\ msg' = msg \/ msg' = "none"
        /\ UNCHANGED <<mail, mailFlag, command, device, report, delivered, mishaps>>
    <3>1. CASE Check \/ DataSize \/ ShowKey \/ LookAtLine
      BY <3>1, ChipSame DEF Check, DataSize, ShowKey, LookAtLine
    <3>2. CASE UsbGetRetryCnt
      BY <3>2, ChipSame, ReadSame DEF UsbGetRetryCnt
    <3>3. CASE DeviceInfo
      BY <3>3, SubmitSame DEF DeviceInfo
    <3>. QED BY <1>3, <3>1, <3>2, <3>3
  <2>2. mishaps' \subseteq Faults
    BY <2>1 DEF SignalsOK
  <2>. QED BY <2>1, <2>2, SignalsFrame
<1>4. CASE ExecInit \/ ExecReset
  BY <1>4, Mishaps DEF ExecInit, ExecReset, busVars, SignalsOK
<1>5. CASE Fetch
  BY <1>5, FetchFacts DEF busVars, SignalsOK
<1>6. CASE Done
  BY <1>6, DoneSignals
<1>7. CASE TypeKey
  BY <1>7 DEF TypeKey, chipVars, SignalsOK
<1>8. CASE PlugIn \/ Unplug
  BY <1>8, Messages, Mishaps DEF PlugIn, Unplug, PortChanges, SignalsOK
<1>9. CASE UNCHANGED vars
  BY <1>9 DEF vars, chipVars, busVars, SignalsOK
<1>. QED BY <1>1, <1>2, <1>3, <1>4, <1>5, <1>6, <1>7, <1>8, <1>9, <1>10, NextCases

LEMMA TypeParts ==
  /\ TypeOK => SignalsOK /\ MainTypeOK
  /\ SignalsOK /\ MainTypeOK /\ MemoryOK => TypeOK
<1>1. TypeOK => SignalsOK /\ MainTypeOK
  BY DEF TypeOK, ChipTypeOK, SignalsOK, MainTypeOK
<1>2. ASSUME MemoryOK
      PROVE  /\ DOMAIN mem = Addresses /\ \A a \in Addresses : mem[a] \in Word
             /\ ptr \in Addresses \cup {0} /\ run.at \in Addresses \cup {0}
  <2>1. DOMAIN mem = Addresses /\ \A a \in Addresses : mem[a] \in Word
    BY <1>2 DEF MemoryOK
  <2>2. ptr \in Addresses \cup {0}
    BY <1>2, EndpointNumbers, Zenon DEF MemoryOK
  <2>3. run.at \in Spots \cup {0, EndpointAt}
    BY <1>2 DEF MemoryOK, RunSound, NoRun
  <2>. QED BY <2>1, <2>2, <2>3, EndpointNumbers, Zenon
<1>. QED BY <1>1, <1>2 DEF TypeOK, ChipTypeOK, SignalsOK, MainTypeOK

LEMMA TypeStep ==
  ASSUME TypeOK, MemoryOK, PlacesOK, [Next]_vars
  PROVE  TypeOK'
<1>1. SignalsOK' /\ MainTypeOK' /\ MemoryOK'
  BY TypeParts, Signals, MainTypes, MemoryStep DEF MemoryOK
<1>2. (SignalsOK /\ MainTypeOK /\ MemoryOK => TypeOK)'
  BY TypeParts, PTL
<1>. QED BY <1>1, <1>2

LEMMA TypeInit ==
  ASSUME Init
  PROVE  TypeOK /\ PlacesOK
<1>1. SignalsOK
  BY DEF Init, ChipInit, SignalsOK
<1>2. MainTypeOK
  BY TriesAssumption, SMT DEF Init, MainTypeOK, Places, Poll
<1>3. PlacesOK
  BY SMT DEF Init, PlacesOK, Early, Checking
<1>. QED BY <1>1, <1>2, <1>3, MemoryInit, TypeParts

-----------------------------------------------------------------------------
(* The commands and the start of the enumeration. *)

Idle == run = NoRun /\ ptr = 0
Quiet == msg \in {"none", "plug"}

\* Until the first list is sent the chip has nothing to run, and until the
\* command is executed it does not begin with it.
ControlOK ==
    /\ pc \in Early \/ (pc = "send" /\ stage = 1) => Idle /\ Quiet
    /\ stage > 1 \/ pc \in Checking \cup {"sleep"} => command = "none"
    /\ pc \in Waiting =>
         \/ /\ ptr = ListBase /\ run = NoRun /\ Quiet
            /\ pc = "clear" => got # "done"
         \/ command = "none"

LEMMA ControlStep ==
  ASSUME TypeOK, PlacesOK, ControlOK, MemoryOK, [Next]_vars
  PROVE  ControlOK'
<1>1. stage \in 1..Poll /\ msg \in {"none", "done", "plug", "mixed"}
  BY DEF TypeOK, ChipTypeOK
<1>. USE DEF ControlOK, PlacesOK, Goto, At, Early, Waiting, Checking, Quiet, Idle, Poll
<1>2. CASE UsbSoftReset
  BY <1>2, SMT DEF UsbSoftReset
<1>3. CASE Step1
  BY <1>1, <1>3, SMT DEF Step1, Exec, ReadMailbox, ChipUnchanged, chipVars
<1>4. CASE Step2
  BY <1>1, <1>4, SMT DEF Step2, Exec, ReadMailbox
<1>5. CASE LookForKeyboard
  BY <1>1, <1>5, SMT DEF LookForKeyboard, ChipUnchanged, chipVars
<1>6. CASE Send
  <2>1. /\ pc = "send" /\ stage' = stage
        /\ pc' = "flag" \/ (pc' = "sleep" /\ stage > 1)
        /\ ptr' = ListBase /\ run' = run /\ msg' = msg /\ command' = command
    BY <1>6, SMT DEF Send, Submit
  <2>. QED BY <1>1, <2>1, SMT
<1>7. CASE AwaitFlag
  <2>1. /\ pc \in {"flag", "again"} /\ pc' \in Waiting \ {"clear"} /\ stage' = stage
        /\ (ptr' = ListBase \/ ptr' = ptr) /\ run' = run /\ msg' = msg
        /\ command' = command /\ (pc' = "sleep" => command = "none")
    BY <1>7 DEF AwaitFlag, Submit, chipVars
  <2>. QED BY <1>1, <2>1, SMT
<1>13. CASE Sleep
  <2>1. /\ pc \in {"sleep", "resetSleep"} /\ pc' = "flag" /\ stage' = stage
        /\ UNCHANGED <<ptr, run, msg, command>>
    BY <1>13, LookSame DEF Sleep
  <2>. QED BY <1>1, <2>1, SMT
<1>8. CASE UsbWaitTDListDone
  BY <1>1, <1>8, SMT DEF UsbWaitTDListDone, ReadMessage, ClearMessage,
     ChipUnchanged, chipVars
<1>9. CASE Check \/ UsbGetRetryCnt
  <2>1. /\ pc \in Checking /\ command' = command
        /\ \/ pc' \in Checking /\ stage' = stage
           \/ pc' = "softReset" /\ stage' = stage /\ stage = 1
           \/ pc' \in {"info", "send"} /\ stage' > 1
    BY <1>1, <1>9, SMT DEF Check, UsbGetRetryCnt, NextStage, ReadMessage,
       ClearMessage, ChipUnchanged, chipVars
  <2>. QED BY <1>1, <2>1, SMT
<1>10. CASE DeviceInfo \/ DataSize \/ ShowKey
  <2>1. /\ stage > 1 /\ command' = command
        /\ pc' \in {"size", "send", "line"} /\ stage' > 1
    BY <1>1, <1>10, SMT DEF DeviceInfo, DataSize, ShowKey, Submit,
       ChipUnchanged, chipVars
  <2>. QED BY <2>1, SMT
<1>11. CASE LookAtLine
  <2>1. /\ stage > 1 /\ command' = command /\ stage' = stage
        /\ pc' \in {"send", "line", "removed", "softReset"}
    BY <1>1, <1>11, SMT DEF LookAtLine, ChipUnchanged, chipVars
  <2>. QED BY <2>1, SMT
<1>12. CASE UNCHANGED mainVars
             /\ (ExecInit \/ ExecReset \/ Fetch \/ Done \/ TypeKey \/ PlugIn
                 \/ Unplug \/ UNCHANGED vars)
  <2>1. pc' = pc /\ stage' = stage /\ got' = got
    BY <1>12 DEF mainVars
  <2>2. CASE ExecInit \/ ExecReset
    <3>1. command' = "none" /\ UNCHANGED <<ptr, run, msg>>
      BY <2>2 DEF ExecInit, ExecReset
    <3>. QED BY <2>1, <3>1, SMT
  <2>3. CASE Fetch
    <3>1. command = "none" /\ command' = "none" /\ ptr # 0
      BY <2>3, FetchFacts DEF MemoryOK
    <3>. QED BY <2>1, <3>1, SMT
  <2>4. CASE Done
    <3>1. run # NoRun /\ command' = command
      BY <2>4, DoneControl
    <3>. QED BY <2>1, <3>1, SMT
  <2>5. CASE TypeKey \/ UNCHANGED vars
    <3>1. UNCHANGED <<ptr, run, msg, command>>
      BY <2>5 DEF TypeKey, vars, chipVars
    <3>. QED BY <2>1, <3>1, SMT
  <2>6. CASE PlugIn \/ Unplug
    <3>1. /\ UNCHANGED <<ptr, run, command>>
          /\ msg \in {"none", "plug"} => msg' = "plug"
      BY <2>6 DEF PlugIn, Unplug, PortChanges, Post, Merges
    <3>. QED BY <2>1, <3>1, SMT
  <2>. QED BY <1>12, <2>2, <2>3, <2>4, <2>5, <2>6
<1>. QED BY <1>2, <1>3, <1>4, <1>5, <1>6, <1>7, <1>8, <1>9, <1>10, <1>11, <1>12,
       <1>13, NextCases

-----------------------------------------------------------------------------
(* The buffer of the report. *)

LEMMA ListKey ==
  ASSUME MemoryOK, stage \in 1..Poll, toggle \in 0..1, dataSize \in 0..255,
         Submit(ListBase, List)
  PROVE  /\ stage # Poll => mem'[ListBase + 4] % 256 # \h91
         /\ stage = Last => mem'[KeyWord] = \h520
         /\ stage = Poll => mem'[KeyWord] = mem[KeyWord]
<1>1. PICK n : /\ Laid(List, n)
               /\ stage # Poll => n \in Starts \cup {64} /\ n # 10
               /\ stage = Poll => n = 6
  BY ListLaid
<1>2. mem \in [Addresses -> Word] /\ mem' = Written(mem, ListBase, List)
  BY DEF MemoryOK, Submit
<1>3. \A a \in Addresses :
         mem'[a] = IF a < ListBase + 2 * n THEN ListWord(List, a) ELSE mem[a]
  BY <1>1, <1>2, ListWords
<1>4. ListBase + 4 \in Addresses /\ KeyWord \in Addresses
  BY WordsAt, AddressNumbers, SMT DEF ListBase
<1>5. /\ ListWord(List, ListBase + 4) = List[3]
      /\ ListWord(List, KeyWord) = List[16]
  <2>1. Index(ListBase + 4) = 3 /\ Index(KeyWord) = 16
    BY SMT DEF Index, ListBase, KeyWord
  <2>. QED BY <2>1 DEF ListWord
<1>6. stage # Poll => ListBase + 4 < ListBase + 2 * n /\ KeyWord < ListBase + 2 * n
  BY <1>1, SMT DEF Starts, ListBase, KeyWord
<1>7. stage = Poll => ~(KeyWord < ListBase + 2 * n)
  BY <1>1, SMT DEF ListBase, KeyWord
<1>8. stage # Poll => List[3] % 256 # \h91
  <2>1. stage # Poll => \E q \in Requests : Opens(List, q)
    BY ListLaid
  <2>. QED BY <2>1, SMT DEF Opens
<1>9. stage = Last => List[16] = \h520 /\ stage # Poll
  <2>1. ASSUME stage = Last
        PROVE  List = UsbGetReportDesc /\ stage # Poll
    BY <2>1, SMT DEF List, Lists, FirstLists, ConfigLists, LastLists, Last, Poll
  <2>. QED BY <2>1, UsbGetReportDescWhole
<1>. QED BY <1>3, <1>4, <1>5, <1>6, <1>7, <1>8, <1>9

\* A report is asked for only in the polls, and from the end of the last
\* list of the enumeration on its buffer holds what the register will show.
KeyOK ==
    /\ run # NoRun /\ Active(run.td) /\ IsPoll(run.td) => stage = Poll
    /\ ptr = ListBase /\ stage # Poll /\ Live(mem[ListBase + 8])
         => mem[ListBase + 4] % 256 # \h91
    /\ stage > 1 \/ pc \in Waiting \cup Checking \cup {"busAck", "present", "insert", "send"} =>
         \/ command = "reset"
         \/ command = "none" /\ (stage # Poll => delivered = NoReport)
    /\ stage = Last /\ pc \in Waiting \cup Checking => mem[KeyWord] = \h520
    /\ stage = Poll =>
         mem[KeyWord] % 256 = IF delivered = NoReport THEN Residue ELSE delivered

\* Steps that leave the chip's run and its memory alone.
LEMMA KeyFrame ==
  ASSUME KeyOK, UNCHANGED <<mem, ptr, run, stage, pc, command, delivered>>
  PROVE  KeyOK'
BY SMT DEF KeyOK

\* Nothing that the chip executes makes the first descriptor active again,
\* gives it another target or changes the request behind it.
LEMMA FirstStays ==
  ASSUME TypeOK, MemoryOK, Done
  PROVE  /\ Live(mem'[ListBase + 8]) => Live(mem[ListBase + 8])
         /\ mem'[ListBase + 4] = mem[ListBase + 4]
         /\ mem'[\h50C] = mem[\h50C]
<1>1. /\ Worn(mem, mem', run.at, run.td, report)
      /\ Active(run.td) => run.at \in Spots
      /\ ~Active(run.td) => mem' = mem
      /\ mem \in [Addresses -> Word] /\ mem' \in [Addresses -> Word]
  BY DoneMemory DEF MemoryOK, TypeOK, ChipTypeOK
<1>2. CASE ~Active(run.td)
  BY <1>1, <1>2
<1>3. CASE Active(run.td)
  <2>1. ListBase \in Spots /\ SoundAt(mem, ListBase)
    BY EndpointNumbers DEF MemoryOK
  <2>2. Live(mem'[ListBase + 8]) => Live(mem[ListBase + 8])
    BY <1>1, <1>3, <2>1, WornSound
  <2>3. /\ ListBase + 4 \in Addresses /\ ListBase + 4 # run.at + 8
        /\ \h50C \in Addresses /\ \h50C # run.at + 8
    <3>1. run.at \in Spots
      BY <1>1, <1>3
    <3>. QED BY <3>1, AddressNumbers, SMT DEF Spots, Later, ListBase
  <2>4. /\ Rest(mem[ListBase + 4], mem'[ListBase + 4], run.td, report, ListBase + 4)
        /\ Rest(mem[\h50C], mem'[\h50C], run.td, report, \h50C)
    BY <1>1, <2>3, SMT DEF Worn
  <2>5. mem'[ListBase + 4] = mem[ListBase + 4] /\ mem'[\h50C] = mem[\h50C]
    BY <2>4, SMT DEF Rest, ListBase
  <2>. QED BY <2>2, <2>5
<1>. QED BY <1>2, <1>3

LEMMA KeyDone ==
  ASSUME TypeOK, MemoryOK, KeyOK, Done, UNCHANGED mainVars
  PROVE  KeyOK'
<1>1. /\ run # NoRun /\ run' = NoRun /\ command' = command
      /\ ptr' = ptr \/ (ptr = 0 /\ Active(run.td) /\ ptr' = run.td[6])
  BY DoneControl
<1>2. /\ Worn(mem, mem', run.at, run.td, report) /\ KeyStored
      /\ Active(run.td) => run.at \in Spots
      /\ ~Active(run.td) => mem' = mem
  BY DoneMemory DEF MemoryOK, TypeOK, ChipTypeOK
<1>3. RunSound /\ mem \in [Addresses -> Word] /\ mem' \in [Addresses -> Word]
  BY <1>1, DoneMemory DEF MemoryOK, TypeOK, ChipTypeOK
<1>4. stage' = stage /\ pc' = pc
  BY DEF mainVars
<1>5. ptr' = ListBase => ptr = ListBase
  <2>1. Active(run.td) => run.td[6] \in Later \cup {0}
    BY <1>3, SMT DEF RunSound, Sound, Active, Live
  <2>. QED BY <1>1, <2>1, EndpointNumbers, Zenon
<1>6. /\ Live(mem'[ListBase + 8]) => Live(mem[ListBase + 8])
      /\ mem'[ListBase + 4] = mem[ListBase + 4]
  BY FirstStays
<1>7. \/ mem'[KeyWord] = mem[KeyWord] /\ delivered' = delivered
      \/ /\ stage = Poll /\ delivered' # NoReport
         /\ mem'[KeyWord] % 256 = delivered'
  <2>1. ASSUME Active(run.td), IsPoll(run.td), report \in Reports,
               mem'[KeyWord] = report, delivered' = report
        PROVE  /\ stage = Poll /\ delivered' # NoReport
               /\ mem'[KeyWord] % 256 = delivered'
    <3>1. report \in Nat /\ report % 256 = report
      BY <2>1, ReportsAreWords, SMT DEF Word
    <3>2. stage = Poll
      BY <1>1, <2>1 DEF KeyOK
    <3>. QED BY <2>1, <3>1, <3>2, SMT DEF NoReport
  <2>. QED BY <1>2, <2>1, Zenon DEF KeyStored
<1>. QED BY <1>1, <1>4, <1>5, <1>6, <1>7, SMT DEF KeyOK, Last, Poll

LEMMA KeyFetch ==
  ASSUME MemoryOK, KeyOK, Fetch, UNCHANGED mainVars
  PROVE  KeyOK'
<1>1. /\ ptr' = 0 /\ mem' = mem /\ command' = command /\ delivered' = delivered
      /\ run'.at = ptr /\ run'.td[3] = mem[ptr + 4] /\ run'.td[5] = mem[ptr + 8]
      /\ pc' = pc /\ stage' = stage
  BY FetchFacts DEF MemoryOK, busVars, mainVars
<1>2. RunSound'
  BY Fetched
<1>3. Active(run'.td) /\ IsPoll(run'.td) => stage = Poll
  <2>1. SUFFICES ASSUME Live(run'.td[5]), run'.td[3] % 256 = \h91
                 PROVE  stage = Poll
    BY SMT DEF Active, IsPoll, Live
  <2>2. run'.at = ListBase
    BY <1>2, <2>1, SMT DEF RunSound, Sound
  <2>3. /\ ptr = ListBase /\ Live(mem[ListBase + 8])
        /\ mem[ListBase + 4] % 256 = \h91
    BY <1>1, <2>1, <2>2
  <2>. QED BY <2>3 DEF KeyOK
<1>4. ptr' # ListBase
  BY <1>1, EndpointNumbers
<1>. QED BY <1>1, <1>3, <1>4, SMT DEF KeyOK

LEMMA KeyStep ==
  ASSUME TypeOK, PlacesOK, ControlOK, MemoryOK, KeyOK, [Next]_vars
  PROVE  KeyOK'
<1>1. stage \in 1..Poll /\ toggle \in 0..1 /\ dataSize \in 0..255
  BY DEF TypeOK
<1>. USE DEF Goto, At
<1>2. CASE UsbSoftReset
  <2>1. /\ pc' = "init" /\ stage' = 1 /\ ptr' = 0 /\ run' = NoRun
        /\ command' = "none"
    BY <1>2, Zenon DEF UsbSoftReset
  <2>. QED BY <2>1, EndpointNumbers, SMT DEF KeyOK, Waiting, Checking, Last, Poll
<1>3. CASE Step1 \/ Step2
  <2>1. /\ pc \in Early /\ stage = 1 /\ stage' = stage
        /\ UNCHANGED <<mem, ptr, run, delivered>>
        /\ pc' \in {"initWait", "initAck", "bus", "softReset"}
           \/ (pc' = "busAck" /\ command' = "reset")
           \/ (pc = "busAck" /\ pc' = "present" /\ command' = command)
    BY <1>3, SMT DEF Step1, Step2, PlacesOK, Early, Exec, ReadMailbox,
       ChipUnchanged, chipVars, busVars
  <2>. QED BY <2>1, SMT DEF KeyOK, Waiting, Checking, Last, Poll
<1>4. CASE LookForKeyboard
  <2>1. /\ pc \in {"present", "insert"} /\ stage = 1 /\ stage' = stage
        /\ UNCHANGED <<mem, ptr, run, delivered, command>>
        /\ pc' \in {"present", "insert", "send", "softReset"}
    BY <1>4, SMT DEF LookForKeyboard, PlacesOK, Early, ChipUnchanged, chipVars, busVars
  <2>. QED BY <2>1, SMT DEF KeyOK, Waiting, Checking, Last, Poll
<1>5. ASSUME pc \in {"send", "again"}, pc' \in Waiting, stage' = stage,
             Submit(ListBase, List)
      PROVE  KeyOK'
  <2>1. /\ stage # Poll => mem'[ListBase + 4] % 256 # \h91
        /\ stage = Last => mem'[KeyWord] = \h520
        /\ stage = Poll => mem'[KeyWord] = mem[KeyWord]
    BY <1>1, <1>5, ListKey
  <2>2. UNCHANGED <<run, command, delivered>>
    BY <1>5 DEF Submit, busVars
  <2>. QED BY <1>5, <2>1, <2>2, SMT DEF KeyOK, Waiting, Checking
<1>6. CASE Send
  BY <1>5, <1>6 DEF Send, Waiting
<1>7. CASE AwaitFlag \/ Sleep
  <2>1. CASE At("again") /\ Submit(ListBase, List)
    BY <1>5, <1>7, <2>1, SMT DEF AwaitFlag, Sleep, Waiting
  <2>2. CASE UNCHANGED <<chipVars, busVars>>
    <3>1. /\ pc \in Waiting /\ pc' \in Waiting /\ stage' = stage
          /\ UNCHANGED <<mem, ptr, run, command, delivered>>
      BY <1>7, <2>2, LookSame, SMT DEF AwaitFlag, Sleep, Waiting
    <3>. QED BY <3>1, SMT DEF KeyOK
  <2>. QED BY <1>7, <2>1, <2>2 DEF AwaitFlag, Sleep
<1>8. CASE UsbWaitTDListDone
  <2>1. /\ pc \in Waiting /\ stage' = stage
        /\ UNCHANGED <<mem, ptr, run, command, delivered>>
        /\ pc' \in Waiting \/ pc' = "check" \/ stage = Poll
    BY <1>8, SMT DEF UsbWaitTDListDone, Waiting, ReadMessage, ClearMessage,
       ChipUnchanged, chipVars, busVars
  <2>. QED BY <2>1, SMT DEF KeyOK, Waiting, Checking, Last, Poll
<1>9. CASE Check \/ UsbGetRetryCnt
  <2>1. /\ pc \in Checking /\ UNCHANGED <<mem, ptr, run, command, delivered>>
        /\ \/ pc' \in Checking /\ stage' = stage
           \/ pc' = "softReset" /\ stage' = stage /\ stage = 1
           \/ pc' = "info" /\ stage' = stage
           \/ pc' = "send" /\ stage' = stage + 1
    BY <1>1, <1>9, SMT DEF Check, UsbGetRetryCnt, NextStage, Checking, ReadMessage,
       ClearMessage, ChipUnchanged, chipVars, busVars
  <2>2. stage # Poll
    BY <2>1 DEF PlacesOK
  <2>3. stage = Last => mem[KeyWord] % 256 = Residue
    BY <2>1, SMT DEF KeyOK, Residue
  <2>4. command = "none" /\ delivered = NoReport
    BY <2>1, <2>2, SMT DEF KeyOK, ControlOK
  <2>. QED BY <1>1, <2>1, <2>2, <2>3, <2>4, SMT DEF KeyOK, Waiting, Checking, Last, Poll
<1>10. CASE DeviceInfo
  <2>1. /\ pc = "info" /\ pc' = "size" /\ stage = 5 /\ stage' = 5 /\ ptr' = EndpointAt
        /\ UNCHANGED <<run, command, delivered>>
    BY <1>10, SMT DEF DeviceInfo, Submit, PlacesOK, busVars
  <2>. QED BY <2>1, EndpointNumbers, SMT DEF KeyOK, Waiting, Checking, Last, Poll
<1>11. CASE DataSize
  <2>1. /\ pc = "size" /\ pc' = "send" /\ stage = 5 /\ stage' = 6
        /\ UNCHANGED <<mem, ptr, run, command, delivered>>
    BY <1>11, SMT DEF DataSize, PlacesOK, ChipUnchanged, chipVars, busVars
  <2>. QED BY <2>1, SMT DEF KeyOK, Waiting, Checking, Last, Poll
<1>12. CASE ShowKey \/ LookAtLine
  <2>1. /\ stage = Poll /\ stage' = stage
        /\ UNCHANGED <<mem, ptr, run, command, delivered>>
        /\ pc' \notin Waiting
    BY <1>12, SMT DEF ShowKey, LookAtLine, PlacesOK, Waiting, ChipUnchanged, chipVars,
       busVars
  <2>. QED BY <2>1, SMT DEF KeyOK, Last, Poll
<1>13. CASE UNCHANGED mainVars
             /\ (ExecInit \/ ExecReset \/ Fetch \/ Done \/ TypeKey \/ PlugIn
                 \/ Unplug \/ UNCHANGED vars)
  <2>1. pc' = pc /\ stage' = stage
    BY <1>13 DEF mainVars
  <2>2. CASE ExecInit
    <3>1. /\ command = "init" /\ UNCHANGED <<mem, ptr, run, delivered>>
      BY <2>2 DEF ExecInit, busVars
    <3>. QED BY <1>1, <2>1, <3>1, SMT DEF KeyOK, Last, Poll
  <2>3. CASE ExecReset
    <3>1. /\ command = "reset" /\ command' = "none" /\ delivered' = NoReport
          /\ UNCHANGED <<mem, ptr, run>>
      BY <2>3, Zenon DEF ExecReset
    <3>2. stage = 1
      BY <1>1, <3>1, SMT DEF ControlOK, Poll
    <3>. QED BY <2>1, <3>1, <3>2, SMT DEF KeyOK, Last, Poll
  <2>4. CASE Fetch
    BY <1>13, <2>4, KeyFetch
  <2>5. CASE Done
    BY <1>13, <2>5, KeyDone
  <2>6. CASE TypeKey \/ PlugIn \/ Unplug \/ UNCHANGED vars
    <3>1. UNCHANGED <<mem, ptr, run, command, delivered>>
      BY <2>6 DEF TypeKey, PlugIn, Unplug, PortChanges, vars, chipVars, busVars
    <3>. QED BY <2>1, <3>1, KeyFrame
  <2>. QED BY <1>13, <2>2, <2>3, <2>4, <2>5, <2>6
<1>. QED BY <1>2, <1>3, <1>4, <1>6, <1>7, <1>8, <1>9, <1>10, <1>11, <1>12, <1>13,
       NextCases

\* What holds whatever happens.
Always == TypeOK /\ MemoryOK /\ PlacesOK /\ ControlOK /\ KeyOK

LEMMA AlwaysHolds == Spec => []Always
<1>1. Init => Always
  <2>1. SUFFICES ASSUME Init
                 PROVE  ControlOK /\ KeyOK
    BY TypeInit, MemoryInit DEF Always
  <2>2. /\ pc = "softReset" /\ stage = 1 /\ run = NoRun /\ ptr = 0
    BY <2>1 DEF Init, ChipInit
  <2>3. ControlOK
    BY <2>2, SMT DEF ControlOK, Early, Checking, Waiting
  <2>4. KeyOK
    BY <2>2, EndpointNumbers, SMT DEF KeyOK, Checking, Waiting, Last, Poll
  <2>. QED BY <2>3, <2>4
<1>2. Always /\ [Next]_vars => Always'
  BY TypeStep, MemoryStep, PlacesStep, ControlStep, KeyStep DEF Always
<1>. QED BY <1>1, <1>2, PTL DEF Spec

\* The types of UsbKeyboard: whatever the noise, the timing and the hand at
\* the plug, the chip's pointer and every word that the program and the chip
\* write stay what the memory and the registers can hold.
THEOREM TypeCorrect == Spec => []TypeOK
<1>1. Always => TypeOK
  BY DEF Always
<1>. QED BY <1>1, AlwaysHolds, PTL

\* The register shows the key of the last report, or what the enumeration
\* left in the buffer (main.c 520-523).
THEOREM RegisterShowsLastReport == Spec => ShowsLastReport
<1>. DEFINE A == At("show") /\ Goto("line")
                 => keycode' = IF delivered = NoReport THEN Residue ELSE delivered
<1>1. Always /\ [Next]_vars => [A]_vars
  <2>1. SUFFICES ASSUME Always, [Next]_vars, pc = "show", pc' = "line"
                 PROVE  (keycode' = IF delivered = NoReport THEN Residue ELSE delivered)
    BY DEF At, Goto
  <2>2. stage = Poll
    BY <2>1 DEF Always, PlacesOK
  <2>3. ShowKey
    <3>1. ASSUME UNCHANGED mainVars
          PROVE  FALSE
      BY <2>1, <3>1 DEF mainVars
    <3>. QED BY <2>1, <3>1, NextCases, SMT DEF At, UsbSoftReset, Step1, Step2,
           LookForKeyboard, Send, AwaitFlag, Sleep, UsbWaitTDListDone, Check,
           UsbGetRetryCnt, DeviceInfo, DataSize, LookAtLine
  <2>4. keycode' = mem[KeyWord] % 256
    BY <2>3, Zenon DEF ShowKey
  <2>. QED BY <2>1, <2>2, <2>4 DEF Always, KeyOK
<1>2. ShowsLastReport <=> [][A]_vars
  BY DEF ShowsLastReport
<1>. QED BY <1>1, <1>2, AlwaysHolds, PTL DEF Spec

-----------------------------------------------------------------------------
(* A chip that is not late. *)

LEMMA MishapGrows ==
  ASSUME NEW kind, NEW bad, Mishap(kind, bad)
  PROVE  mishaps \subseteq mishaps' /\ (bad => kind \in mishaps')
BY DEF Mishap

\* A message comes only when the list goes no further, and from a
\* descriptor that was not active only by a mishap.
LEMMA DoneMessage ==
  ASSUME Done
  PROVE  /\ Silent \/ (Posted /\ ptr' = ptr)
         /\ ~Active(run.td) => ptr' = ptr /\ (Silent \/ "stray" \in mishaps')
         /\ mishaps \subseteq mishaps'
<1>1. ASSUME ListEnds
      PROVE  Posted /\ ptr' = ptr /\ mishaps \subseteq mishaps'
  BY <1>1, PostFacts, MishapGrows DEF ListEnds
<1>2. ASSUME NEW td, NextDescriptor(td)
      PROVE  (Silent \/ (Posted /\ ptr' = ptr)) /\ mishaps \subseteq mishaps'
  BY <1>1, <1>2 DEF NextDescriptor, GoesOn
<1>3. CASE CompleteInactive
  BY <1>3, PostFacts, MishapGrows DEF CompleteInactive
<1>4. CASE CompleteControl
  BY <1>2, <1>4 DEF CompleteControl
<1>5. CASE CompleteRetried
  BY <1>5, MishapGrows DEF CompleteRetried, Silent
<1>6. CASE CompleteReport
  BY <1>1, <1>6, Zenon DEF CompleteReport
<1>7. CASE CompleteFailed
  BY <1>1, <1>7, PostFacts, MishapGrows DEF CompleteFailed
<1>8. CASE CompleteNak
  BY <1>1, <1>8 DEF CompleteNak
<1>. QED BY <1>3, <1>4, <1>5, <1>6, <1>7, <1>8 DEF Done, Complete, Nak

LEMMA MishapsGrow ==
  ASSUME [Next]_vars, ptr \in Spots \cup {0, EndpointAt}
  PROVE  mishaps \subseteq mishaps'
<1>1. CASE UsbSoftReset \/ Step1 \/ Step2 \/ LookForKeyboard \/ Send
  BY <1>1, ChipSame, MishapGrows DEF UsbSoftReset, Step1, Step2, LookForKeyboard, Send
<1>2. CASE AwaitFlag \/ Sleep \/ UsbWaitTDListDone
  BY <1>2, ChipSame, MishapGrows DEF AwaitFlag, Sleep, UsbWaitTDListDone
<1>3. CASE \/ Check \/ UsbGetRetryCnt \/ DeviceInfo \/ DataSize \/ ShowKey
           \/ LookAtLine
  BY <1>3, ChipSame DEF Check, UsbGetRetryCnt, DeviceInfo, DataSize, ShowKey,
     LookAtLine
<1>4. CASE ExecInit \/ ExecReset \/ TypeKey \/ PlugIn \/ Unplug
  BY <1>4, MishapGrows DEF ExecInit, ExecReset, TypeKey, PlugIn, Unplug, PortChanges
<1>5. CASE Fetch
  BY <1>5, FetchFacts
<1>6. CASE Done
  BY <1>6, DoneMessage
<1>7. CASE UNCHANGED vars
  BY <1>7 DEF vars
<1>. QED BY <1>1, <1>2, <1>3, <1>4, <1>5, <1>6, <1>7, NextCases

\* As long as the chip is not late it is idle when main looks at a list, and
\* when it sends the next one: the message that main has waited for came from
\* the list that it has sent.  A list that is sent again may meet the chip
\* anywhere in the list, and its message may be the one of the list before,
\* but only until main has slept.  The endpoint descriptor, which is no list,
\* is left alone for the same reason.
Orderly ==
    /\ "late" \notin mishaps /\ stage # Poll
    /\ "stray" \notin mishaps \/ stage <= 5

OrderOK == Orderly =>
    /\ pc \in Checking \cup {"info", "softReset"} => Idle
    /\ pc \in Checking \cup {"info"} => Quiet
    /\ pc = "send" => /\ Quiet
                      /\ stage # 6 => Idle
                      /\ ptr \in {0, EndpointAt}
                      /\ run # NoRun => ~Active(run.td)
    /\ pc \in Waiting \ {"sleep"} =>
         /\ ~Quiet => Idle
         /\ pc = "clear" /\ got = "done" => Idle
         /\ run # NoRun /\ (stage # 6 \/ Active(run.td)) => ptr = 0
    /\ pc \in Waiting =>
         /\ pc \notin {"read", "clear"} /\ ~Quiet => msgFlag
         /\ ptr # EndpointAt
    /\ pc = "size" =>
         /\ ptr \in {0, EndpointAt}
         /\ run # NoRun => ~Active(run.td) /\ ptr = 0
         /\ mem[SizeWord] = 8
         /\ "stray" \notin mishaps => Quiet

SizeOK == stage > 5 /\ "late" \notin mishaps => dataSize = 8

LEMMA OrderFetch ==
  ASSUME MemoryOK, PlacesOK, OrderOK, Fetch, UNCHANGED mainVars
  PROVE  OrderOK'
<1>1. /\ run = NoRun /\ ptr # 0 /\ ptr' = 0 /\ run' # NoRun
      /\ run'.at = ptr /\ run'.td[5] = mem[ptr + 8]
      /\ UNCHANGED <<mem, msg, msgFlag, mishaps>>
  BY FetchFacts DEF MemoryOK
<1>2. pc' = pc /\ stage' = stage /\ got' = got
  BY DEF mainVars
<1>3. ptr = EndpointAt => ~Active(run'.td)
  BY <1>1 DEF MemoryOK, Active, Live
<1>. HIDE DEF Active
<1>. QED BY <1>1, <1>2, <1>3, EndpointNumbers, SMT
       DEF OrderOK, Orderly, Waiting, Checking, Quiet, Idle

LEMMA OrderDone ==
  ASSUME TypeOK, MemoryOK, PlacesOK, OrderOK, Done, UNCHANGED mainVars
  PROVE  OrderOK'
<1>1. /\ run # NoRun /\ run' = NoRun
      /\ ptr' = ptr \/ (ptr = 0 /\ Active(run.td) /\ ptr' = run.td[6])
  BY DoneControl
<1>2. /\ Silent \/ (Posted /\ ptr' = ptr)
      /\ ~Active(run.td) => ptr' = ptr /\ (Silent \/ "stray" \in mishaps')
      /\ mishaps \subseteq mishaps'
  BY DoneMessage
<1>3. ~Active(run.td) => mem' = mem
  BY DoneMemory DEF MemoryOK, TypeOK, ChipTypeOK
<1>4. pc' = pc /\ stage' = stage /\ got' = got
  BY DEF mainVars
<1>5. ptr' = EndpointAt => ptr' = ptr
  <2>1. RunSound
    BY <1>1 DEF MemoryOK
  <2>2. Active(run.td) => run.td[6] \in Later \cup {0}
    BY <2>1, SMT DEF RunSound, Sound, Active, Live
  <2>. QED BY <1>1, <2>2, EndpointNumbers, Zenon
<1>6. SUFFICES ASSUME Orderly'
               PROVE  OrderOK'
  BY DEF OrderOK
<1>7. Orderly /\ ("stray" \in mishaps' => stage <= 5)
  BY <1>2, <1>4, <1>6 DEF Orderly
<1>8. /\ Silent => msg' = msg /\ msgFlag' = msgFlag
      /\ Posted => msgFlag' = TRUE
  BY DEF Silent, Posted
<1>. HIDE DEF Active
<1>9. ~(pc \in Checking \cup {"info", "softReset"})
  BY <1>1, <1>7 DEF OrderOK, Idle
<1>10. CASE pc = "send" \/ pc = "size"
  <2>1. /\ ~Active(run.td) /\ ptr' = ptr /\ mem' = mem
        /\ ptr \in {0, EndpointAt}
    BY <1>1, <1>2, <1>3, <1>7, <1>10 DEF OrderOK
  <2>2. CASE pc = "send"
    <3>1. stage = 6 /\ Quiet
      BY <1>1, <1>7, <2>2 DEF OrderOK, Idle
    <3>2. Silent
      BY <1>2, <1>7, <2>1, <3>1, SMT
    <3>. QED BY <1>1, <1>4, <1>8, <2>1, <2>2, <3>1, <3>2, SMT
           DEF OrderOK, Waiting, Checking, Quiet
  <2>3. CASE pc = "size"
    <3>1. "stray" \notin mishaps' => Quiet /\ Silent
      BY <1>2, <1>7, <2>1, <2>3 DEF OrderOK
    <3>2. mem[SizeWord] = 8
      BY <1>7, <2>3 DEF OrderOK
    <3>. QED BY <1>1, <1>4, <1>8, <2>1, <2>3, <3>1, <3>2, SMT
           DEF OrderOK, Waiting, Checking, Quiet
  <2>. QED BY <1>10, <2>2, <2>3
<1>11. CASE pc \in Waiting
  <2>1. /\ ptr # EndpointAt /\ (pc \notin {"read", "clear"} /\ ~Quiet => msgFlag)
        /\ pc # "sleep" =>
             /\ Quiet /\ ~(pc = "clear" /\ got = "done")
             /\ stage # 6 \/ Active(run.td) => ptr = 0
    BY <1>1, <1>7, <1>11 DEF OrderOK, Idle
  <2>2. ptr' # EndpointAt
    BY <1>5, <2>1
  <2>3. pc # "sleep" => (~Quiet' => run' = NoRun /\ ptr' = 0)
    <3>1. Silent => (Quiet' <=> Quiet)
      BY <1>8 DEF Quiet
    <3>2. ASSUME ~Silent, pc # "sleep"
          PROVE  ptr' = 0
      <4>1. Posted /\ ptr' = ptr
        BY <1>2, <3>2
      <4>2. stage # 6 \/ Active(run.td)
        BY <1>2, <1>7, <3>2, SMT
      <4>. QED BY <2>1, <3>2, <4>1, <4>2
    <3>. QED BY <1>1, <2>1, <3>1, <3>2
  <2>4. pc \notin {"read", "clear"} /\ ~Quiet' => msgFlag'
    BY <1>2, <1>8, <2>1 DEF Quiet
  <2>. QED BY <1>1, <1>4, <1>11, <2>1, <2>2, <2>3, <2>4, SMT
         DEF OrderOK, Waiting, Checking, Idle
<1>12. CASE pc \notin Checking \cup Waiting \cup {"info", "softReset", "send", "size"}
  BY <1>4, <1>12 DEF OrderOK
<1>. QED BY <1>9, <1>10, <1>11, <1>12

LEMMA OrderStep ==
  ASSUME Always, OrderOK, [Next]_vars
  PROVE  OrderOK'
<1>1. /\ TypeOK /\ MemoryOK /\ PlacesOK /\ ControlOK
      /\ stage \in 1..Poll /\ msg \in {"none", "done", "plug", "mixed"}
      /\ mishaps \subseteq mishaps'
  BY MishapsGrow DEF Always, TypeOK, ChipTypeOK, MemoryOK
<1>2. SUFFICES ASSUME Orderly'
               PROVE  OrderOK'
  BY DEF OrderOK
<1>. USE DEF Goto, At
<1>3. CASE UsbSoftReset
  <2>1. pc' = "init"
    BY <1>3 DEF UsbSoftReset
  <2>. QED BY <2>1 DEF OrderOK, Checking, Waiting
<1>4. CASE Step1 \/ Step2 \/ LookForKeyboard
  <2>1. /\ pc \in Early /\ UNCHANGED <<run, ptr, msg>>
        /\ pc' \in Early \cup {"softReset", "send"}
    BY <1>4, ChipSame, LookSame, SMT
       DEF Step1, Step2, LookForKeyboard, Exec, ReadMailbox, Early
  <2>2. run' = NoRun /\ ptr' = 0 /\ Quiet'
    BY <1>1, <2>1 DEF ControlOK, Idle, Quiet
  <2>. QED BY <2>1, <2>2, SMT DEF OrderOK, Early, Checking, Waiting, Idle
<1>5. ASSUME stage' = stage
      PROVE  Orderly
  BY <1>1, <1>2, <1>5 DEF Orderly
<1>6. CASE Send
  <2>1. /\ pc = "send" /\ pc' \in {"flag", "sleep"} /\ stage' = stage /\ ptr' = ListBase
        /\ UNCHANGED <<run, msg, msgFlag>>
    BY <1>6, SubmitSame, SMT DEF Send
  <2>2. /\ Quiet /\ (stage # 6 => run = NoRun)
        /\ run # NoRun => ~Active(run.td)
    BY <1>5, <2>1 DEF OrderOK, Idle
  <2>. HIDE DEF Active
  <2>. QED BY <2>1, <2>2, EndpointNumbers, SMT DEF OrderOK, Waiting, Checking, Quiet
<1>7. CASE AwaitFlag
  <2>1. stage' = stage /\ got' = got /\ mishaps' = mishaps
    BY <1>7 DEF AwaitFlag
  <2>2. Orderly
    BY <1>5, <2>1
  <2>3. CASE At("flag") /\ UNCHANGED <<chipVars, busVars>>
    <3>1. /\ pc = "flag" /\ pc' \in {"read", "again"}
          /\ UNCHANGED <<mem, ptr, run, msg, msgFlag>>
      BY <1>7, <2>3, LookSame, SMT DEF AwaitFlag
    <3>. HIDE DEF Active
    <3>. QED BY <2>1, <2>2, <3>1, SMT DEF OrderOK, Waiting, Checking, Quiet, Idle
  <2>4. CASE At("again") /\ Submit(ListBase, List)
    <3>1. /\ pc = "again" /\ ptr' = ListBase /\ UNCHANGED <<run, msg, msgFlag>>
          /\ \/ pc' = "sleep"
             \/ pc' = "resetSleep" /\ command # "none"
      BY <1>7, <2>2, <2>4, SubmitSame, SMT DEF AwaitFlag, Orderly
    <3>2. ~Quiet => msgFlag
      BY <2>2, <3>1 DEF OrderOK, Waiting
    <3>3. command # "none" => run = NoRun /\ Quiet
      BY <1>1, <3>1 DEF ControlOK, Waiting
    <3>. HIDE DEF Active
    <3>. QED BY <2>1, <3>1, <3>2, <3>3, EndpointNumbers, SMT
           DEF OrderOK, Waiting, Checking, Quiet
  <2>. QED BY <1>7, <2>3, <2>4 DEF AwaitFlag
<1>14. CASE Sleep
  <2>1. /\ pc \in {"sleep", "resetSleep"} /\ pc' = "flag" /\ stage' = stage
        /\ got' = got /\ UNCHANGED <<mem, ptr, run, msg, msgFlag>>
    BY <1>14, LookSame DEF Sleep
  <2>2. Orderly
    BY <1>5, <2>1
  <2>3. pc = "sleep" => Idle
    <3>1. pc = "sleep" => Mishap("late", Busy)
      BY <1>14 DEF Sleep
    <3>. QED BY <1>2, <3>1, MishapGrows DEF Orderly, Busy, Idle
  <2>. HIDE DEF Active
  <2>. QED BY <2>1, <2>2, <2>3, SMT DEF OrderOK, Waiting, Checking, Quiet, Idle
<1>8. CASE UsbWaitTDListDone
  <2>1. /\ pc \in {"read", "clear"} /\ stage' = stage /\ UNCHANGED <<mem, ptr, run>>
        /\ pc = "read" => pc' = "clear" /\ got' = msg /\ msg' = msg
        /\ pc = "clear" =>
             /\ got' = got /\ (msg' = "none" \/ (got # "done" /\ msg' = msg))
             /\ \/ got # "done" /\ pc' = "read"
                \/ got = "done" /\ pc' \in {"show", "check"}
    BY <1>8, ChipSame, ReadSame, SMT DEF UsbWaitTDListDone
  <2>2. Orderly
    BY <1>5, <2>1
  <2>. HIDE DEF Active
  <2>. QED BY <2>1, <2>2, SMT DEF OrderOK, Waiting, Checking, Quiet, Idle
<1>9. CASE Check \/ UsbGetRetryCnt
  <2>1. /\ pc \in Checking /\ UNCHANGED <<mem, ptr, run>>
        /\ msg' = msg \/ msg' = "none"
        /\ \/ pc' \in Checking /\ stage' = stage
           \/ pc' = "softReset" /\ stage' = stage
           \/ pc' = "info" /\ stage' = stage
           \/ pc' = "send" /\ stage # 5 /\ stage' = stage + 1
    BY <1>9, ChipSame, ReadSame, SMT DEF Check, UsbGetRetryCnt, NextStage, Checking
  <2>2. Orderly
    BY <1>1, <1>2, <2>1, SMT DEF Orderly, PlacesOK
  <2>. QED BY <2>1, <2>2, SMT DEF OrderOK, Waiting, Checking, Quiet, Idle
<1>10. CASE DeviceInfo
  <2>1. /\ pc = "info" /\ pc' = "size" /\ stage' = stage /\ ptr' = EndpointAt
        /\ mem' = Written(mem, EndpointAt, EndpointWords)
        /\ UNCHANGED <<run, msg>>
    BY <1>10, SubmitSame DEF DeviceInfo, Submit
  <2>2. Idle /\ Quiet
    BY <1>5, <2>1 DEF OrderOK
  <2>3. mem'[SizeWord] = 8
    BY <1>1, <2>1, EndpointWritten DEF MemoryOK
  <2>. QED BY <2>1, <2>2, <2>3, SMT DEF OrderOK, Waiting, Checking, Quiet, Idle
<1>11. CASE DataSize
  <2>1. /\ pc = "size" /\ pc' = "send" /\ stage = 5 /\ stage' = 6
        /\ UNCHANGED <<ptr, run, msg, mishaps>>
    BY <1>1, <1>11, ChipSame DEF DataSize, PlacesOK
  <2>2. Orderly /\ "stray" \notin mishaps
    BY <1>2, <2>1, SMT DEF Orderly, Poll
  <2>3. /\ Quiet /\ ptr \in {0, EndpointAt} /\ (run # NoRun => ~Active(run.td))
    BY <2>1, <2>2 DEF OrderOK
  <2>. HIDE DEF Active
  <2>. QED BY <2>1, <2>3, SMT DEF OrderOK, Waiting, Checking, Quiet
<1>12. CASE ShowKey \/ LookAtLine
  <2>1. stage = Poll /\ stage' = stage
    BY <1>1, <1>12 DEF ShowKey, LookAtLine, PlacesOK
  <2>. QED BY <1>2, <2>1 DEF Orderly
<1>13. CASE UNCHANGED mainVars
             /\ (ExecInit \/ ExecReset \/ Fetch \/ Done \/ TypeKey \/ PlugIn
                 \/ Unplug \/ UNCHANGED vars)
  <2>1. pc' = pc /\ stage' = stage /\ got' = got
    BY <1>13 DEF mainVars
  <2>2. CASE Fetch
    BY <1>1, <1>13, <2>2, OrderFetch
  <2>3. CASE Done
    BY <1>1, <1>13, <2>3, OrderDone
  <2>4. CASE ExecInit \/ ExecReset \/ TypeKey \/ UNCHANGED vars
    <3>1. UNCHANGED <<mem, ptr, run, msg, msgFlag>>
      BY <2>4 DEF ExecInit, ExecReset, TypeKey, vars, chipVars
    <3>2. Orderly
      BY <1>5, <2>1
    <3>3. "stray" \notin mishaps' => "stray" \notin mishaps
      BY <1>1
    <3>. HIDE DEF Active
    <3>. QED BY <2>1, <3>1, <3>2, <3>3, SMT DEF OrderOK, Quiet, Idle
  <2>5. CASE PlugIn \/ Unplug
    <3>1. /\ UNCHANGED <<mem, ptr, run>> /\ msgFlag' = TRUE
          /\ Quiet => Quiet'
      BY <2>5 DEF PlugIn, Unplug, PortChanges, Post, Merges, Quiet
    <3>2. Orderly
      BY <1>5, <2>1
    <3>3. "stray" \notin mishaps' => "stray" \notin mishaps
      BY <1>1
    <3>. HIDE DEF Active
    <3>. QED BY <2>1, <3>1, <3>2, <3>3, SMT DEF OrderOK, Idle
  <2>. QED BY <1>13, <2>2, <2>3, <2>4, <2>5
<1>. QED BY <1>3, <1>4, <1>6, <1>7, <1>8, <1>9, <1>10, <1>11, <1>12, <1>13, <1>14,
       NextCases

LEMMA SizeStep ==
  ASSUME Always, OrderOK, SizeOK, [Next]_vars
  PROVE  SizeOK'
<1>1. PlacesOK /\ mishaps \subseteq mishaps' /\ stage \in 1..Poll
  BY MishapsGrow DEF Always, MemoryOK, TypeOK
<1>. USE DEF At, Goto
<1>2. CASE DataSize
  <2>1. pc = "size" /\ stage = 5 /\ dataSize' = mem[SizeWord] % 256
    BY <1>1, <1>2 DEF DataSize, PlacesOK
  <2>2. "late" \notin mishaps => mem[SizeWord] = 8
    BY <2>1, SMT DEF OrderOK, Orderly, Poll
  <2>. QED BY <1>1, <2>1, <2>2, SMT DEF SizeOK
<1>3. CASE Check \/ UsbGetRetryCnt
  <2>1. dataSize' = dataSize /\ (stage' = stage \/ (stage # 5 /\ stage' = stage + 1))
    BY <1>3, SMT DEF Check, UsbGetRetryCnt, NextStage
  <2>. QED BY <1>1, <2>1, SMT DEF SizeOK
<1>4. CASE UsbSoftReset
  <2>1. stage' = 1
    BY <1>4 DEF UsbSoftReset
  <2>. QED BY <2>1, SMT DEF SizeOK
<1>5. CASE \/ Step1 \/ Step2 \/ LookForKeyboard \/ Send \/ AwaitFlag \/ Sleep
           \/ UsbWaitTDListDone \/ DeviceInfo \/ ShowKey \/ LookAtLine
           \/ UNCHANGED mainVars
  <2>1. dataSize' = dataSize /\ stage' = stage
    BY <1>5 DEF Step1, Step2, LookForKeyboard, Send, AwaitFlag, Sleep,
       UsbWaitTDListDone, DeviceInfo, ShowKey, LookAtLine, mainVars
  <2>. QED BY <1>1, <2>1 DEF SizeOK
<1>. QED BY <1>2, <1>3, <1>4, <1>5, NextCases

LEMMA OrderHolds == Spec => [](Always /\ OrderOK /\ SizeOK)
<1>1. Init => OrderOK /\ SizeOK
  <2>1. Init => pc = "softReset" /\ stage = 1 /\ run = NoRun /\ ptr = 0
    BY DEF Init, ChipInit
  <2>. QED BY <2>1, SMT DEF OrderOK, SizeOK, Idle, Checking, Waiting
<1>2. Always /\ OrderOK /\ SizeOK /\ [Next]_vars => OrderOK' /\ SizeOK'
  BY OrderStep, SizeStep
<1>. QED BY <1>1, <1>2, AlwaysHolds, PTL DEF Spec

\* The polls ask for the 8 bytes of the endpoint descriptor, although the
\* chip runs the descriptor that main reads the length from (main.c
\* 343-355): it is not active, and no list is still under way.
THEOREM PollsAskForEightBytes == Spec => []AsksForEightBytes
<1>1. Always /\ OrderOK /\ SizeOK => AsksForEightBytes
  BY DEF Always, SizeOK, AsksForEightBytes
<1>. QED BY <1>1, OrderHolds, PTL

-----------------------------------------------------------------------------
(* The list that is under way stays whole. *)

\* Nothing below the buffer of the descriptor in execution changes but its
\* own result.
LEMMA DoneAbove ==
  ASSUME TypeOK, MemoryOK, Done, NEW a \in Addresses, a # run.at + 8, a < run.td[1]
  PROVE  mem'[a] = mem[a]
<1>1. RunSound /\ mem \in [Addresses -> Word] /\ report \in Reports \cup {NoReport}
  BY DoneControl DEF MemoryOK, TypeOK, ChipTypeOK
<1>2. ~(a >= run.td[1])
  BY <1>1, AddressNumbers, SMT DEF RunSound, Word
<1>3. ASSUME NEW f, NEW v, mem' = Result(f, v), f \in [Addresses -> Word]
      PROVE  mem'[a] = f[a]
  BY <1>3 DEF Result
<1>4. CASE CompleteInactive
  BY <1>4 DEF CompleteInactive
<1>5. CASE CompleteControl
  <2>1. PICK f : f = Received(run.td)
    OBVIOUS
  <2>2. mem' = Result(f, 3) /\ Active(run.td)
    BY <1>5, <2>1, Zenon DEF CompleteControl
  <2>3. f \in [Addresses -> Word]
    BY <1>1, <2>1, <2>2, DataReceived
  <2>4. f[a] = mem[a]
    <3>1. CASE IsData(run.td)
      <4>1. f = [b \in Addresses |-> IF b >= run.td[1] /\ b < run.td[1] + run.td[2]
                                     THEN DescriptorWord(run.td, b) ELSE mem[b]]
        BY <2>1, <3>1, Zenon DEF Received, Stored, Length
      <4>. QED BY <1>2, <4>1, Zenon
    <3>2. CASE ~IsData(run.td)
      BY <2>1, <3>2 DEF Received
    <3>. QED BY <3>1, <3>2
  <2>. QED BY <1>3, <2>2, <2>3, <2>4
<1>6. CASE CompleteReport
  <2>1. PICK f : f = StoredReport(run.td, report)
    OBVIOUS
  <2>2. /\ mem' = Result(f, 3) /\ Active(run.td) /\ IsPoll(run.td)
        /\ report # NoReport
    BY <1>6, <2>1, Zenon DEF CompleteReport, StoredReport
  <2>3. f \in [Addresses -> Word]
    <3>1. report \in Word
      BY <1>1, <2>2, ReportsAreWords
    <3>. QED BY <1>1, <2>1, <2>2, <3>1, ReportReceived
  <2>4. f[a] = mem[a]
    <3>1. f = [b \in Addresses |-> IF b >= run.td[1] /\ b < run.td[1] + run.td[2]
                                   THEN (IF b = run.td[1] + 2 THEN report ELSE 0)
                                   ELSE mem[b]]
      BY <2>1, Zenon DEF StoredReport, Stored, Length
    <3>. QED BY <1>2, <3>1, Zenon
  <2>. QED BY <1>3, <2>2, <2>3, <2>4
<1>7. CASE CompleteRetried
  BY <1>1, <1>3, <1>7 DEF CompleteRetried
<1>8. CASE CompleteFailed
  BY <1>1, <1>3, <1>8 DEF CompleteFailed
<1>9. CASE CompleteNak
  BY <1>1, <1>3, <1>9 DEF CompleteNak
<1>. QED BY <1>4, <1>5, <1>6, <1>7, <1>8, <1>9 DEF Done, Complete, Nak

\* The end of a list, and the words of a descriptor in it that are the same
\* in every poll.
EndOf(s) == ListBase + 2 * Len(s)
Like(s, b, x, l, t, k) ==
    /\ x = ListWord(s, b) /\ l = ListWord(s, b + 2)
    /\ t = ListWord(s, b + 4) /\ k = ListWord(s, b + 10)

LEMMA EndNumbers ==
  ASSUME stage \in 1..Poll, toggle \in 0..1, dataSize \in 0..255
  PROVE  /\ \E n : Laid(List, n) /\ EndOf(List) = ListBase + 2 * n
         /\ EndOf(List) \in Nat /\ ListBase < EndOf(List) /\ 0 < EndOf(List)
         /\ \A b \in Spots : b < EndOf(List) => b + 10 < EndOf(List)
         /\ stage = Poll => /\ EndOf(List) = \h50C /\ EndpointAt > EndOf(List)
                            /\ Len(List) = 6 /\ List[3] = \h291
         /\ stage # Poll => Len(List) > 6
<1>1. PICK n : /\ Laid(List, n) /\ (stage # Poll => n \in Starts \cup {64})
               /\ stage = Poll => n = 6 /\ List[3] = \h291
  BY ListLaid
<1>2. /\ n \in {6} \cup Starts \cup {64} /\ Len(List) = n
      /\ \A o \in {0} \cup Starts : o < n => o + 6 <= n
  BY <1>1 DEF Laid
<1>3. EndOf(List) = ListBase + 2 * n
  BY <1>2 DEF EndOf
<1>4. EndOf(List) \in Nat /\ ListBase < EndOf(List) /\ 0 < EndOf(List)
  BY <1>2, <1>3, SMT DEF ListBase, Starts
<1>5. ASSUME NEW b \in Spots, b < EndOf(List)
      PROVE  b + 10 < EndOf(List)
  <2>1. PICK o \in {0} \cup Starts : o \in Nat /\ b = ListBase + 2 * o
    BY SpotNumbers
  <2>2. n \in Nat
    BY <1>2, SMT DEF Starts
  <2>3. o < n
    BY <1>3, <1>5, <2>1, <2>2, SMT DEF ListBase
  <2>4. o + 6 <= n
    BY <1>2, <2>3
  <2>. QED BY <1>3, <2>1, <2>2, <2>4, SMT DEF ListBase
<1>6. stage = Poll => /\ EndOf(List) = \h50C /\ EndpointAt > EndOf(List)
                      /\ Len(List) = 6 /\ List[3] = \h291
  BY <1>1, <1>2, <1>3, SMT DEF ListBase, EndpointAt
<1>7. stage # Poll => Len(List) > 6
  BY <1>1, <1>2, SMT DEF Starts
<1>. QED BY <1>1, <1>3, <1>4, <1>5, <1>6, <1>7

\* What an active descriptor of a list is like, in the memory and in the
\* chip: its words are the ones of the list, and its data leaves the list
\* alone.
KeptAt(m, b, s) == Live(m[b + 8]) =>
    /\ ClearAt(m, b, EndOf(s))
    /\ Like(s, b, m[b], m[b + 2], m[b + 4], m[b + 10])
    /\ b = ListBase /\ Len(s) > 6 => m[\h50C] = s[7]
MemKept(m, s) == \A b \in Spots : b < EndOf(s) => KeptAt(m, b, s)
KeptRun(r, s) == Live(r.td[5]) =>
    /\ r.at \in Spots /\ r.at < EndOf(s)
    /\ Clear(r.td[1], r.td[2], r.td[3], r.td[6], EndOf(s))
    /\ Like(s, r.at, r.td[1], r.td[2], r.td[3], r.td[6])
    /\ IsSetup(r.td) => r.request = s[7]

Underway ==
    /\ "late" \notin mishaps /\ "stray" \notin mishaps
    /\ pc \in Waiting \/ stage = Poll

KeptOK == Underway =>
    /\ ptr < EndOf(List)
    /\ ~Idle => MemKept(mem, List)
    /\ run # NoRun => KeptRun(run, List)

\* A list moves with the stage only, but for its data toggle.
LEMMA ListStays ==
  ASSUME TypeOK, stage' = stage, toggle' \in 0..1, dataSize' = dataSize,
         stage = Poll \/ toggle' = toggle
  PROVE  /\ EndOf(List') = EndOf(List)
         /\ \A m : MemKept(m, List) => MemKept(m, List')
         /\ \A r : KeptRun(r, List) => KeptRun(r, List')
<1>1. CASE stage = Poll
  <2>1. /\ EndOf(List) = \h50C /\ Len(List) = 6 /\ List[3] = \h291
    BY <1>1, EndNumbers DEF TypeOK
  <2>2. List = PollList(toggle, dataSize) /\ List' = PollList(toggle', dataSize)
    BY <1>1 DEF List
  <2>3. Len(List') = 6
    <3>1. dataSize \in Nat
      BY SMT DEF TypeOK
    <3>2. Laid(PollList(toggle', dataSize), 6)
      BY <3>1, PollLaid
    <3>. QED BY <2>2, <3>2 DEF Laid
  <2>4. \A i \in {1, 2, 3, 6} : List'[i] = List[i]
    BY <2>2, SMT DEF PollList, Descriptor
  <2>5. EndOf(List') = EndOf(List)
    BY <2>1, <2>3 DEF EndOf
  <2>6. \A b \in Spots : b < \h50C => b = ListBase
    BY SMT DEF Spots, Later, ListBase
  <2>7. ASSUME NEW x, NEW l, NEW t, NEW k, Like(List, ListBase, x, l, t, k)
        PROVE  Like(List', ListBase, x, l, t, k) /\ t = \h291
    <3>1. /\ Index(ListBase) = 1 /\ Index(ListBase + 2) = 2
          /\ Index(ListBase + 4) = 3 /\ Index(ListBase + 10) = 6
      BY SMT DEF Index, ListBase
    <3>. QED BY <2>1, <2>4, <2>7, <3>1, SMT DEF Like, ListWord
  <2>8. ASSUME NEW m, MemKept(m, List)
        PROVE  MemKept(m, List')
    <3>1. SUFFICES ASSUME NEW b \in Spots, b < EndOf(List), Live(m[b + 8])
                   PROVE  /\ ClearAt(m, b, EndOf(List'))
                          /\ Like(List', b, m[b], m[b + 2], m[b + 4], m[b + 10])
      BY <2>3, <2>5, SMT DEF MemKept, KeptAt
    <3>2. b = ListBase
      BY <2>1, <2>6, <3>1
    <3>3. /\ ClearAt(m, b, EndOf(List))
          /\ Like(List, b, m[b], m[b + 2], m[b + 4], m[b + 10])
      <4>1. KeptAt(m, b, List)
        BY <2>8, <3>1 DEF MemKept
      <4>. QED BY <3>1, <4>1 DEF KeptAt
    <3>. QED BY <2>5, <2>7, <3>2, <3>3
  <2>9. ASSUME NEW r, KeptRun(r, List)
        PROVE  KeptRun(r, List')
    <3>1. SUFFICES ASSUME Live(r.td[5])
                   PROVE  /\ r.at \in Spots /\ r.at < EndOf(List')
                          /\ Clear(r.td[1], r.td[2], r.td[3], r.td[6], EndOf(List'))
                          /\ Like(List', r.at, r.td[1], r.td[2], r.td[3], r.td[6])
                          /\ ~IsSetup(r.td)
      BY Zenon DEF KeptRun
    <3>2. /\ r.at \in Spots /\ r.at < EndOf(List)
          /\ Clear(r.td[1], r.td[2], r.td[3], r.td[6], EndOf(List))
          /\ Like(List, r.at, r.td[1], r.td[2], r.td[3], r.td[6])
      BY <2>9, <3>1, Zenon DEF KeptRun
    <3>3. r.at = ListBase
      BY <2>1, <2>6, <3>2
    <3>4. Like(List', r.at, r.td[1], r.td[2], r.td[3], r.td[6]) /\ r.td[3] = \h291
      BY <2>7, <3>2, <3>3
    <3>5. ~IsSetup(r.td)
      BY <3>4, SMT DEF IsSetup
    <3>. QED BY <2>5, <3>2, <3>4, <3>5
  <2>. QED BY <2>5, <2>8, <2>9
<1>2. CASE stage # Poll
  <2>1. List' = List
    BY <1>2 DEF List
  <2>. QED BY <2>1
<1>. QED BY <1>1, <1>2

LEMMA KeptList ==
  ASSUME TypeOK, MemoryOK, Submit(ListBase, List), stage' = stage,
         toggle' = toggle, dataSize' = dataSize,
         run # NoRun => KeptRun(run, List)
  PROVE  /\ ptr' < EndOf(List')
         /\ MemKept(mem', List')
         /\ run' # NoRun => KeptRun(run', List')
<1>1. stage \in 1..Poll /\ toggle \in 0..1 /\ dataSize \in 0..255
  BY DEF TypeOK
<1>2. PICK n : Laid(List, n) /\ EndOf(List) = ListBase + 2 * n
  BY <1>1, EndNumbers
<1>3. /\ n \in Nat /\ n = Len(List) /\ ListBase < EndOf(List)
      /\ \A b \in Spots : b < EndOf(List) => b + 10 < EndOf(List)
  <2>1. n = Len(List) /\ n \in Nat
    BY <1>2, SMT DEF Laid, Starts
  <2>. QED BY <1>1, <2>1, EndNumbers
<1>4. List' = List
  BY DEF List
<1>5. mem \in [Addresses -> Word] /\ mem' = Written(mem, ListBase, List)
  BY DEF MemoryOK, Submit
<1>6. ptr' = ListBase /\ run' = run
  BY DEF Submit
<1>7. \A a \in Addresses : a < EndOf(List) => mem'[a] = ListWord(List, a)
  BY <1>2, <1>5, ListWords
<1>8. ASSUME NEW b \in Spots, b < EndOf(List)
      PROVE  KeptAt(mem', b, List)
  <2>1. ClearAt(mem', b, EndOf(List))
    BY <1>2, <1>5, <1>8, Rewritten
  <2>2. /\ b \in Addresses /\ b + 2 \in Addresses /\ b + 4 \in Addresses
        /\ b + 10 \in Addresses
    BY SpotWords
  <2>3. b < EndOf(List) /\ b + 2 < EndOf(List) /\ b + 4 < EndOf(List) /\ b + 10 < EndOf(List)
    <3>1. b + 10 < EndOf(List) /\ b \in Nat
      BY <1>3, <1>8, SMT DEF Spots, Later, ListBase
    <3>. QED BY <1>2, <1>3, <3>1, SMT DEF ListBase
  <2>4. Like(List, b, mem'[b], mem'[b + 2], mem'[b + 4], mem'[b + 10])
    BY <1>7, <2>2, <2>3 DEF Like
  <2>5. ASSUME Len(List) > 6
        PROVE  mem'[\h50C] = List[7]
    <3>1. \h50C \in Addresses /\ \h50C < EndOf(List) /\ Index(\h50C) = 7
      BY <1>2, <1>3, <2>5, AddressNumbers, SMT DEF ListBase, Index
    <3>. QED BY <1>7, <3>1 DEF ListWord
  <2>. QED BY <2>1, <2>4, <2>5 DEF KeptAt
<1>. QED BY <1>3, <1>4, <1>6, <1>8 DEF MemKept

LEMMA KeptFetch ==
  ASSUME TypeOK, MemoryOK, Fetch, UNCHANGED mainVars,
         ptr < EndOf(List), ptr # EndpointAt, MemKept(mem, List)
  PROVE  /\ ptr' < EndOf(List')
         /\ MemKept(mem', List')
         /\ KeptRun(run', List')
<1>1. /\ ptr # 0 /\ ptr' = 0 /\ mem' = mem
      /\ run'.at = ptr /\ run'.td[1] = mem[ptr] /\ run'.td[2] = mem[ptr + 2]
      /\ run'.td[3] = mem[ptr + 4] /\ run'.td[5] = mem[ptr + 8]
      /\ run'.td[6] = mem[ptr + 10]
      /\ run'.request = IF mem[ptr + 4] % 256 = \hD0 THEN mem[mem[ptr]] ELSE 0
  BY FetchFacts DEF MemoryOK
<1>2. List' = List
  BY DEF List, mainVars
<1>3. /\ 0 < EndOf(List)
      /\ stage = Poll => Len(List) = 6 /\ List[3] = \h291 /\ EndOf(List) = \h50C
      /\ stage # Poll => Len(List) > 6
  BY EndNumbers DEF TypeOK
<1>4. ptr \in Spots /\ KeptAt(mem, ptr, List) /\ SoundAt(mem, ptr)
  BY <1>1, Zenon DEF MemoryOK, MemKept
<1>5. ASSUME Live(mem[ptr + 8]), mem[ptr + 4] % 256 = \hD0
      PROVE  mem[mem[ptr]] = List[7]
  <2>1. ptr = ListBase /\ mem[ptr] = \h50C
    BY <1>4, <1>5, SMT DEF SoundAt, Sound
  <2>2. mem[ptr + 4] = ListWord(List, ptr + 4)
    BY <1>4, <1>5 DEF KeptAt, Like
  <2>3. Index(ListBase + 4) = 3
    BY SMT DEF Index, ListBase
  <2>4. stage # Poll
    BY <1>3, <1>5, <2>1, <2>2, <2>3, SMT DEF ListWord
  <2>5. mem[\h50C] = List[7]
    BY <1>3, <1>4, <1>5, <2>1, <2>4 DEF KeptAt
  <2>. QED BY <2>1, <2>5
<1>6. KeptRun(run', List)
  <2>1. IsSetup(run'.td) <=> mem[ptr + 4] % 256 = \hD0
    BY <1>1 DEF IsSetup
  <2>2. SUFFICES ASSUME Live(mem[ptr + 8])
                 PROVE  /\ ptr \in Spots /\ ptr < EndOf(List)
                        /\ ClearAt(mem, ptr, EndOf(List))
                        /\ Like(List, ptr, mem[ptr], mem[ptr + 2], mem[ptr + 4],
                                mem[ptr + 10])
                        /\ IsSetup(run'.td) => run'.request = List[7]
    BY <1>1, SMT DEF KeptRun, ClearAt
  <2>3. IsSetup(run'.td) => run'.request = List[7]
    BY <1>1, <1>5, <2>1, <2>2
  <2>. QED BY <1>4, <2>2, <2>3 DEF KeptAt
<1>. QED BY <1>1, <1>2, <1>3, <1>6

LEMMA KeptDone ==
  ASSUME TypeOK, MemoryOK, Done, UNCHANGED mainVars,
         ptr < EndOf(List), KeptRun(run, List), MemKept(mem, List)
  PROVE  ptr' < EndOf(List') /\ MemKept(mem', List')
<1>. DEFINE End == EndOf(List)
<1>1. /\ run # NoRun /\ run' = NoRun
      /\ ptr' = ptr \/ (ptr = 0 /\ Active(run.td) /\ ptr' = run.td[6])
  BY DoneControl
<1>2. /\ mem' \in [Addresses -> Word]
      /\ Worn(mem, mem', run.at, run.td, report)
      /\ Active(run.td) => run.at \in Spots
      /\ ~Active(run.td) => mem' = mem
      /\ ~IsData(run.td) /\ ~IsPoll(run.td) =>
           \A a \in Addresses : a # run.at + 8 => mem'[a] = mem[a]
  BY DoneMemory DEF MemoryOK, TypeOK, ChipTypeOK
<1>3. /\ mem \in [Addresses -> Word] /\ (\A b \in Spots : SoundAt(mem, b)) /\ RunSound
  BY <1>1, Zenon DEF MemoryOK
<1>4. List' = List /\ End \in Nat /\ \A b \in Spots : b < End => b + 10 < End
  <2>1. List' = List
    BY DEF List, mainVars
  <2>. QED BY <2>1, EndNumbers DEF TypeOK
<1>. HIDE DEF End
<1>5. Active(run.td) => Clear(run.td[1], run.td[2], run.td[3], run.td[6], End)
  BY DEF KeptRun, Active, Live, End
<1>6. ptr' < End
  <2>1. Active(run.td) => run.td[6] < End
    BY <1>5, SMT DEF Clear
  <2>. QED BY <1>1, <2>1 DEF End
<1>7. ASSUME NEW b \in Spots, b < End, Active(run.td), Live(mem'[b + 8])
      PROVE  KeptAt(mem', b, List)
  <2>1. Live(mem[b + 8])
    BY <1>2, <1>3, <1>7, WornSound
  <2>2. ASSUME NEW a \in {b, b + 2, b + 4, b + 10}
        PROVE  mem'[a] = mem[a]
    <3>1. a \in Addresses /\ a # run.at + 8
      <4>1. run.at \in Spots
        BY <1>2, <1>7
      <4>. QED BY <4>1, SpotWords, SpotGaps, Zenon
    <3>2. a \in Nat /\ a < End
      <4>1. b \in Nat /\ a \in Nat
        BY SMT DEF Spots, Later, ListBase
      <4>. QED BY <1>4, <1>7, <4>1, SMT
    <3>3. CASE IsData(run.td) \/ IsPoll(run.td)
      <4>1. run.td[1] >= End /\ run.td[1] \in Nat
        BY <1>3, <1>5, <1>7, <3>3, SMT DEF IsData, IsPoll, Length, Clear, RunSound, Word
      <4>2. a < run.td[1]
        BY <1>4, <3>2, <4>1, SMT
      <4>. QED BY <3>1, <4>2, DoneAbove
    <3>4. CASE ~(IsData(run.td) \/ IsPoll(run.td))
      BY <1>2, <3>1, <3>4
    <3>. QED BY <3>3, <3>4
  <2>3. mem'[\h50C] = mem[\h50C]
    BY FirstStays
  <2>4. KeptAt(mem, b, List)
    BY <1>7 DEF MemKept, End
  <2>5. /\ ClearAt(mem, b, EndOf(List))
        /\ Like(List, b, mem[b], mem[b + 2], mem[b + 4], mem[b + 10])
        /\ b = ListBase /\ Len(List) > 6 => mem'[\h50C] = List[7]
    BY <2>1, <2>3, <2>4 DEF KeptAt
  <2>6. /\ mem'[b] = mem[b] /\ mem'[b + 2] = mem[b + 2] /\ mem'[b + 4] = mem[b + 4]
        /\ mem'[b + 10] = mem[b + 10]
    BY <2>2
  <2>. QED BY <2>5, <2>6 DEF KeptAt, ClearAt
<1>8. \A b \in Spots : b < End => KeptAt(mem', b, List)
  <2>1. CASE Active(run.td)
    BY <1>7, <2>1 DEF KeptAt
  <2>2. CASE ~Active(run.td)
    BY <1>2, <2>2 DEF MemKept, End
  <2>. QED BY <2>1, <2>2
<1>. QED BY <1>4, <1>6, <1>8 DEF MemKept, End

\* Steps that leave the list, the chip's run and its pointer alone.
LEMMA KeptFrame ==
  ASSUME TypeOK, KeptOK, Underway, UNCHANGED <<mem, ptr, run>>,
         stage' = stage, dataSize' = dataSize, toggle' \in 0..1,
         stage = Poll \/ toggle' = toggle
  PROVE  KeptOK'
<1>1. /\ EndOf(List') = EndOf(List)
      /\ MemKept(mem, List) => MemKept(mem, List')
      /\ KeptRun(run, List) => KeptRun(run, List')
  BY ListStays
<1>2. /\ ptr < EndOf(List)
      /\ ~Idle => MemKept(mem, List)
      /\ run # NoRun => KeptRun(run, List)
  BY DEF KeptOK
<1>3. /\ ptr' < EndOf(List')
      /\ ~Idle' => MemKept(mem', List')
      /\ run' # NoRun => KeptRun(run', List')
  BY <1>1, <1>2, Zenon DEF Idle
<1>. QED BY <1>3 DEF KeptOK

LEMMA KeptStep ==
  ASSUME Always, OrderOK, KeptOK, [Next]_vars
  PROVE  KeptOK'
<1>1. /\ TypeOK /\ TypeOK' /\ MemoryOK /\ PlacesOK
      /\ stage \in 1..Poll /\ toggle' \in 0..1 /\ mishaps \subseteq mishaps'
  <2>1. TypeOK'
    BY TypeStep DEF Always
  <2>. QED BY <2>1, MishapsGrow DEF Always, MemoryOK, TypeOK
<1>2. SUFFICES ASSUME Underway'
               PROVE  KeptOK'
  BY DEF KeptOK
<1>3. "late" \notin mishaps /\ "stray" \notin mishaps
  BY <1>1, <1>2 DEF Underway
<1>4. pc \in Waiting \/ stage = Poll
       => /\ Underway /\ ptr < EndOf(List)
          /\ ~Idle => MemKept(mem, List)
          /\ run # NoRun => KeptRun(run, List)
  BY <1>3 DEF KeptOK, Underway
<1>5. stage # Poll => Orderly
  BY <1>3 DEF Orderly
<1>. USE DEF At, Goto
<1>6. ASSUME stage' = stage, toggle' = toggle, dataSize' = dataSize,
             run # NoRun => KeptRun(run, List), Submit(ListBase, List)
      PROVE  KeptOK'
  BY <1>1, <1>6, KeptList DEF KeptOK
<1>7. CASE UsbSoftReset
  <2>1. pc' = "init" /\ stage' = 1
    BY <1>7 DEF UsbSoftReset
  <2>. QED BY <1>2, <2>1, SMT DEF Underway, Waiting, Poll
<1>8. CASE Step1 \/ Step2 \/ LookForKeyboard
  <2>1. pc \in Early /\ stage' = stage /\ pc' \notin Waiting
    BY <1>8, SMT DEF Step1, Step2, LookForKeyboard, Early, Waiting
  <2>. QED BY <1>1, <1>2, <2>1, SMT DEF Underway, PlacesOK, Poll
<1>9. CASE Send
  <2>1. /\ stage' = stage /\ toggle' = toggle /\ dataSize' = dataSize /\ pc = "send"
        /\ Submit(ListBase, List)
    BY <1>9 DEF Send
  <2>2. run # NoRun => KeptRun(run, List)
    <3>1. CASE stage = Poll
      BY <1>4, <3>1
    <3>2. CASE stage # Poll
      BY <1>5, <2>1, <3>2 DEF OrderOK, KeptRun, Active, Live
    <3>. QED BY <3>1, <3>2
  <2>. QED BY <1>6, <2>1, <2>2
<1>10. CASE AwaitFlag
  <2>1. /\ stage' = stage /\ toggle' = toggle /\ dataSize' = dataSize /\ pc \in Waiting
    BY <1>10 DEF AwaitFlag, Waiting
  <2>2. CASE UNCHANGED <<chipVars, busVars>>
    BY <1>1, <1>4, <2>1, <2>2, LookSame, KeptFrame
  <2>3. CASE Submit(ListBase, List)
    BY <1>4, <1>6, <2>1, <2>3
  <2>. QED BY <1>10, <2>2, <2>3 DEF AwaitFlag
<1>16. CASE Sleep
  <2>1. /\ stage' = stage /\ toggle' = toggle /\ dataSize' = dataSize /\ pc \in Waiting
        /\ UNCHANGED <<mem, ptr, run>>
    BY <1>16, LookSame DEF Sleep, Waiting
  <2>. QED BY <1>1, <1>4, <2>1, KeptFrame
<1>11. CASE UsbWaitTDListDone
  <2>1. /\ stage' = stage /\ toggle' = toggle /\ dataSize' = dataSize /\ pc \in Waiting
        /\ UNCHANGED <<mem, ptr, run>>
    BY <1>11, ChipSame, ReadSame, SMT DEF UsbWaitTDListDone, Waiting
  <2>. QED BY <1>1, <1>4, <2>1, KeptFrame
<1>12. CASE Check \/ UsbGetRetryCnt
  <2>1. pc \in Checking /\ pc' \notin Waiting /\ UNCHANGED <<ptr, run>>
    BY <1>12, ChipSame, ReadSame, SMT DEF Check, UsbGetRetryCnt, NextStage, Checking, Waiting
  <2>2. Idle
    BY <1>1, <1>5, <2>1 DEF OrderOK, PlacesOK
  <2>3. (stage \in 1..Poll /\ toggle \in 0..1 /\ dataSize \in 0..255
         => 0 < EndOf(List))'
    BY EndNumbers, PTL
  <2>4. 0 < EndOf(List)'
    BY <1>1, <2>3 DEF TypeOK
  <2>. QED BY <2>1, <2>2, <2>4 DEF KeptOK, Idle
<1>13. CASE DeviceInfo \/ DataSize
  <2>1. pc' \notin Waiting /\ stage' \in {5, 6}
    BY <1>1, <1>13, SMT DEF DeviceInfo, DataSize, PlacesOK, Waiting
  <2>. QED BY <1>2, <2>1, SMT DEF Underway, Poll
<1>14. CASE ShowKey \/ LookAtLine
  <2>1. /\ stage = Poll /\ stage' = stage /\ dataSize' = dataSize
        /\ UNCHANGED <<mem, ptr, run>>
    BY <1>1, <1>14, ChipSame DEF ShowKey, LookAtLine, PlacesOK
  <2>. QED BY <1>1, <1>4, <2>1, KeptFrame
<1>15. CASE UNCHANGED mainVars
             /\ (ExecInit \/ ExecReset \/ Fetch \/ Done \/ TypeKey \/ PlugIn
                 \/ Unplug \/ UNCHANGED vars)
  <2>1. pc' = pc /\ stage' = stage /\ toggle' = toggle /\ dataSize' = dataSize
    BY <1>15 DEF mainVars
  <2>2. pc \in Waiting \/ stage = Poll
    BY <1>2, <2>1 DEF Underway
  <2>3. CASE Fetch
    <3>1. ptr # 0 /\ run = NoRun
      BY <1>1, <2>3, FetchFacts DEF MemoryOK
    <3>2. ptr # EndpointAt
      <4>1. CASE stage = Poll
        <5>1. EndOf(List) = \h50C /\ ptr < EndOf(List)
          BY <1>1, <1>4, <4>1, EndNumbers DEF TypeOK
        <5>. QED BY <5>1, SMT DEF EndpointAt
      <4>2. CASE stage # Poll
        BY <1>5, <2>2, <4>2 DEF OrderOK
      <4>. QED BY <4>1, <4>2
    <3>. QED BY <1>1, <1>4, <1>15, <2>2, <2>3, <3>1, <3>2, KeptFetch DEF KeptOK, Idle
  <2>4. CASE Done
    <3>1. run # NoRun /\ run' = NoRun
      BY <2>4, DoneControl
    <3>. QED BY <1>1, <1>4, <1>15, <2>2, <2>4, <3>1, KeptDone DEF KeptOK, Idle
  <2>5. CASE ExecInit \/ ExecReset \/ TypeKey \/ PlugIn \/ Unplug \/ UNCHANGED vars
    <3>1. UNCHANGED <<mem, ptr, run>>
      BY <2>5 DEF ExecInit, ExecReset, TypeKey, PlugIn, Unplug, PortChanges, vars, chipVars
    <3>. QED BY <1>1, <1>4, <2>1, <2>2, <3>1, KeptFrame
  <2>. QED BY <1>15, <2>3, <2>4, <2>5
<1>. QED BY <1>7, <1>8, <1>9, <1>10, <1>11, <1>12, <1>13, <1>14, <1>15, <1>16, NextCases

LEMMA KeptHolds == Spec => [](Always /\ OrderOK /\ KeptOK)
<1>1. Init => KeptOK
  <2>1. Init => pc = "softReset" /\ stage = 1
    BY DEF Init
  <2>. QED BY <2>1, SMT DEF KeptOK, Underway, Waiting, Poll
<1>2. Always /\ OrderOK /\ KeptOK /\ [Next]_vars => KeptOK'
  BY KeptStep
<1>. QED BY <1>1, <1>2, OrderHolds, PTL DEF Spec

\* Outside the polls the chip executes an active descriptor only while main
\* waits for a list.
LEMMA ActiveWaits ==
  ASSUME OrderOK, ControlOK, PlacesOK, pc \in Places,
         "late" \notin mishaps, "stray" \notin mishaps, run # NoRun, Active(run.td)
  PROVE  pc \in Waiting \/ stage = Poll
<1>1. SUFFICES ASSUME stage # Poll
               PROVE  pc \in Waiting
  OBVIOUS
<1>2. Orderly
  BY <1>1 DEF Orderly
<1>3. pc \notin Checking \cup {"info", "softReset", "send", "size"}
  BY <1>2 DEF OrderOK, Idle
<1>4. pc \notin Early
  BY DEF ControlOK, Idle
<1>5. pc \notin {"show", "line", "removed"}
  BY <1>1 DEF PlacesOK
<1>. QED BY <1>3, <1>4, <1>5, SMT DEF Places, Waiting, Checking, Early

\* What the chip executes is a descriptor of the list that main has sent,
\* although main writes each list over the last one, and over itself while
\* the chip is in it (main.c 205-213, 491-512): no word of an older list or
\* of the keyboard's data is taken for a descriptor.
THEOREM ListsStayWhole == Spec => []ListsKeptWhole
<1>1. ASSUME Always, OrderOK, KeptOK, mishaps \cap {"late", "stray"} = {},
             run # NoRun, Active(run.td)
      PROVE  /\ Place(6) \in DOMAIN List
             /\ \A i \in {1, 2, 3, 6} : run.td[i] = List[Place(i)]
             /\ IsSetup(run.td) => run.request = List[7]
             /\ IsData(run.td) \/ IsPoll(run.td) => run.td[1] >= ListBase + 2 * Len(List)
  <2>1. "late" \notin mishaps /\ "stray" \notin mishaps
    BY <1>1
  <2>2. PlacesOK /\ ControlOK /\ TypeOK /\ pc \in Places
    BY <1>1 DEF Always, TypeOK
  <2>3. pc \in Waiting \/ stage = Poll
    BY <1>1, <2>1, <2>2, ActiveWaits
  <2>4. KeptRun(run, List)
    BY <1>1, <2>1, <2>3 DEF KeptOK, Underway
  <2>5. /\ run.at \in Spots /\ run.at < EndOf(List)
        /\ Clear(run.td[1], run.td[2], run.td[3], run.td[6], EndOf(List))
        /\ Like(List, run.at, run.td[1], run.td[2], run.td[3], run.td[6])
        /\ IsSetup(run.td) => run.request = List[7]
    BY <1>1, <2>4 DEF KeptRun, Active, Live
  <2>6. PICK o \in {0} \cup Starts : o \in Nat /\ run.at = ListBase + 2 * o
    BY <2>5, SpotNumbers
  <2>7. /\ Place(1) = o + 1 /\ Place(2) = o + 2 /\ Place(3) = o + 3 /\ Place(6) = o + 6
        /\ Index(run.at) = o + 1 /\ Index(run.at + 2) = o + 2
        /\ Index(run.at + 4) = o + 3 /\ Index(run.at + 10) = o + 6
    BY <2>6, SMT DEF Place, Index, ListBase
  <2>8. Place(6) \in DOMAIN List
    <3>1. PICK n : /\ Laid(List, n) /\ EndOf(List) = ListBase + 2 * n
                   /\ run.at + 10 < EndOf(List)
      BY <2>2, <2>5, EndNumbers DEF TypeOK
    <3>2. n \in Nat /\ DOMAIN List = 1..n
      BY <3>1, SMT DEF Laid, Starts
    <3>. QED BY <2>6, <2>7, <3>1, <3>2, SMT DEF ListBase
  <2>9. \A i \in {1, 2, 3, 6} : run.td[i] = List[Place(i)]
    BY <2>5, <2>7, SMT DEF Like, ListWord
  <2>10. IsData(run.td) \/ IsPoll(run.td) => run.td[1] >= EndOf(List)
    BY <2>5, SMT DEF Clear, IsData, IsPoll, Length
  <2>. QED BY <2>5, <2>8, <2>9, <2>10 DEF EndOf
<1>2. Always /\ OrderOK /\ KeptOK => ListsKeptWhole
  BY <1>1 DEF ListsKeptWhole
<1>. QED BY <1>2, KeptHolds, PTL

-----------------------------------------------------------------------------
(* The keyboard's state.  A line without noise, no list that is still under *)
(* way after its 10 ms, no keyboard put back unseen.                        *)

Clean == mishaps \cap {"noise", "plug", "late", "stray"} = {}

Second == \h514

\* The two descriptors of the lists that change the keyboard's state, in the
\* memory and in the chip.
Opening(t, w, k) ==
    t = (IF stage = 1 THEN \hD0 ELSE \h2D0) /\ Live(w) /\ k = Second
Closing(l, t, w, k) ==
    l = 0 /\ t = (IF stage = 1 THEN \h90 ELSE \h290) /\ Live(w) /\ k = 0
OpeningAt(m) == Opening(m[ListBase + 4], m[ListBase + 8], m[ListBase + 10])
ClosingAt(m) ==
    Closing(m[Second + 2], m[Second + 4], m[Second + 8], m[Second + 10])

\* The chip's way through such a list.  A list that is sent again while the
\* chip is in the first descriptor begins anew when that one is done, without
\* a message and with a first descriptor that is no longer active; while the
\* chip is in the last one, the keyboard has done what it was asked for
\* (Served), whatever the second run of the list brings.
NotActive == run = NoRun \/ ~Active(run.td)
Sent ==
    /\ ptr = ListBase /\ OpeningAt(mem) /\ ClosingAt(mem)
    /\ NotActive
Opened ==
    /\ run # NoRun /\ run.at = ListBase
    /\ Opening(run.td[3], run.td[5], run.td[6])
    /\ (ptr = 0 /\ ClosingAt(mem)) \/ (ptr = ListBase /\ Quiet)
Asked ==
    /\ request = IF stage = 1 THEN \h500 ELSE \h900
    /\ stage = 1 => device = "default"
Answered == ptr = Second /\ run = NoRun /\ ClosingAt(mem) /\ Asked
Closed ==
    /\ run # NoRun /\ run.at = Second /\ Asked
    /\ Closing(run.td[2], run.td[3], run.td[5], run.td[6])

\* Main knows, or will know, that a list has ended.
Told == ~Quiet \/ pc \in Checking \/ (pc = "clear" /\ got = "done")
Ended ==
    /\ ptr = 0 \/ (ptr = ListBase /\ ~Live(mem[RetryWord]))
    /\ NotActive
    /\ Told => stage = 1 /\ mem[RetryWord] # 3
Served ==
    /\ stage = 1 => device \in {"addressed", "configured"}
    /\ stage = 6 => device = "configured" /\ request = \h900

Way == Sent \/ Opened \/ Answered \/ Closed \/ Ended \/ Served

ListOK ==
    pc \in Waiting \cup Checking /\ stage \in {1, 6} =>
         /\ command # "none" => Sent
         /\ Way

StateOK ==
    /\ stage \in 2..9 => device \in {"addressed", "configured"}
    /\ stage \in 7..9 => device = "configured" /\ request # \h500
    /\ stage = Poll =>
         /\ ptr \in {0, ListBase}
         /\ ptr = ListBase /\ Live(mem[ListBase + 8]) => mem[ListBase + 4] = \h291
         /\ run # NoRun /\ Active(run.td) => run.td[3] = \h291
         /\ pc \notin {"removed", "softReset"} => device \in {"configured", "none"}

CleanOK == Clean => ListOK /\ StateOK

\* The words of the lists that the keyboard's state depends on.
LEMMA ListHead ==
  ASSUME TypeOK, stage # Poll
  PROVE  /\ List[5] = \h13 /\ List[6] = Second /\ (stage # 1 => List[7] # \h500)
         /\ stage \in {1, 6} =>
              /\ List[3] = IF stage = 1 THEN \hD0 ELSE \h2D0
              /\ List[12] = 0 /\ List[13] = IF stage = 1 THEN \h90 ELSE \h290
              /\ List[15] = \h13 /\ List[16] = 0
              /\ List[7] = IF stage = 1 THEN \h500 ELSE \h900
<1>1. PICK q \in Requests : Opens(List, q) /\ (stage # 1 => q # \h500)
  BY ListLaid DEF TypeOK
<1>2. List[7] = q /\ List[5] = \h13 /\ List[6] = Second
  BY <1>1, SMT DEF Opens, Second
<1>3. stage \in {1, 6} =>
         /\ List[3] = IF stage = 1 THEN \hD0 ELSE \h2D0
         /\ List[12] = 0 /\ List[13] = IF stage = 1 THEN \h90 ELSE \h290
         /\ List[15] = \h13 /\ List[16] = 0
         /\ List[7] = IF stage = 1 THEN \h500 ELSE \h900
  <2>1. ASSUME NEW s, NEW d, \A j \in 1..6 : s[10 + j] = d[j]
        PROVE  s[12] = d[2] /\ s[13] = d[3] /\ s[15] = d[5] /\ s[16] = d[6]
    BY <2>1, SMT
  <2>2. ASSUME NEW s, NEW e, NEW r, Chain(s, 16, e, r)
        PROVE  s[7] = r
    BY <2>2, SMT DEF Chain, Opens
  <2>3. CASE stage = 1
    <3>1. List = UsbSetAddress
      BY <2>3, SMT DEF List, Lists, FirstLists, ConfigLists, LastLists, Poll
    <3>2. /\ List[3] = \hD0 /\ List[7] = \h500
          /\ \A j \in 1..6 : List[10 + j] = Descriptor(0, 0, \h90, \h41, 0)[j]
      BY <2>2, <3>1, UsbSetAddressWhole, SMT
    <3>3. PICK d : d = Descriptor(0, 0, \h90, \h41, 0)
      OBVIOUS
    <3>4. d[2] = 0 /\ d[3] = \h90 /\ d[5] = \h13 /\ d[6] = 0
      BY <3>3, SMT DEF Descriptor
    <3>5. List[12] = d[2] /\ List[13] = d[3] /\ List[15] = d[5] /\ List[16] = d[6]
      BY <2>1, <3>2, <3>3
    <3>. QED BY <2>3, <3>2, <3>4, <3>5, SMT
  <2>4. CASE stage = 6
    <3>1. List = UsbSetConfig
      BY <2>4, SMT DEF List, Lists, FirstLists, ConfigLists, LastLists, Poll
    <3>2. /\ List[3] = \h2D0 /\ List[7] = \h900
          /\ \A j \in 1..6 : List[10 + j] = StatusIn[j]
      BY <2>2, <3>1, UsbSetConfigWhole, SMT
    <3>3. PICK d : d = StatusIn
      OBVIOUS
    <3>4. d[2] = 0 /\ d[3] = \h290 /\ d[5] = \h13 /\ d[6] = 0
      BY <3>3, SMT DEF StatusIn, Descriptor
    <3>5. List[12] = d[2] /\ List[13] = d[3] /\ List[15] = d[5] /\ List[16] = d[6]
      BY <2>1, <3>2, <3>3
    <3>. QED BY <2>4, <3>2, <3>4, <3>5, SMT
  <2>. QED BY <2>3, <2>4
<1>. QED BY <1>1, <1>2, <1>3

LEMMA ListRequest ==
  ASSUME TypeOK, MemoryOK, Submit(ListBase, List), stage # Poll
  PROVE  stage \in {1, 6} => OpeningAt(mem') /\ ClosingAt(mem')
<1>1. PICK n : Laid(List, n) /\ n \in Starts \cup {64} /\ n # 10
  BY ListLaid DEF TypeOK
<1>2. mem \in [Addresses -> Word] /\ mem' = Written(mem, ListBase, List)
  BY DEF MemoryOK, Submit
<1>3. \A a \in Addresses : a < ListBase + 2 * n => mem'[a] = ListWord(List, a)
  BY <1>1, <1>2, ListWords
<1>4. /\ ListBase + 4 \in Addresses /\ ListBase + 8 \in Addresses
      /\ ListBase + 10 \in Addresses /\ Second + 2 \in Addresses
      /\ Second + 4 \in Addresses /\ Second + 8 \in Addresses /\ Second + 10 \in Addresses
  BY AddressNumbers, SMT DEF ListBase, Second
<1>5. /\ ListBase + 4 < ListBase + 2 * n
      /\ ListBase + 8 < ListBase + 2 * n /\ ListBase + 10 < ListBase + 2 * n
      /\ Second + 2 < ListBase + 2 * n /\ Second + 4 < ListBase + 2 * n
      /\ Second + 8 < ListBase + 2 * n /\ Second + 10 < ListBase + 2 * n
  BY <1>1, SMT DEF ListBase, Second, Starts
<1>6. /\ Index(ListBase + 4) = 3 /\ Index(ListBase + 8) = 5
      /\ Index(ListBase + 10) = 6 /\ Index(Second + 2) = 12 /\ Index(Second + 4) = 13
      /\ Index(Second + 8) = 15 /\ Index(Second + 10) = 16
  BY SMT DEF Index, ListBase, Second
<1>7. /\ mem'[ListBase + 4] = List[3]
      /\ mem'[ListBase + 8] = List[5] /\ mem'[ListBase + 10] = List[6]
      /\ mem'[Second + 2] = List[12] /\ mem'[Second + 4] = List[13]
      /\ mem'[Second + 8] = List[15] /\ mem'[Second + 10] = List[16]
  BY <1>3, <1>4, <1>5, <1>6 DEF ListWord
<1>. QED BY <1>7, ListHead, NotLive, SMT DEF OpeningAt, ClosingAt, Opening, Closing

LEMMA NoMishap ==
  ASSUME NEW kind \in {"noise", "plug", "late", "stray"}, NEW bad, Mishap(kind, bad),
         Clean'
  PROVE  ~bad
<1>1. mishaps' \cap {"noise", "plug", "late", "stray"} = {}
  BY DEF Clean
<1>. QED BY <1>1, MishapGrows

\* What the chip does with a descriptor when the line has no noise.
LEMMA CleanDone ==
  ASSUME Done, Clean'
  PROVE  /\ ~Active(run.td) \/ IsPoll(run.td) \/ ~Reaches(run.td) \/ ~Accepts(run.td)
              => ptr' = ptr /\ device' = device /\ request' = request
         /\ ~Active(run.td) => Silent
         /\ Active(run.td) /\ ~Reaches(run.td) => mem' = Result(mem, 0)
         /\ Active(run.td) /\ ~IsPoll(run.td) /\ Reaches(run.td) /\ Accepts(run.td) =>
              /\ run.td[6] # 0 => Silent /\ ptr' = IF ptr = 0 THEN run.td[6] ELSE ptr
              /\ run.td[6] = 0 => ptr' = ptr
              /\ mem' = Result(Received(run.td), 3)
              /\ request' = IF IsSetup(run.td) THEN run.request ELSE request
              /\ device' = DeviceAfter(run.td)
<1>1. CASE CompleteInactive
  <2>1. ASSUME Mishap("stray", TRUE)
        PROVE  FALSE
    BY <2>1, NoMishap
  <2>. QED BY <1>1, <2>1 DEF CompleteInactive, busVars
<1>2. CASE CompleteControl
  <2>1. /\ Active(run.td) /\ ~IsPoll(run.td) /\ Reaches(run.td) /\ Accepts(run.td)
        /\ NextDescriptor(run.td)
        /\ mem' = Result(Received(run.td), 3)
        /\ request' = IF IsSetup(run.td) THEN run.request ELSE request
        /\ device' = DeviceAfter(run.td)
    BY <1>2, Zenon DEF CompleteControl
  <2>2. /\ run.td[6] # 0 => Silent /\ ptr' = IF ptr = 0 THEN run.td[6] ELSE ptr
        /\ run.td[6] = 0 => ptr' = ptr
    BY <2>1, Zenon DEF NextDescriptor, GoesOn, ListEnds
  <2>. QED BY <2>1, <2>2, Zenon
<1>3. CASE CompleteRetried
  <2>1. Mishap("noise", TRUE)
    BY <1>3 DEF CompleteRetried
  <2>. QED BY <2>1, NoMishap
<1>4. CASE CompleteReport
  BY <1>4, Zenon DEF CompleteReport, ListEnds
<1>5. CASE CompleteNak
  BY <1>5, Zenon DEF CompleteNak, ListEnds, busVars
<1>6. CASE CompleteFailed
  <2>1. /\ UNCHANGED <<device, request>> /\ Active(run.td)
        /\ \/ ~Reaches(run.td) /\ mem' = Result(mem, 0) /\ ptr' = ptr
           \/ Reaches(run.td) /\ ~Accepts(run.td) /\ ptr' = ptr
           \/ Mishap("noise", TRUE)
    BY <1>6, Zenon DEF CompleteFailed, ListEnds, busVars
  <2>2. ASSUME Mishap("noise", TRUE)
        PROVE  FALSE
    BY <2>2, NoMishap
  <2>. QED BY <2>1, <2>2, Zenon
<1>. QED BY <1>1, <1>2, <1>3, <1>4, <1>5, <1>6 DEF Done, Complete, Nak

\* The two predicates about the memory and the request, by the variables they
\* read.
LEMMA ListFrame ==
  ASSUME stage' = stage
  PROVE  /\ mem' = mem /\ OpeningAt(mem) => OpeningAt(mem)'
         /\ mem' = mem /\ ClosingAt(mem) => ClosingAt(mem)'
         /\ device' = device /\ request' = request /\ Asked => Asked'
         /\ run' = run /\ NotActive => NotActive'
         /\ run' = NoRun => NotActive'
BY SMT DEF OpeningAt, ClosingAt, Opening, Closing, Asked, NotActive, Active

\* Steps that leave the list, the chip and the keyboard alone.
LEMMA WayFrame ==
  ASSUME Way, UNCHANGED <<mem, ptr, run, device, request>>, stage' = stage,
         Told' => Told, Quiet => Quiet'
  PROVE  Way' /\ (Sent => Sent')
<1>1. /\ mem' = mem /\ ptr' = ptr /\ run' = run /\ device' = device
      /\ request' = request /\ stage' = stage
  OBVIOUS
<1>2. /\ OpeningAt(mem) => OpeningAt(mem)'
      /\ ClosingAt(mem) => ClosingAt(mem)'
      /\ Asked => Asked'
      /\ NotActive => NotActive'
  BY <1>1, ListFrame
<1>3. Sent => Sent'
  BY <1>1, <1>2 DEF Sent
<1>4. Opened => Opened'
  <2>1. Opening(run.td[3], run.td[5], run.td[6])
          => Opening(run.td[3], run.td[5], run.td[6])'
    BY <1>1, SMT DEF Opening
  <2>. QED BY <1>1, <1>2, <2>1, Zenon DEF Opened
<1>5. Answered => Answered'
  BY <1>1, <1>2 DEF Answered
<1>6. Closed => Closed'
  <2>1. Closing(run.td[2], run.td[3], run.td[5], run.td[6])
          => Closing(run.td[2], run.td[3], run.td[5], run.td[6])'
    BY <1>1, SMT DEF Closing
  <2>. QED BY <1>1, <1>2, <2>1 DEF Closed
<1>7. Ended => Ended'
  BY <1>1, <1>2 DEF Ended
<1>8. Served => Served'
  BY <1>1 DEF Served
<1>. QED BY <1>3, <1>4, <1>5, <1>6, <1>7, <1>8 DEF Way

\* A list that is sent, whatever the chip is at.
LEMMA ListSent ==
  ASSUME TypeOK, MemoryOK, Submit(ListBase, List), stage' = stage, stage \in {1, 6},
         NotActive
  PROVE  Sent'
<1>1. ptr' = ListBase /\ run' = run
  BY SubmitSame
<1>2. OpeningAt(mem') /\ ClosingAt(mem')
  <2>1. stage # Poll
    BY SMT DEF Poll
  <2>. QED BY <2>1, ListRequest
<1>3. OpeningAt(mem)' /\ ClosingAt(mem)'
  BY <1>2, SMT DEF OpeningAt, ClosingAt, Opening, Closing
<1>4. NotActive'
  BY <1>1, ListFrame
<1>. QED BY <1>1, <1>3, <1>4 DEF Sent

\* A list that is sent again at once: if the chip is in the first descriptor
\* it will begin anew.
LEMMA SentAgain ==
  ASSUME TypeOK, MemoryOK, Submit(ListBase, List), stage' = stage, stage \in {1, 6},
         Way, ~Quiet => Idle, run # NoRun /\ Active(run.td) => ptr = 0
  PROVE  Way' /\ (Sent => Sent')
<1>1. /\ ptr' = ListBase /\ run' = run /\ msg' = msg /\ device' = device
      /\ request' = request
  BY SubmitSame
<1>2. NotActive => Sent'
  BY ListSent
<1>3. CASE Opened
  <2>1. /\ run # NoRun /\ run.at = ListBase /\ Opening(run.td[3], run.td[5], run.td[6])
    BY <1>3 DEF Opened
  <2>2. Quiet'
    <3>1. Quiet
      BY <2>1 DEF Idle
    <3>. QED BY <1>1, <3>1 DEF Quiet
  <2>3. Opening(run.td[3], run.td[5], run.td[6])'
    BY <1>1, <2>1, SMT DEF Opening
  <2>4. Opened'
    BY <1>1, <2>1, <2>2, <2>3, Zenon DEF Opened
  <2>5. Active(run.td)
    BY <2>1, SMT DEF Opening, Active, Live
  <2>6. ~Sent
    BY <2>1, <2>5 DEF Sent, NotActive
  <2>. QED BY <2>4, <2>6 DEF Way
<1>4. CASE Closed
  <2>1. /\ run # NoRun /\ run.at = Second /\ Asked
        /\ Closing(run.td[2], run.td[3], run.td[5], run.td[6])
    BY <1>4 DEF Closed
  <2>2. Asked'
    BY <1>1, <2>1, ListFrame
  <2>3. Closing(run.td[2], run.td[3], run.td[5], run.td[6])'
    BY <1>1, <2>1, SMT DEF Closing
  <2>4. Closed'
    BY <1>1, <2>1, <2>2, <2>3 DEF Closed
  <2>5. Active(run.td)
    BY <2>1, SMT DEF Closing, Active, Live
  <2>6. ~Sent
    BY <2>1, <2>5 DEF Sent, NotActive
  <2>. QED BY <2>4, <2>6 DEF Way
<1>5. CASE Served
  <2>1. Served'
    BY <1>1, <1>5 DEF Served
  <2>. QED BY <1>2, <2>1 DEF Way, Sent
<1>6. CASE Sent \/ Answered \/ Ended
  <2>1. NotActive
    BY <1>6 DEF Sent, Answered, Ended, NotActive
  <2>. QED BY <1>2, <2>1 DEF Way
<1>. QED BY <1>3, <1>4, <1>5, <1>6 DEF Way

LEMMA ListFetch ==
  ASSUME TypeOK, MemoryOK, ListOK, Fetch, UNCHANGED mainVars
  PROVE  ListOK'
<1>1. /\ run = NoRun /\ ptr # 0 /\ ptr' = 0 /\ mem' = mem
      /\ run'.at = ptr /\ run'.td[1] = mem[ptr] /\ run'.td[2] = mem[ptr + 2]
      /\ run'.td[3] = mem[ptr + 4] /\ run'.td[5] = mem[ptr + 8]
      /\ run'.td[6] = mem[ptr + 10] /\ run' # NoRun
      /\ command' = "none" /\ msg' = msg
      /\ device' = device /\ request' = request
  BY FetchFacts DEF MemoryOK, busVars
<1>2. pc' = pc /\ stage' = stage /\ got' = got
  BY DEF mainVars
<1>3. /\ OpeningAt(mem) => OpeningAt(mem)'
      /\ ClosingAt(mem) => ClosingAt(mem)'
      /\ Asked => Asked'
  BY <1>1, <1>2, ListFrame
<1>4. ASSUME pc \in Waiting \cup Checking, stage \in {1, 6}
      PROVE  Way'
  <2>1. Way
    BY <1>4 DEF ListOK
  <2>2. CASE Sent
    <3>1. ptr = ListBase /\ OpeningAt(mem) /\ ClosingAt(mem)
      BY <2>2 DEF Sent
    <3>2. Opening(run'.td[3], run'.td[5], run'.td[6])
      BY <1>1, <3>1 DEF OpeningAt
    <3>3. Opening(run.td[3], run.td[5], run.td[6])'
      BY <1>2, <3>2, SMT DEF Opening
    <3>. QED BY <1>1, <1>3, <3>1, <3>3, Zenon DEF Opened, Way
  <2>3. CASE Answered
    <3>1. ptr = Second /\ ClosingAt(mem) /\ Asked
      BY <2>3 DEF Answered
    <3>2. Closing(run'.td[2], run'.td[3], run'.td[5], run'.td[6])
      BY <1>1, <3>1 DEF ClosingAt
    <3>3. Closing(run.td[2], run.td[3], run.td[5], run.td[6])'
      BY <1>2, <3>2, SMT DEF Closing
    <3>. QED BY <1>1, <1>3, <3>1, <3>3 DEF Closed, Way
  <2>4. CASE Ended
    <3>1. ptr = ListBase /\ ~Live(mem[RetryWord])
      BY <1>1, <2>4 DEF Ended
    <3>2. ~Active(run'.td)
      <4>1. RetryWord = ListBase + 8
        BY SMT DEF RetryWord, ListBase
      <4>. QED BY <1>1, <3>1, <4>1 DEF Active, Live
    <3>3. NotActive'
      BY <3>2 DEF NotActive, Active
    <3>4. Told' => Told
      BY <1>1, <1>2 DEF Told, Quiet
    <3>. QED BY <1>1, <1>2, <2>4, <3>3, <3>4 DEF Ended, Way
  <2>5. CASE Served
    BY <1>1, <1>2, <2>5 DEF Served, Way
  <2>6. ~Opened /\ ~Closed
    BY <1>1 DEF Opened, Closed
  <2>. QED BY <2>1, <2>2, <2>3, <2>4, <2>5, <2>6 DEF Way
<1>. QED BY <1>1, <1>2, <1>4 DEF ListOK

\* What the chip takes the two descriptors for.
LEMMA OpeningKind ==
  ASSUME NEW td, Opening(td[3], td[5], td[6])
  PROVE  /\ Active(td) /\ IsSetup(td) /\ ~IsStatus(td) /\ ~IsData(td) /\ ~IsPoll(td)
         /\ td[6] = Second /\ Second # 0
         /\ td[3] \div 256 = IF stage = 1 THEN 0 ELSE 2
BY SMT DEF Opening, Active, Live, IsSetup, IsStatus, IsData, IsPoll, Second

LEMMA ClosingKind ==
  ASSUME NEW td, Closing(td[2], td[3], td[5], td[6])
  PROVE  /\ Active(td) /\ IsStatus(td) /\ ~IsSetup(td) /\ ~IsData(td) /\ ~IsPoll(td)
         /\ td[6] = 0 /\ td[3] % 256 # \h10
         /\ td[3] \div 256 = IF stage = 1 THEN 0 ELSE 2
BY SMT DEF Closing, Active, Live, IsSetup, IsStatus, IsData, IsPoll, Length

\* The addresses of the second descriptor are not the result of the first.
LEMMA ClosingStays ==
  ASSUME ClosingAt(mem), run.at = ListBase, stage' = stage,
         \A a \in Addresses : a # run.at + 8 => mem'[a] = mem[a]
  PROVE  ClosingAt(mem)'
<1>1. /\ Second + 2 \in Addresses /\ Second + 4 \in Addresses
      /\ Second + 8 \in Addresses /\ Second + 10 \in Addresses
      /\ Second + 2 # ListBase + 8 /\ Second + 4 # ListBase + 8
      /\ Second + 8 # ListBase + 8 /\ Second + 10 # ListBase + 8
  BY AddressNumbers, SMT DEF ListBase, Second
<1>2. /\ mem'[Second + 2] = mem[Second + 2] /\ mem'[Second + 4] = mem[Second + 4]
      /\ mem'[Second + 8] = mem[Second + 8] /\ mem'[Second + 10] = mem[Second + 10]
  BY <1>1
<1>. QED BY <1>2, SMT DEF ClosingAt, Closing

\* The result of the first descriptor is written to the word main looks at.
LEMMA ResultAt ==
  ASSUME TypeOK, run.at = ListBase, NEW v \in {0, 3}, mem' = Result(mem, v)
  PROVE  mem'[RetryWord] = v /\ ~Live(mem'[RetryWord])
<1>1. RetryWord \in DOMAIN mem /\ RetryWord = run.at + 8
  BY AddressNumbers, SMT DEF RetryWord, ListBase, TypeOK, ChipTypeOK
<1>2. mem'[RetryWord] = v
  BY <1>1 DEF Result
<1>. QED BY <1>2, NotLive, SMT

LEMMA OpenedDone ==
  ASSUME TypeOK, MemoryOK, OrderOK, KeptOK, StateOK, Opened, Done, UNCHANGED mainVars,
         pc \in Waiting, stage \in {1, 6}, Clean, Clean'
  PROVE  Answered' \/ Ended'
<1>1. /\ run # NoRun /\ run' = NoRun
      /\ ~IsData(run.td) /\ ~IsPoll(run.td) =>
           \A a \in Addresses : a # run.at + 8 => mem'[a] = mem[a]
  BY DoneControl, DoneMemory DEF MemoryOK, TypeOK, ChipTypeOK
<1>2. pc' = pc /\ stage' = stage /\ got' = got
  BY DEF mainVars
<1>3. run.at = ListBase /\ Opening(run.td[3], run.td[5], run.td[6])
  BY DEF Opened
<1>4. /\ Active(run.td) /\ IsSetup(run.td) /\ ~IsStatus(run.td) /\ ~IsData(run.td)
      /\ ~IsPoll(run.td) /\ run.td[6] = Second /\ Second # 0
      /\ run.td[3] \div 256 = IF stage = 1 THEN 0 ELSE 2
  BY <1>3, OpeningKind
<1>5. Accepts(run.td) /\ Received(run.td) = mem
  BY <1>4 DEF Accepts, Received
<1>6. NotActive'
  BY <1>1 DEF NotActive
<1>7. CASE ~Reaches(run.td)
  <2>1. stage = 1
    <3>1. stage = 6 => device \in {"addressed", "configured"}
      BY SMT DEF StateOK
    <3>. QED BY <1>4, <1>7, <3>1, SMT DEF Reaches
  <2>2. ptr' = ptr /\ mem' = Result(mem, 0)
    BY <1>4, <1>7, CleanDone
  <2>3. mem'[RetryWord] = 0 /\ ~Live(mem'[RetryWord])
    BY <1>3, <2>2, ResultAt
  <2>4. ptr' = 0 \/ ptr' = ListBase
    BY <2>2 DEF Opened
  <2>. QED BY <1>2, <1>6, <2>1, <2>3, <2>4, SMT DEF Ended
<1>8. CASE Reaches(run.td)
  <2>1. /\ ptr' = IF ptr = 0 THEN Second ELSE ptr
        /\ Silent /\ mem' = Result(mem, 3)
        /\ request' = run.request /\ device' = DeviceAfter(run.td)
    BY <1>4, <1>5, <1>8, CleanDone
  <2>2. CASE ptr = 0
    <3>1. ClosingAt(mem)
      BY <2>2, EndpointNumbers DEF Opened
    <3>2. ClosingAt(mem)'
      BY <1>1, <1>2, <1>3, <1>4, <3>1, ClosingStays
    <3>3. device' = device
      BY <1>4, <2>1 DEF DeviceAfter
    <3>4. stage = 1 => device = "default"
      BY <1>4, <1>8, SMT DEF Reaches
    <3>5. run.request = List[7]
      <4>1. KeptRun(run, List)
        BY <1>1, SMT DEF KeptOK, Underway, Clean
      <4>. QED BY <1>4, <4>1 DEF KeptRun, Active, Live
    <3>6. List[7] = IF stage = 1 THEN \h500 ELSE \h900
      BY ListHead, SMT DEF Poll
    <3>7. Asked'
      BY <1>2, <2>1, <3>3, <3>4, <3>5, <3>6, SMT DEF Asked
    <3>. QED BY <1>1, <2>1, <2>2, <3>2, <3>7 DEF Answered
  <2>3. CASE ptr # 0
    <3>1. ptr' = ListBase /\ Quiet
      BY <2>1, <2>3 DEF Opened
    <3>2. ~Live(mem'[RetryWord])
      BY <1>3, <2>1, ResultAt
    <3>3. pc \notin Checking /\ ~(pc = "clear" /\ got = "done")
      <4>1. Orderly
        BY SMT DEF Orderly, Clean, Poll
      <4>2. ~Idle
        BY <1>1 DEF Idle
      <4>. QED BY <4>1, <4>2, SMT DEF OrderOK, Waiting, Checking
    <3>4. ~Told'
      BY <1>2, <2>1, <3>1, <3>3 DEF Told, Quiet, Silent
    <3>. QED BY <1>6, <3>1, <3>2, <3>4 DEF Ended
  <2>. QED BY <2>2, <2>3
<1>. QED BY <1>7, <1>8

LEMMA ClosedDone ==
  ASSUME StateOK, Closed, Done, UNCHANGED mainVars, stage \in {1, 6}, Clean'
  PROVE  Served'
<1>1. Asked /\ Closing(run.td[2], run.td[3], run.td[5], run.td[6])
  BY DEF Closed
<1>2. /\ Active(run.td) /\ IsStatus(run.td) /\ ~IsSetup(run.td) /\ ~IsPoll(run.td)
      /\ run.td[3] % 256 # \h10
      /\ run.td[3] \div 256 = IF stage = 1 THEN 0 ELSE 2
  BY <1>1, ClosingKind
<1>3. Reaches(run.td)
  <2>1. stage = 6 => device \in {"addressed", "configured"}
    BY SMT DEF StateOK
  <2>. QED BY <1>1, <1>2, <2>1, SMT DEF Reaches, Asked
<1>4. Accepts(run.td)
  <2>1. request # 0 /\ ~Reading
    BY <1>1, SMT DEF Asked, Reading
  <2>. QED BY <1>2, <2>1 DEF Accepts
<1>5. request' = request /\ device' = DeviceAfter(run.td)
  BY <1>2, <1>3, <1>4, CleanDone
<1>6. device' = IF stage = 1 THEN "addressed" ELSE "configured"
  BY <1>1, <1>2, <1>5, SMT DEF DeviceAfter, Asked
<1>7. stage' = stage
  BY DEF mainVars
<1>. QED BY <1>1, <1>5, <1>6, <1>7, SMT DEF Served, Asked

\* A keyboard that has done what it was asked for is not set back by a list
\* that runs once more.
LEMMA ServedDone ==
  ASSUME KeptOK, TypeOK, Served, Done, UNCHANGED mainVars, pc \in Waiting,
         stage \in {1, 6}, Clean, Clean'
  PROVE  Served'
<1>1. stage' = stage /\ run # NoRun
  BY DoneControl DEF mainVars
<1>2. /\ device' \in {device, DeviceAfter(run.td)}
      /\ request' = request
         \/ (Active(run.td) /\ IsSetup(run.td) /\ request' = run.request)
  BY CleanDone, Zenon
<1>3. stage = 6 => request' = \h900
  <2>1. Active(run.td) /\ IsSetup(run.td) => run.request = List[7]
    <3>1. KeptRun(run, List)
      BY <1>1, SMT DEF KeptOK, Underway, Clean
    <3>. QED BY <3>1 DEF KeptRun, Active, Live
  <2>2. stage = 6 => List[7] = \h900
    BY ListHead, SMT DEF Poll
  <2>. QED BY <1>2, <2>1, <2>2, SMT DEF Served
<1>4. /\ stage = 1 => device' \in {"addressed", "configured"}
      /\ stage = 6 => device' = "configured"
  BY <1>2, SMT DEF Served, DeviceAfter
<1>. QED BY <1>1, <1>3, <1>4, SMT DEF Served

LEMMA ListDone ==
  ASSUME TypeOK, MemoryOK, PlacesOK, OrderOK, KeptOK, ListOK, StateOK, Done,
         UNCHANGED mainVars, Clean, Clean'
  PROVE  ListOK'
<1>1. /\ run # NoRun /\ run' = NoRun /\ command' = command
      /\ ~Active(run.td) => mem' = mem
  BY DoneControl, DoneMemory DEF MemoryOK, TypeOK, ChipTypeOK
<1>2. pc' = pc /\ stage' = stage /\ got' = got
  BY DEF mainVars
<1>3. SUFFICES ASSUME pc \in Waiting \cup Checking, stage \in {1, 6}
               PROVE  (Sent => Sent') /\ Way'
  BY <1>1, <1>2 DEF ListOK
<1>4. pc \in Waiting /\ Way
  <2>1. Orderly
    BY <1>3, SMT DEF Orderly, Clean, Poll
  <2>. QED BY <1>1, <1>3, <2>1 DEF OrderOK, Idle, ListOK
<1>5. ~Active(run.td) => ptr' = ptr /\ mem' = mem /\ msg' = msg
  BY <1>1, CleanDone DEF Silent
<1>6. ASSUME Sent
      PROVE  Sent'
  <2>1. ~Active(run.td) /\ ptr = ListBase /\ OpeningAt(mem) /\ ClosingAt(mem)
    BY <1>1, <1>6 DEF Sent, NotActive
  <2>2. ptr' = ptr /\ mem' = mem
    BY <1>5, <2>1
  <2>3. OpeningAt(mem)' /\ ClosingAt(mem)' /\ NotActive'
    BY <1>1, <1>2, <2>1, <2>2, ListFrame
  <2>. QED BY <2>1, <2>2, <2>3 DEF Sent
<1>7. Opened => Way'
  BY <1>3, <1>4, OpenedDone DEF Way
<1>8. Closed => Way'
  BY <1>3, ClosedDone DEF Way
<1>9. Served => Way'
  BY <1>3, <1>4, ServedDone DEF Way
<1>10. ASSUME Ended
       PROVE  Ended'
  <2>1. ~Active(run.td)
    BY <1>1, <1>10 DEF Ended, NotActive
  <2>2. Told' => Told
    BY <1>2, <1>5, <2>1 DEF Told, Quiet
  <2>3. NotActive'
    BY <1>1 DEF NotActive
  <2>. QED BY <1>2, <1>5, <1>10, <2>1, <2>2, <2>3 DEF Ended
<1>11. ~Answered
  BY <1>1 DEF Answered
<1>. QED BY <1>4, <1>6, <1>7, <1>8, <1>9, <1>10, <1>11 DEF Way

\* The port changes only when main looks at it.
LEMMA CleanPort ==
  ASSUME PlugIn \/ Unplug, Clean'
  PROVE  /\ UNCHANGED <<mem, ptr, run, mainVars>>
         /\ Looking \/ (Polling /\ device' = "none")
<1>1. PlugIn => Looking
  BY NoMishap DEF PlugIn, PortChanges
<1>2. Unplug => (Looking \/ Polling) /\ device' = "none"
  BY NoMishap DEF Unplug, PortChanges
<1>3. UNCHANGED <<mem, ptr, run, mainVars>>
  BY DEF PlugIn, Unplug, PortChanges
<1>. QED BY <1>1, <1>2, <1>3

LEMMA ListStep ==
  ASSUME Always, OrderOK, KeptOK, ListOK, StateOK, [Next]_vars, Clean, Clean'
  PROVE  ListOK'
<1>1. /\ TypeOK /\ MemoryOK /\ PlacesOK /\ ControlOK /\ stage \in 1..Poll
  BY DEF Always, MemoryOK, TypeOK
<1>2. stage # Poll => Orderly
  BY DEF Orderly, Clean
<1>3. ASSUME pc' \notin Waiting \cup Checking
      PROVE  ListOK'
  BY <1>3 DEF ListOK
<1>4. ASSUME stage' = stage, command' = command, UNCHANGED <<mem, ptr, run, device, request>>,
             pc \in Waiting \cup Checking, Told' => Told, Quiet => Quiet'
      PROVE  ListOK'
  <2>1. ASSUME stage \in {1, 6}
        PROVE  Way' /\ (Sent => Sent')
    BY <1>4, <2>1, WayFrame DEF ListOK
  <2>. QED BY <1>4, <2>1 DEF ListOK
<1>. USE DEF Goto, At
<1>5. CASE UsbSoftReset \/ Step1 \/ Step2 \/ LookForKeyboard
  <2>1. pc' \notin Waiting \cup Checking
    BY <1>5, SMT DEF UsbSoftReset, Step1, Step2, LookForKeyboard, Waiting, Checking
  <2>. QED BY <1>3, <2>1
<1>6. CASE Send
  <2>1. pc = "send" /\ stage' = stage /\ Submit(ListBase, List)
    BY <1>6 DEF Send
  <2>2. ASSUME stage \in {1, 6}
        PROVE  Sent'
    <3>1. NotActive
      BY <1>2, <2>1, <2>2, SMT DEF OrderOK, NotActive, Poll
    <3>. QED BY <1>1, <2>1, <2>2, <3>1, ListSent
  <2>. QED BY <2>1, <2>2 DEF ListOK, Way
<1>7. CASE AwaitFlag
  <2>1. /\ pc \in {"flag", "again"} /\ pc' \in {"read", "again", "sleep", "resetSleep", "flag"}
        /\ stage' = stage /\ got' = got
    BY <1>7, SMT DEF AwaitFlag
  <2>2. CASE UNCHANGED <<chipVars, busVars>>
    <3>1. Told' => Told
      BY <2>1, <2>2, LookSame, SMT DEF Told, Quiet, Checking
    <3>. QED BY <1>4, <2>1, <2>2, <3>1, LookSame DEF Quiet, Waiting
  <2>3. CASE pc = "again" /\ Submit(ListBase, List)
    <3>1. command' = command
      BY <2>3, SubmitSame
    <3>2. ASSUME stage \in {1, 6}
          PROVE  Way' /\ (Sent => Sent')
      <4>1. Orderly
        BY <1>2, <3>2, SMT DEF Poll
      <4>2. (~Quiet => Idle) /\ (run # NoRun /\ Active(run.td) => ptr = 0)
        BY <2>3, <4>1 DEF OrderOK, Waiting
      <4>3. Way
        BY <2>1, <3>2 DEF ListOK, Waiting
      <4>. QED BY <1>1, <2>1, <2>3, <3>2, <4>2, <4>3, SentAgain
    <3>. QED BY <2>1, <3>1, <3>2 DEF ListOK, Waiting
  <2>. QED BY <1>7, <2>2, <2>3 DEF AwaitFlag
<1>8. CASE Sleep
  <2>1. /\ pc \in Waiting /\ stage' = stage /\ pc' = "flag" /\ got' = got
        /\ UNCHANGED <<chipVars, busVars>>
    BY <1>8 DEF Sleep, Waiting
  <2>2. Told' => Told
    BY <2>1, LookSame DEF Told, Quiet, Checking
  <2>. QED BY <1>4, <2>1, <2>2, LookSame DEF Quiet
<1>9. CASE UsbWaitTDListDone
  <2>1. /\ pc \in {"read", "clear"} /\ stage' = stage
        /\ UNCHANGED <<mem, ptr, run, command, device, request>>
        /\ pc = "read" => pc' = "clear" /\ got' = msg /\ msg' = msg
        /\ pc = "clear" =>
             /\ got' = got /\ (msg' = "none" \/ msg' = msg)
             /\ \/ got # "done" /\ pc' = "read"
                \/ got = "done" /\ pc' \in {"show", "check"}
    BY <1>9, ChipSame, ReadSame, SMT DEF UsbWaitTDListDone
  <2>2. (Told' => Told) /\ (Quiet => Quiet')
    BY <2>1, SMT DEF Told, Quiet, Checking
  <2>. QED BY <1>4, <2>1, <2>2 DEF Waiting
<1>10. CASE Check \/ UsbGetRetryCnt
  <2>1. /\ pc \in Checking /\ UNCHANGED <<mem, ptr, run, command, device, request>>
        /\ stage' = stage \/ pc' \notin Waiting \cup Checking
        /\ msg' = msg \/ msg' = "none"
    BY <1>10, ChipSame, ReadSame, SMT DEF Check, UsbGetRetryCnt, NextStage,
       Checking, Waiting
  <2>. QED BY <1>3, <1>4, <2>1 DEF Told, Quiet
<1>11. CASE DeviceInfo \/ DataSize \/ ShowKey \/ LookAtLine
  <2>1. pc' \notin Waiting \cup Checking
    BY <1>11, SMT DEF DeviceInfo, DataSize, ShowKey, LookAtLine, Waiting, Checking
  <2>. QED BY <1>3, <2>1
<1>12. CASE UNCHANGED mainVars
             /\ (ExecInit \/ ExecReset \/ Fetch \/ Done \/ TypeKey \/ PlugIn
                 \/ Unplug \/ UNCHANGED vars)
  <2>1. pc' = pc /\ stage' = stage /\ got' = got
    BY <1>12 DEF mainVars
  <2>2. CASE Fetch
    BY <1>1, <1>12, <2>2, ListFetch
  <2>3. CASE Done
    BY <1>1, <1>12, <2>3, ListDone
  <2>4. CASE ExecInit \/ TypeKey \/ UNCHANGED vars
    <3>1. /\ UNCHANGED <<mem, ptr, run, msg, device, request>>
          /\ command' = command \/ command' = "none"
      BY <2>4 DEF ExecInit, TypeKey, vars, chipVars, busVars
    <3>2. Told' => Told
      BY <2>1, <3>1 DEF Told, Quiet
    <3>3. ASSUME pc \in Waiting \cup Checking, stage \in {1, 6}
          PROVE  Way' /\ (Sent => Sent')
      BY <2>1, <3>1, <3>2, <3>3, WayFrame DEF ListOK, Quiet
    <3>. QED BY <2>1, <3>1, <3>3 DEF ListOK
  <2>5. CASE ExecReset
    <3>1. command = "reset" /\ mem' = mem /\ ptr' = ptr /\ run' = run
      BY <2>5 DEF ExecReset
    <3>2. ASSUME pc \in Waiting \cup Checking, stage \in {1, 6}
          PROVE  Sent'
      <4>1. Sent
        BY <3>1, <3>2 DEF ListOK
      <4>2. OpeningAt(mem)' /\ ClosingAt(mem)' /\ NotActive'
        BY <2>1, <3>1, <4>1, ListFrame DEF Sent
      <4>. QED BY <3>1, <4>1, <4>2 DEF Sent
    <3>. QED BY <2>1, <3>2 DEF ListOK, Way
  <2>6. CASE PlugIn \/ Unplug
    <3>1. Looking \/ Polling
      BY <2>6, CleanPort
    <3>2. pc \in Waiting \cup Checking => stage = Poll
      BY <3>1, SMT DEF Looking, Polling, Waiting, Checking
    <3>. QED BY <2>1, <3>2, SMT DEF ListOK, Poll
  <2>. QED BY <1>12, <2>2, <2>3, <2>4, <2>5, <2>6
<1>. QED BY <1>5, <1>6, <1>7, <1>8, <1>9, <1>10, <1>11, <1>12, NextCases

\* Steps that leave the polls' descriptor and the keyboard alone.
LEMMA StateFrame ==
  ASSUME StateOK, stage' = stage, device' = device, request' = request,
         stage = Poll => UNCHANGED <<mem, ptr, run>>,
         stage = Poll /\ pc \in {"removed", "softReset"} => pc' \in {"removed", "softReset"}
  PROVE  StateOK'
<1>1. stage # Poll => StateOK'
  BY SMT DEF StateOK
<1>2. CASE stage = Poll
  <2>1. mem' = mem /\ ptr' = ptr /\ run' = run
    BY <1>2
  <2>2. /\ ptr \in {0, ListBase}
        /\ ptr = ListBase /\ Live(mem[ListBase + 8]) => mem[ListBase + 4] = \h291
        /\ run # NoRun /\ Active(run.td) => run.td[3] = \h291
        /\ pc \notin {"removed", "softReset"} => device \in {"configured", "none"}
    BY <1>2, SMT DEF StateOK
  <2>3. Active(run.td)' <=> Active(run.td)
    BY <2>1 DEF Active
  <2>4. /\ ptr' \in {0, ListBase}
        /\ ptr' = ListBase /\ Live(mem'[ListBase + 8]) => mem'[ListBase + 4] = \h291
        /\ run' # NoRun /\ Active(run.td)' => run'.td[3] = \h291
        /\ pc' \notin {"removed", "softReset"} => device' \in {"configured", "none"}
    BY <1>2, <2>1, <2>2, <2>3, SMT
  <2>5. stage' \notin 2..9
    BY <1>2, SMT DEF Poll
  <2>6. stage' \notin 7..9
    BY <1>2, SMT DEF Poll
  <2>7. Active(run'.td) <=> Active(run.td)'
    BY DEF Active
  <2>. QED BY <1>2, <2>4, <2>5, <2>6, <2>7 DEF StateOK
<1>. QED BY <1>1, <1>2

LEMMA StateSent ==
  ASSUME TypeOK, MemoryOK, StateOK, Submit(ListBase, List), stage' = stage,
         pc \notin {"removed", "softReset"}
  PROVE  StateOK'
<1>1. ptr' = ListBase /\ run' = run /\ device' = device /\ request' = request
  BY SubmitSame
<1>2. ASSUME stage = Poll
      PROVE  mem'[ListBase + 4] = \h291
  <2>1. PICK n : Laid(List, n) /\ n = 6 /\ List[3] = \h291
    BY <1>2, ListLaid DEF TypeOK
  <2>2. mem \in [Addresses -> Word] /\ mem' = Written(mem, ListBase, List)
    BY DEF MemoryOK, Submit
  <2>3. \A a \in Addresses : a < ListBase + 2 * n => mem'[a] = ListWord(List, a)
    BY <2>1, <2>2, ListWords
  <2>4. ListBase + 4 \in Addresses /\ Index(ListBase + 4) = 3
    BY AddressNumbers, SMT DEF ListBase, Index
  <2>5. ListBase + 4 < ListBase + 2 * n
    BY <2>1, SMT DEF ListBase
  <2>6. mem'[ListBase + 4] = List[3]
    BY <2>3, <2>4, <2>5 DEF ListWord
  <2>. QED BY <2>1, <2>6
<1>3. stage = Poll =>
        /\ run # NoRun /\ Active(run.td) => run.td[3] = \h291
        /\ device \in {"configured", "none"}
  BY SMT DEF StateOK
<1>4. Active(run.td)' <=> Active(run.td)
  BY <1>1 DEF Active
<1>. HIDE DEF Active
<1>. QED BY <1>1, <1>2, <1>3, <1>4, SMT DEF StateOK

LEMMA StateFetch ==
  ASSUME MemoryOK, StateOK, Fetch, UNCHANGED mainVars
  PROVE  StateOK'
<1>1. /\ ptr # 0 /\ ptr' = 0 /\ run'.td[3] = mem[ptr + 4] /\ run'.td[5] = mem[ptr + 8]
      /\ device' = device /\ request' = request
  BY FetchFacts DEF MemoryOK, busVars
<1>2. pc' = pc /\ stage' = stage
  BY DEF mainVars
<1>3. ASSUME stage = Poll, Active(run'.td)
      PROVE  run'.td[3] = \h291
  <2>1. ptr = ListBase
    BY <1>1, <1>3, SMT DEF StateOK
  <2>2. Live(mem[ListBase + 8])
    BY <1>1, <1>3, <2>1 DEF Active, Live
  <2>3. mem[ListBase + 4] = \h291
    BY <1>3, <2>1, <2>2, SMT DEF StateOK
  <2>. QED BY <1>1, <2>1, <2>3
<1>4. ptr' # ListBase
  BY <1>1, EndpointNumbers
<1>5. stage = Poll /\ Active(run.td)' => run'.td[3] = \h291
  BY <1>3 DEF Active
<1>. HIDE DEF Active
<1>. QED BY <1>1, <1>2, <1>4, <1>5, SMT DEF StateOK

LEMMA StateDone ==
  ASSUME TypeOK, MemoryOK, PlacesOK, ControlOK, OrderOK, KeptOK, StateOK, Done,
         UNCHANGED mainVars, Clean, Clean'
  PROVE  StateOK'
<1>1. run # NoRun /\ run' = NoRun /\ pc' = pc /\ stage' = stage
  BY DoneControl DEF mainVars
<1>2. device' \in {device, DeviceAfter(run.td)}
  BY CleanDone, Zenon
<1>3. stage \in 2..9 => device' \in {"addressed", "configured"}
  BY <1>2, SMT DEF StateOK, DeviceAfter
<1>4. ASSUME stage \in 7..9
      PROVE  device' = "configured" /\ request' # \h500
  <2>1. device = "configured" /\ request # \h500 /\ stage # Poll
    BY <1>4, SMT DEF StateOK, Poll
  <2>2. device' = "configured"
    BY <1>2, <2>1, SMT DEF DeviceAfter
  <2>3. CASE ~Active(run.td)
    BY <2>1, <2>2, <2>3, CleanDone
  <2>4. CASE Active(run.td)
    <3>1. pc \in Waiting
      BY <1>1, <2>1, <2>4, ActiveWaits DEF Clean, TypeOK
    <3>2. IsSetup(run.td) => run.request = List[7]
      <4>1. KeptRun(run, List)
        BY <1>1, <3>1 DEF KeptOK, Underway, Clean
      <4>. QED BY <2>4, <4>1 DEF KeptRun, Active, Live
    <3>3. List[7] # \h500
      BY <1>4, <2>1, ListHead, SMT
    <3>4. request' = request \/ (IsSetup(run.td) /\ request' = run.request)
      BY CleanDone, Zenon
    <3>. QED BY <2>1, <2>2, <3>2, <3>3, <3>4
  <2>. QED BY <2>3, <2>4
<1>5. ASSUME stage = Poll
      PROVE  /\ ptr' = ptr /\ device' = device
             /\ Live(mem'[ListBase + 8]) => Live(mem[ListBase + 8])
             /\ mem'[ListBase + 4] = mem[ListBase + 4]
  <2>1. Active(run.td) => IsPoll(run.td)
    BY <1>1, <1>5, SMT DEF StateOK, IsPoll
  <2>. QED BY <2>1, FirstStays, CleanDone
<1>. QED BY <1>1, <1>3, <1>4, <1>5, SMT DEF StateOK

LEMMA StateStep ==
  ASSUME Always, OrderOK, KeptOK, ListOK, StateOK, [Next]_vars, Clean, Clean'
  PROVE  StateOK'
<1>1. TypeOK /\ MemoryOK /\ PlacesOK /\ ControlOK /\ stage \in 1..Poll
  BY DEF Always, MemoryOK, TypeOK
<1>2. ASSUME stage' = 1
      PROVE  StateOK'
  BY <1>2, SMT DEF StateOK, Poll
<1>. USE DEF Goto, At
<1>3. CASE UsbSoftReset
  BY <1>2, <1>3 DEF UsbSoftReset
<1>4. CASE Step1 \/ Step2 \/ LookForKeyboard
  <2>1. pc \in Early /\ stage' = stage
    BY <1>4, SMT DEF Step1, Step2, LookForKeyboard, Early
  <2>. QED BY <1>1, <1>2, <2>1 DEF PlacesOK
<1>5. CASE Send
  BY <1>1, <1>5, StateSent DEF Send
<1>6. CASE AwaitFlag
  <2>1. pc \in {"flag", "again"} /\ stage' = stage
    BY <1>6 DEF AwaitFlag
  <2>2. CASE UNCHANGED <<chipVars, busVars>>
    BY <2>1, <2>2, LookSame, StateFrame, SMT
  <2>3. CASE Submit(ListBase, List)
    BY <1>1, <2>1, <2>3, StateSent, SMT
  <2>. QED BY <1>6, <2>2, <2>3 DEF AwaitFlag
<1>11. CASE Sleep
  <2>1. pc \in {"sleep", "resetSleep"} /\ stage' = stage /\ UNCHANGED <<chipVars, busVars>>
    BY <1>11 DEF Sleep
  <2>. QED BY <2>1, LookSame, StateFrame, SMT
<1>7. CASE UsbWaitTDListDone \/ ShowKey \/ LookAtLine
  <2>1. /\ stage' = stage /\ UNCHANGED <<mem, ptr, run, device, request>>
        /\ pc \in {"removed", "softReset"} => pc' = "softReset"
    BY <1>7, ChipSame, ReadSame, SMT DEF UsbWaitTDListDone, ShowKey, LookAtLine
  <2>. QED BY <2>1, StateFrame
<1>8. CASE Check \/ UsbGetRetryCnt
  <2>1. /\ pc \in Checking /\ UNCHANGED <<mem, ptr, run, device, request>>
        /\ \/ stage' = stage
           \/ stage # 5 /\ stage' = stage + 1 /\ (stage = 1 => mem[RetryWord] = 3)
    BY <1>8, ChipSame, ReadSame, SMT DEF Check, UsbGetRetryCnt, NextStage, Checking
  <2>2. stage # Poll
    BY <1>1, <2>1 DEF PlacesOK
  <2>3. CASE stage' = stage
    BY <2>1, <2>2, <2>3, StateFrame
  <2>4. CASE stage' = stage + 1 /\ (stage = 1 => mem[RetryWord] = 3)
    <3>1. Idle
      BY <1>1, <2>1, <2>2 DEF OrderOK, Orderly, Clean
    <3>2. stage \in {1, 6} => Served
      <4>1. ASSUME stage \in {1, 6}
            PROVE  ~Sent /\ ~Opened /\ ~Answered /\ ~Closed /\ ~Ended
        BY <2>1, <2>4, <3>1, <4>1, EndpointNumbers, SMT
           DEF Sent, Opened, Answered, Closed, Ended, Told, Idle, Second
      <4>. QED BY <2>1, <4>1 DEF ListOK, Way
    <3>3. stage = 1 => device \in {"addressed", "configured"}
      BY <3>2 DEF Served
    <3>4. stage = 6 => device = "configured" /\ request # \h500
      BY <3>2, SMT DEF Served
    <3>5. run' = NoRun /\ ptr' = 0 /\ device' = device /\ request' = request
      BY <2>1, <3>1 DEF Idle
    <3>6. /\ stage \in 2..9 => device \in {"addressed", "configured"}
          /\ stage \in 7..9 => device = "configured" /\ request # \h500
      BY SMT DEF StateOK
    <3>. QED BY <1>1, <2>2, <2>4, <3>3, <3>4, <3>5, <3>6, EndpointNumbers, SMT
           DEF StateOK, Poll
  <2>. QED BY <2>1, <2>3, <2>4
<1>9. CASE DeviceInfo \/ DataSize
  <2>1. stage = 5 /\ stage' \in {5, 6} /\ UNCHANGED <<device, request>>
    BY <1>1, <1>9, ChipSame, SubmitSame DEF DeviceInfo, DataSize, PlacesOK
  <2>. QED BY <2>1, SMT DEF StateOK, Poll
<1>10. CASE UNCHANGED mainVars
             /\ (ExecInit \/ ExecReset \/ Fetch \/ Done \/ TypeKey \/ PlugIn
                 \/ Unplug \/ UNCHANGED vars)
  <2>1. pc' = pc /\ stage' = stage
    BY <1>10 DEF mainVars
  <2>2. CASE Fetch
    BY <1>1, <1>10, <2>2, StateFetch
  <2>3. CASE Done
    BY <1>1, <1>10, <2>3, StateDone
  <2>4. CASE ExecInit \/ TypeKey \/ UNCHANGED vars
    <3>1. UNCHANGED <<mem, ptr, run, device, request>>
      BY <2>4 DEF ExecInit, TypeKey, vars, chipVars, busVars
    <3>. QED BY <2>1, <3>1, StateFrame
  <2>5. CASE ExecReset
    <3>1. ~(stage > 1)
      BY <1>1, <2>5 DEF ExecReset, ControlOK
    <3>. QED BY <1>1, <1>2, <2>1, <3>1, SMT DEF Poll
  <2>6. CASE PlugIn \/ Unplug
    <3>1. /\ UNCHANGED <<mem, ptr, run>>
          /\ Looking \/ (Polling /\ device' = "none")
      BY <2>6, CleanPort
    <3>2. CASE stage = 1
      BY <1>2, <2>1, <3>2
    <3>3. CASE stage # 1
      <4>1. stage = Poll
        BY <1>1, <3>1, <3>3, SMT DEF Looking, Polling, PlacesOK, Early
      <4>2. pc \notin {"removed", "softReset"} => device' = "none"
        BY <1>1, <3>1, <3>3, SMT DEF Looking, PlacesOK, Early
      <4>3. Active(run.td)' <=> Active(run.td)
        BY <3>1 DEF Active
      <4>. HIDE DEF Active
      <4>. QED BY <2>1, <3>1, <4>1, <4>2, <4>3, SMT DEF StateOK, Poll
    <3>. QED BY <3>2, <3>3
  <2>. QED BY <1>10, <2>2, <2>3, <2>4, <2>5, <2>6
<1>. QED BY <1>3, <1>4, <1>5, <1>6, <1>7, <1>8, <1>9, <1>10, <1>11, NextCases

LEMMA CleanHolds == Spec => [](Always /\ OrderOK /\ KeptOK /\ CleanOK)
<1>1. Init => CleanOK
  <2>1. Init => pc = "softReset" /\ stage = 1
    BY DEF Init
  <2>. QED BY <2>1, SMT DEF CleanOK, ListOK, StateOK, Waiting, Checking, Poll
<1>2. Always /\ OrderOK /\ KeptOK /\ CleanOK /\ [Next]_vars => CleanOK'
  <2>1. SUFFICES ASSUME Always, OrderOK, KeptOK, CleanOK, [Next]_vars, Clean'
                 PROVE  ListOK' /\ StateOK'
    BY DEF CleanOK
  <2>2. Clean
    BY <2>1, MishapsGrow DEF Always, MemoryOK, Clean
  <2>. QED BY <2>1, <2>2, ListStep, StateStep DEF CleanOK
<1>. QED BY <1>1, <1>2, KeptHolds, PTL DEF Spec

\* Only a configured keyboard is polled, wherever in a list the chip is when
\* main sends it again (main.c 205-213), and although main looks at the first
\* descriptor of each transfer only (main.c 190-193): when main sees that
\* one's result, the keyboard has done what the list asks for.  Refused
\* commands, other status bits and merged messages may happen; noise, a
\* late chip, a keyboard exchanged unseen and a message without a transfer
\* may not.
THEOREM PolledKeyboardIsConfigured == Spec => []PolledIsConfigured
<1>1. CleanOK => PolledIsConfigured
  BY DEF CleanOK, Clean, StateOK, PolledIsConfigured, Polling
<1>. QED BY <1>1, CleanHolds, PTL
=============================================================================
