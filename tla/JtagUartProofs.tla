--------------------------- MODULE JtagUartProofs ---------------------------
(***************************************************************************)
(* Theorems about the JTAG UART driver of JtagUart, for every length of    *)
(* the rings, depth of the FIFOs, length of the calls and of the texts.    *)
(***************************************************************************)
EXTENDS JtagUart, SequenceTheorems, TLAPS

(* Places on a ring. *)

\* An index plus at most one turn wraps at most once.
LEMMA PlusWraps ==
  ASSUME NEW i \in Index, NEW n \in 0..BufLen
  PROVE  /\ Plus(i, n) = IF i + n < BufLen THEN i + n ELSE i + n - BufLen
         /\ Plus(i, n) \in Index
<1>. USE BufLenAssumption DEF Index
<1>1. CASE i + n < BufLen
  BY <1>1 DEF Plus
<1>2. CASE i + n >= BufLen
  BY <1>2 DEF Plus
<1>. QED
  BY <1>1, <1>2

\* How many places are in use is a number below the length of the ring.
LEMMA UsedBounds ==
  ASSUME NEW in \in Index, NEW out \in Index
  PROVE  /\ Used(in, out) \in 0..BufLen - 1
         /\ Used(in, out) = 0 <=> in = out
BY BufLenAssumption DEF Used, Index

\* The free places in one piece fit, with one place to spare.
LEMMA RoomBounds ==
  ASSUME NEW in \in Index, NEW out \in Index
  PROVE  /\ Room(in, out) \in 0..BufLen - 1 - Used(in, out)
         /\ in + Room(in, out) <= BufLen
BY BufLenAssumption DEF Room, Used, Index

\* The full places in one piece are in use.
LEMMA WaitingBounds ==
  ASSUME NEW in \in Index, NEW out \in Index
  PROVE  /\ Waiting(in, out) \in 0..Used(in, out)
         /\ out + Waiting(in, out) <= BufLen
BY BufLenAssumption DEF Waiting, Used, Index

\* The ring grows at its one end.
LEMMA UsedGrows ==
  ASSUME NEW in \in Index, NEW out \in Index,
         NEW n \in 0..BufLen - 1 - Used(in, out)
  PROVE  Used(Plus(in, n), out) = Used(in, out) + n
<1>1. n \in 0..BufLen
  BY BufLenAssumption, UsedBounds DEF Index
<1>2. Plus(in, n) = IF in + n < BufLen THEN in + n ELSE in + n - BufLen
  BY <1>1, PlusWraps
<1>. QED
  BY <1>2, BufLenAssumption DEF Used, Index

\* It shrinks at the other.
LEMMA UsedShrinks ==
  ASSUME NEW in \in Index, NEW out \in Index, NEW n \in 0..Used(in, out)
  PROVE  Used(in, Plus(out, n)) = Used(in, out) - n
<1>1. n \in 0..BufLen
  BY BufLenAssumption, UsedBounds DEF Index
<1>2. Plus(out, n) = IF out + n < BufLen THEN out + n ELSE out + n - BufLen
  BY <1>1, PlusWraps
<1>. QED
  BY <1>2, BufLenAssumption DEF Used, Index

\* Where a place is after the first n have been freed.
LEMMA OffsetShifts ==
  ASSUME NEW i \in Index, NEW in \in Index, NEW out \in Index,
         NEW n \in 0..Used(in, out),
         Offset(i, Plus(out, n)) < Used(in, out) - n
  PROVE  Offset(i, out) = Offset(i, Plus(out, n)) + n
<1>1. n \in 0..BufLen
  BY BufLenAssumption, UsedBounds DEF Index
<1>2. Plus(out, n) = IF out + n < BufLen THEN out + n ELSE out + n - BufLen
  BY <1>1, PlusWraps
<1>. QED
  BY <1>2, BufLenAssumption DEF Used, Offset, Index

\* The n places behind the used ones, in one piece.
LEMMA OffsetBehind ==
  ASSUME NEW i \in Index, NEW in \in Index, NEW out \in Index,
         NEW n \in 0..BufLen - 1 - Used(in, out), in + n <= BufLen
  PROVE  /\ Offset(i, out) \in Nat
         /\ i >= in /\ i < in + n => Offset(i, out) = Used(in, out) + i - in
         /\ Offset(i, out) < Used(in, out) + n
              => Offset(i, out) < Used(in, out) \/ (i >= in /\ i < in + n)
BY BufLenAssumption DEF Used, Offset, Index

\* The ring is full when only one place is free.
LEMMA FullMeans ==
  ASSUME rx_in \in Index, rx_out \in Index
  PROVE  Full <=> Used(rx_in, rx_out) = BufLen - 1
<1>1. 1 \in 0..BufLen
  BY BufLenAssumption
<1>2. Plus(rx_in, 1) = IF rx_in + 1 < BufLen THEN rx_in + 1 ELSE rx_in + 1 - BufLen
  BY <1>1, PlusWraps
<1>. QED
  BY <1>2, BufLenAssumption DEF Full, Used, Index
-----------------------------------------------------------------------------
(* The inductive invariant. *)

\* What a write relies on from one access to the next.
WriteHolds ==
    /\ pc \in WritePlaces => wrote + count <= Out
    /\ pc \in {"wcopy", "wpublish"} => Used(tx_in, tx_out) <= Used(tx_in, seen)
    /\ pc = "wpublish" =>
         \A i \in Index : i >= tx_in /\ i < tx_in + ToCopy
            => tx_buf[i] = wrote + i - tx_in

\* What a read relies on.
ReadHolds ==
    /\ pc \in {"rcopy", "rfree"} => Used(seen, rx_out) <= Used(rx_in, rx_out)
    /\ pc = "rfree" => moved

\* What the interrupt routine relies on.
HandlerHolds ==
    /\ space <= Fifo - Len(txf)
    /\ isr = "rxOff" /\ avail => Full
    /\ isr \in {"rx", "rxOff"} => "RE" \in irq_enable

\* The inductive invariant: the two orders, the wake-ups, and what each side
\* relies on while it is between two accesses.
IInv ==
    /\ TypeOK /\ TextInOrder /\ InputInOrder /\ InterruptsOn
    /\ WriteHolds /\ ReadHolds /\ HandlerHolds

\* The text on its way out, and the input on its way in.
textVars  == <<tx_in, tx_out, tx_buf, txf, wrote, heard>>
inputVars == <<rx_in, rx_out, rx_buf, rxf, typed, read>>

\* It holds when the driver starts.
LEMMA InitHolds == Init => IInv
<1>. SUFFICES ASSUME Init PROVE IInv
  OBVIOUS
<1>. USE TextAssumption, BufLenAssumption, FifoAssumption, LongestAssumption,
         TimeoutAssumption
<1>1. TypeOK
  <2>1. 0 \in Index /\ [i \in Index |-> 0] \in [Index -> Chars]
    BY DEF Index, Chars
  <2>2. <<>> \in Seq(Chars) /\ Len(<<>>) = 0
    OBVIOUS
  <2>3. /\ tx_in \in Index /\ tx_out \in Index /\ rx_in \in Index /\ rx_out \in Index
        /\ tx_buf \in [Index -> Chars] /\ rx_buf \in [Index -> Chars]
        /\ seen \in Index /\ line \in Seq(Chars)
        /\ txf \in Seq(Chars) /\ Len(txf) <= Fifo
        /\ rxf \in Seq(Chars) /\ Len(rxf) <= Fifo
    BY <2>1, <2>2 DEF Init
  <2>4. /\ irq_enable \subseteq {"RE", "WE"}
        /\ host_inactive \in 0..IntMax - 2 /\ timeout \in 2..IntMax
        /\ count \in 0..Longest /\ space \in 0..Fifo
        /\ wrote \in 0..Out /\ heard \in 0..Out
        /\ typed \in 0..In /\ read \in 0..In
    BY DEF Init
  <2>5. /\ pc \in WritePlaces \cup ReadPlaces \cup {"idle", "close"}
        /\ nonblock \in BOOLEAN /\ moved \in BOOLEAN
        /\ isr \in {"idle", "control", "rx", "rxOff", "tx"}
        /\ wi \in BOOLEAN /\ avail \in BOOLEAN
        /\ ac \in BOOLEAN /\ connected \in BOOLEAN
    BY DEF Init
  <2>. QED BY <2>3, <2>4, <2>5 DEF TypeOK
<1>2. TextInOrder /\ InputInOrder
  <2>1. Used(0, 0) = 0 /\ \A i \in Index : ~(Offset(i, 0) < Used(0, 0))
    BY DEF Used, Offset, Index
  <2>2. TextInOrder
    BY <2>1 DEF Init, TextInOrder
  <2>3. InputInOrder
    BY <2>1 DEF Init, InputInOrder
  <2>. QED BY <2>2, <2>3
<1>3. InterruptsOn
  BY <1>1 DEF Init, InterruptsOn, TransmitterOn, ReceiverOn
<1>4. WriteHolds /\ ReadHolds /\ HandlerHolds
  BY DEF Init, WriteHolds, ReadHolds, HandlerHolds, WritePlaces
<1>. QED
  BY <1>1, <1>2, <1>3, <1>4 DEF IInv

\* Only the write's copy, its publication, the interrupt routine's sending and
\* the host's reading touch the text.
LEMMA TextUntouched ==
  ASSUME [Next]_vars
  PROVE  WCopy \/ WPublish \/ IsrSend \/ HostReads \/ UNCHANGED textVars
<1>1. CASE UNCHANGED vars
  BY <1>1 DEF vars, ring, device, history, textVars
<1>2. CASE Calls
  BY <1>2 DEF Calls, Write, Read, Close, ring, device, history, textVars
<1>3. CASE Thread
  BY <1>3 DEF Thread, WLook, WKick, WWait, RLook, RNothing, RCopy, RFree, RWait,
        REnable, CloseDrained, ring, device, history, textVars
<1>4. CASE Isr
  BY <1>4 DEF Isr, Interrupt, IsrControl, IsrReceive, IsrReceived, IsrReceiveOff,
        IsrSent, ring, device, history, textVars
<1>5. CASE Tick
  BY <1>5 DEF Tick, ring, history, textVars
<1>6. CASE Host
  BY <1>6 DEF Host, HostTypes, HostLooks, HostComesOrGoes, HostUnchanged,
        ring, history, textVars
<1>. QED
  BY <1>1, <1>2, <1>3, <1>4, <1>5, <1>6 DEF Next

\* Only the read's release, the interrupt routine's receiving and the host's
\* typing touch the input.
LEMMA InputUntouched ==
  ASSUME [Next]_vars
  PROVE  RFree \/ IsrReceive \/ HostTypes \/ UNCHANGED inputVars
<1>1. CASE UNCHANGED vars
  BY <1>1 DEF vars, ring, device, history, inputVars
<1>2. CASE Calls
  BY <1>2 DEF Calls, Write, Read, Close, ring, device, history, inputVars
<1>3. CASE Thread
  BY <1>3 DEF Thread, WLook, WCopy, WPublish, WKick, WWait, RLook, RNothing,
        RCopy, RWait, REnable, CloseDrained, ring, device, history, inputVars
<1>4. CASE Isr
  BY <1>4 DEF Isr, Interrupt, IsrControl, IsrReceived, IsrReceiveOff, IsrSend,
        IsrSent, ring, device, history, inputVars
<1>5. CASE Tick
  BY <1>5 DEF Tick, ring, history, inputVars
<1>6. CASE Host
  BY <1>6 DEF Host, HostReads, HostLooks, HostComesOrGoes, HostUnchanged,
        ring, history, inputVars
<1>. QED
  BY <1>1, <1>2, <1>3, <1>4, <1>5, <1>6 DEF Next

\* The piece that a write copies is free, although tx_out has moved on.
LEMMA ToCopyBounds ==
  ASSUME TypeOK, WriteHolds, pc \in {"wcopy", "wpublish"}
  PROVE  /\ ToCopy \in 0..BufLen - 1 - Used(tx_in, tx_out)
         /\ tx_in + ToCopy <= BufLen
         /\ ToCopy <= count
<1>1. /\ Room(tx_in, seen) \in 0..BufLen - 1 - Used(tx_in, seen)
      /\ tx_in + Room(tx_in, seen) <= BufLen
  BY RoomBounds DEF TypeOK
<1>2. Used(tx_in, seen) \in Nat /\ Used(tx_in, tx_out) \in Nat
  BY UsedBounds, BufLenAssumption DEF TypeOK
<1>3. Used(tx_in, tx_out) <= Used(tx_in, seen)
  BY DEF WriteHolds
<1>4. count \in Nat /\ tx_in \in Nat
  BY LongestAssumption, BufLenAssumption DEF TypeOK, Index
<1>. QED
  BY <1>1, <1>2, <1>3, <1>4, BufLenAssumption DEF ToCopy, Least

\* The piece that a read copies and frees is in use.
LEMMA ToFreeBounds ==
  ASSUME TypeOK, ReadHolds, pc \in {"rcopy", "rfree"}
  PROVE  /\ ToFree \in 0..Used(rx_in, rx_out)
         /\ rx_out + ToFree <= BufLen
         /\ ToFree <= count
<1>1. /\ Waiting(seen, rx_out) \in 0..Used(seen, rx_out)
      /\ rx_out + Waiting(seen, rx_out) <= BufLen
  BY WaitingBounds DEF TypeOK
<1>2. Used(seen, rx_out) \in Nat /\ Used(rx_in, rx_out) \in Nat
  BY UsedBounds, BufLenAssumption DEF TypeOK
<1>3. Used(seen, rx_out) <= Used(rx_in, rx_out)
  BY DEF ReadHolds
<1>4. count \in Nat /\ rx_out \in Nat
  BY LongestAssumption, BufLenAssumption DEF TypeOK, Index
<1>. QED
  BY <1>1, <1>2, <1>3, <1>4, BufLenAssumption DEF ToFree, Least

\* Every step keeps the program's text in order.
LEMMA TextStep ==
  ASSUME IInv, [Next]_vars
  PROVE  TextInOrder'
<1>. USE BufLenAssumption
<1>0. /\ tx_in \in Index /\ tx_out \in Index
      /\ txf \in Seq(Nat) /\ heard \in Nat /\ wrote \in Nat
      /\ tx_buf \in [Index -> Nat]
  BY TextAssumption DEF IInv, TypeOK, Chars
<1>1. CASE WCopy
  <2>1. /\ ToCopy \in 0..BufLen - 1 - Used(tx_in, tx_out)
        /\ tx_in + ToCopy <= BufLen
    BY <1>1, ToCopyBounds DEF IInv, WCopy, At
  <2>2. UNCHANGED <<tx_in, tx_out, txf, wrote, heard>>
    BY <1>1 DEF WCopy, device, history
  <2>3. SUFFICES ASSUME NEW i \in Index,
                        Offset(i, tx_out) < Used(tx_in, tx_out)
                 PROVE  tx_buf'[i] = tx_buf[i]
    BY <2>2 DEF IInv, TextInOrder, Used, Offset
  <2>4. SUFFICES ASSUME i >= tx_in, i < tx_in + ToCopy
                 PROVE  FALSE
    BY <1>0, <1>1, <2>1 DEF WCopy, Index
  <2>5. Offset(i, tx_out) = Used(tx_in, tx_out) + i - tx_in
    BY <1>0, <2>1, <2>4, OffsetBehind
  <2>6. Used(tx_in, tx_out) \in Nat
    BY <1>0, UsedBounds
  <2>. QED
    BY <1>0, <2>3, <2>4, <2>5, <2>6 DEF Index
<1>2. CASE WPublish
  <2>1. /\ ToCopy \in 0..BufLen - 1 - Used(tx_in, tx_out)
        /\ tx_in + ToCopy <= BufLen
    BY <1>2, ToCopyBounds DEF IInv, WPublish, At
  <2>2. /\ UNCHANGED <<tx_out, tx_buf, txf, heard>>
        /\ tx_in' = Plus(tx_in, ToCopy)
        /\ wrote' = wrote + ToCopy
    BY <1>2 DEF WPublish, device
  <2>3. /\ Used(tx_in, tx_out)' = Used(tx_in, tx_out) + ToCopy
        /\ Used(tx_in, tx_out) \in Nat
    BY <1>0, <2>1, <2>2, UsedGrows, UsedBounds
  <2>4. ASSUME NEW i \in Index, Offset(i, tx_out) < Used(tx_in, tx_out) + ToCopy
        PROVE  tx_buf[i] = heard + Len(txf) + Offset(i, tx_out)
    <3>1. CASE Offset(i, tx_out) < Used(tx_in, tx_out)
      BY <3>1 DEF IInv, TextInOrder
    <3>2. CASE i >= tx_in /\ i < tx_in + ToCopy
      <4>1. tx_buf[i] = wrote + i - tx_in
        BY <1>2, <3>2 DEF IInv, WriteHolds, WPublish, At
      <4>2. Offset(i, tx_out) = Used(tx_in, tx_out) + i - tx_in
        BY <1>0, <2>1, <3>2, OffsetBehind
      <4>3. wrote = heard + Len(txf) + Used(tx_in, tx_out)
        BY DEF IInv, TextInOrder
      <4>4. Len(txf) \in Nat
        BY <1>0
      <4>. QED
        BY <1>0, <2>3, <4>1, <4>2, <4>3, <4>4 DEF Index
    <3>. QED
      BY <1>0, <2>1, <2>4, <3>1, <3>2, OffsetBehind
  <2>5. (wrote = heard + Len(txf) + Used(tx_in, tx_out))'
    <3>1. wrote = heard + Len(txf) + Used(tx_in, tx_out)
      BY DEF IInv, TextInOrder
    <3>. QED
      BY <1>0, <2>1, <2>2, <2>3, <3>1
  <2>6. \A i \in 1..Len(txf) : txf[i] = heard + i - 1
    BY DEF IInv, TextInOrder
  <2>. QED
    BY <2>2, <2>3, <2>4, <2>5, <2>6 DEF TextInOrder, Offset
<1>3. CASE IsrSend
  <2>1. /\ UNCHANGED <<tx_in, tx_buf, wrote, heard>>
        /\ tx_out' = Plus(tx_out, 1)
        /\ txf' = Append(txf, tx_buf[tx_out])
        /\ tx_out # tx_in
    BY <1>3 DEF IsrSend, history
  <2>2. Used(tx_in, tx_out) \in Nat /\ Used(tx_in, tx_out) > 0
    BY <1>0, <2>1, UsedBounds
  <2>3. Used(tx_in, tx_out)' = Used(tx_in, tx_out) - 1
    BY <1>0, <2>1, <2>2, UsedShrinks
  <2>4. tx_buf[tx_out] = heard + Len(txf)
    <3>1. Offset(tx_out, tx_out) = 0
      BY <1>0 DEF Offset, Index
    <3>. QED
      BY <1>0, <2>2, <3>1 DEF IInv, TextInOrder
  <2>5. /\ Len(txf) \in Nat
        /\ Len(txf') = Len(txf) + 1
        /\ \A i \in 1..Len(txf) : txf'[i] = txf[i]
        /\ txf'[Len(txf) + 1] = tx_buf[tx_out]
    BY <1>0, <2>1
  <2>6. /\ wrote = heard + Len(txf) + Used(tx_in, tx_out)
        /\ \A i \in 1..Len(txf) : txf[i] = heard + i - 1
    BY DEF IInv, TextInOrder
  <2>7. ASSUME NEW i \in 1..Len(txf')
        PROVE  txf'[i] = heard + i - 1
    <3>1. CASE i \in 1..Len(txf)
      BY <2>5, <2>6, <3>1
    <3>2. CASE i = Len(txf) + 1
      BY <1>0, <2>4, <2>5, <3>2
    <3>. QED
      BY <2>5, <3>1, <3>2
  <2>8. ASSUME NEW i \in Index, Offset(i, tx_out') < Used(tx_in, tx_out) - 1
        PROVE  tx_buf[i] = heard + Len(txf') + Offset(i, tx_out')
    <3>1. Offset(i, tx_out) = Offset(i, tx_out') + 1
      BY <1>0, <2>1, <2>2, <2>8, OffsetShifts
    <3>2. Offset(i, tx_out') \in Int
      <4>1. 1 \in 0..BufLen
        OBVIOUS
      <4>2. tx_out' \in Index
        BY <1>0, <2>1, <4>1, PlusWraps
      <4>. QED
        BY <4>2 DEF Offset, Index
    <3>3. tx_buf[i] = heard + Len(txf) + Offset(i, tx_out)
      BY <2>2, <2>8, <3>1, <3>2 DEF IInv, TextInOrder
    <3>. QED
      BY <1>0, <2>5, <3>1, <3>2, <3>3
  <2>9. wrote = heard + Len(txf') + Used(tx_in, tx_out)'
    BY <1>0, <2>2, <2>3, <2>5, <2>6
  <2>. QED
    BY <2>1, <2>3, <2>7, <2>8, <2>9 DEF TextInOrder, Offset
<1>4. CASE HostReads
  <2>1. /\ UNCHANGED <<tx_in, tx_out, tx_buf, wrote>>
        /\ txf # <<>> /\ txf' = Tail(txf) /\ heard' = heard + 1
    BY <1>4 DEF HostReads, HostUnchanged, ring
  <2>2. /\ Len(txf) \in Nat
        /\ Len(txf') = Len(txf) - 1
        /\ \A i \in 1..Len(txf') : txf'[i] = txf[i + 1]
    BY <1>0, <2>1
  <2>3. Used(tx_in, tx_out) \in Nat
    BY <1>0, UsedBounds
  <2>4. /\ wrote = heard + Len(txf) + Used(tx_in, tx_out)
        /\ \A i \in 1..Len(txf) : txf[i] = heard + i - 1
    BY DEF IInv, TextInOrder
  <2>5. wrote' = heard' + Len(txf') + Used(tx_in, tx_out)
    BY <1>0, <2>1, <2>2, <2>3, <2>4
  <2>6. \A i \in 1..Len(txf') : txf'[i] = heard' + i - 1
    BY <1>0, <2>1, <2>2, <2>4
  <2>7. ASSUME NEW i \in Index, Offset(i, tx_out) < Used(tx_in, tx_out)
        PROVE  tx_buf[i] = heard' + Len(txf') + Offset(i, tx_out)
    <3>1. tx_buf[i] = heard + Len(txf) + Offset(i, tx_out)
      BY <2>7 DEF IInv, TextInOrder
    <3>2. Offset(i, tx_out) \in Int
      BY <1>0 DEF Offset, Index
    <3>. QED
      BY <1>0, <2>1, <2>2, <3>1, <3>2
  <2>. QED
    BY <2>1, <2>5, <2>6, <2>7 DEF TextInOrder, Used, Offset
<1>5. CASE UNCHANGED textVars
  BY <1>5 DEF textVars, IInv, TextInOrder, Used, Offset
<1>. QED
  BY <1>1, <1>2, <1>3, <1>4, <1>5, TextUntouched

\* What a read has copied stays so until it is freed.
LEMMA LineKept ==
  ASSUME [Next]_vars, pc' = "rfree"
  PROVE  RCopy \/ (pc = "rfree" /\ UNCHANGED <<line, count, seen, rx_out, read>>)
<1>1. CASE UNCHANGED vars
  BY <1>1 DEF vars, ring, call, history
<1>2. CASE Calls
  BY <1>2 DEF Calls, Write, Read, Close, Goto
<1>3. CASE Thread
  BY <1>3 DEF Thread, WLook, WCopy, WPublish, WKick, WWait, RLook, RNothing,
        RFree, RWait, REnable, CloseDrained, Goto, Return
<1>4. CASE Isr
  BY <1>4 DEF Isr, Interrupt, IsrControl, IsrReceive, IsrReceived,
        IsrReceiveOff, IsrSend, IsrSent, ring, call, history
<1>5. CASE Tick
  BY <1>5 DEF Tick, ring, call, history
<1>6. CASE Host
  BY <1>6 DEF Host, HostReads, HostTypes, HostLooks, HostComesOrGoes,
        HostUnchanged, ring, call, history
<1>. QED
  BY <1>1, <1>2, <1>3, <1>4, <1>5, <1>6 DEF Next

\* InputInOrder without what a read has copied.
InputOrdered ==
    /\ typed = read + Used(rx_in, rx_out) + Len(rxf)
    /\ \A i \in 1..Len(rxf) : rxf[i] = read + Used(rx_in, rx_out) + i - 1
    /\ \A i \in Index : Offset(i, rx_out) < Used(rx_in, rx_out)
          => rx_buf[i] = read + Offset(i, rx_out)

\* What a read has copied and not yet freed is what comes next.
LineOrdered == pc = "rfree" => \A i \in 1..ToFree : line[i] = read + i - 1

\* Together they are InputInOrder.
LEMMA InputParts == InputInOrder <=> InputOrdered /\ LineOrdered
BY DEF InputInOrder, InputOrdered, LineOrdered

\* Every step keeps the host's characters in order.
LEMMA InputStep ==
  ASSUME IInv, [Next]_vars
  PROVE  InputOrdered'
<1>. USE BufLenAssumption
<1>0. /\ rx_in \in Index /\ rx_out \in Index
      /\ rxf \in Seq(Nat) /\ read \in Nat /\ typed \in Nat
      /\ rx_buf \in [Index -> Nat]
  BY TextAssumption DEF IInv, TypeOK, Chars
<1>a. Used(rx_in, rx_out) \in 0..BufLen - 1
  BY <1>0, UsedBounds
<1>b. InputOrdered
  BY InputParts DEF IInv
<1>c. 1 \in 0..BufLen
  OBVIOUS
<1>1. CASE RFree
  <2>1. ToFree \in 0..Used(rx_in, rx_out)
    BY <1>1, ToFreeBounds DEF IInv, RFree, At
  <2>2. /\ UNCHANGED <<rx_in, rx_buf, rxf, typed>>
        /\ rx_out' = Plus(rx_out, ToFree)
        /\ read' = read + ToFree
    BY <1>1 DEF RFree, device
  <2>3. Used(rx_in, rx_out)' = Used(rx_in, rx_out) - ToFree
    BY <1>0, <2>1, <2>2, UsedShrinks
  <2>4. Len(rxf) \in Nat
    BY <1>0
  <2>5. (typed = read + Used(rx_in, rx_out) + Len(rxf))'
    BY <1>0, <1>a, <1>b, <2>1, <2>2, <2>3, <2>4 DEF InputOrdered
  <2>6. ASSUME NEW i \in 1..Len(rxf)
        PROVE  rxf[i] = read' + Used(rx_in, rx_out)' + i - 1
    BY <1>0, <1>a, <1>b, <2>1, <2>2, <2>3, <2>4 DEF InputOrdered
  <2>7. ASSUME NEW i \in Index,
               Offset(i, rx_out') < Used(rx_in, rx_out) - ToFree
        PROVE  rx_buf[i] = read' + Offset(i, rx_out')
    <3>1. Offset(i, rx_out) = Offset(i, rx_out') + ToFree
      BY <1>0, <2>1, <2>2, <2>7, OffsetShifts
    <3>2. rx_out' \in Index
      BY <1>0, <1>a, <2>1, <2>2, PlusWraps
    <3>3. Offset(i, rx_out') \in Int
      BY <3>2 DEF Offset, Index
    <3>4. rx_buf[i] = read + Offset(i, rx_out)
      BY <1>a, <1>b, <2>1, <2>7, <3>1, <3>3 DEF InputOrdered
    <3>. QED
      BY <1>0, <2>1, <2>2, <3>1, <3>3, <3>4
  <2>. QED
    BY <2>2, <2>3, <2>5, <2>6, <2>7 DEF InputOrdered, Offset
<1>2. CASE IsrReceive
  <2>1. /\ UNCHANGED <<rx_out, typed, read>>
        /\ rx_in' = Plus(rx_in, 1)
        /\ rx_buf' = [rx_buf EXCEPT ![rx_in] = Head(rxf)]
        /\ rxf # <<>> /\ rxf' = Tail(rxf) /\ ~Full
    BY <1>2 DEF IsrReceive, history
  <2>2. Used(rx_in, rx_out) + 1 <= BufLen - 1
    BY <1>0, <1>a, <2>1, FullMeans
  <2>3. Used(rx_in, rx_out)' = Used(rx_in, rx_out) + 1
    BY <1>0, <1>a, <2>1, <2>2, UsedGrows
  <2>4. /\ Len(rxf) \in Nat /\ Len(rxf) > 0
        /\ Len(rxf') = Len(rxf) - 1
        /\ \A i \in 1..Len(rxf') : rxf'[i] = rxf[i + 1]
        /\ Head(rxf) = rxf[1]
    BY <1>0, <2>1
  <2>5. (typed = read + Used(rx_in, rx_out) + Len(rxf))'
    BY <1>0, <1>a, <1>b, <2>1, <2>3, <2>4 DEF InputOrdered
  <2>6. ASSUME NEW i \in 1..Len(rxf')
        PROVE  rxf'[i] = read + Used(rx_in, rx_out)' + i - 1
    <3>1. i + 1 \in 1..Len(rxf) /\ rxf'[i] = rxf[i + 1]
      BY <2>4
    <3>2. rxf[i + 1] = read + Used(rx_in, rx_out) + (i + 1) - 1
      BY <1>b, <3>1 DEF InputOrdered
    <3>. QED
      BY <1>0, <1>a, <2>3, <2>4, <3>1, <3>2
  <2>7. ASSUME NEW i \in Index, Offset(i, rx_out) < Used(rx_in, rx_out) + 1
        PROVE  rx_buf'[i] = read + Offset(i, rx_out)
    <3>1. rx_in + 1 <= BufLen /\ 1 \in 0..BufLen - 1 - Used(rx_in, rx_out)
      BY <1>0, <1>a, <2>2 DEF Index
    <3>2. CASE i = rx_in
      <4>1. Offset(i, rx_out) = Used(rx_in, rx_out)
        BY <1>0, <3>2 DEF Offset, Used, Index
      <4>2. rx_buf'[i] = rxf[1]
        BY <1>0, <2>1, <2>4, <3>2
      <4>3. rxf[1] = read + Used(rx_in, rx_out)
        <5>1. 1 \in 1..Len(rxf)
          BY <2>4
        <5>. QED BY <1>0, <1>a, <1>b, <5>1 DEF InputOrdered
      <4>. QED
        BY <4>1, <4>2, <4>3
    <3>3. CASE i # rx_in
      <4>1. ~(i >= rx_in /\ i < rx_in + 1)
        BY <1>0, <3>3 DEF Index
      <4>2. Offset(i, rx_out) < Used(rx_in, rx_out)
        BY <1>0, <2>7, <3>1, <4>1, OffsetBehind
      <4>3. rx_buf'[i] = rx_buf[i]
        BY <1>0, <2>1, <3>3
      <4>. QED
        BY <1>b, <4>2, <4>3 DEF InputOrdered
    <3>. QED
      BY <3>2, <3>3
  <2>. QED
    BY <2>1, <2>3, <2>5, <2>6, <2>7 DEF InputOrdered, Offset
<1>3. CASE HostTypes
  <2>1. /\ UNCHANGED <<rx_in, rx_out, rx_buf, read>>
        /\ rxf' = Append(rxf, typed) /\ typed' = typed + 1
    BY <1>3 DEF HostTypes, HostUnchanged, ring
  <2>2. /\ Len(rxf) \in Nat
        /\ Len(rxf') = Len(rxf) + 1
        /\ \A i \in 1..Len(rxf) : rxf'[i] = rxf[i]
        /\ rxf'[Len(rxf) + 1] = typed
    BY <1>0, <2>1
  <2>3. ASSUME NEW i \in 1..Len(rxf')
        PROVE  rxf'[i] = read + Used(rx_in, rx_out) + i - 1
    <3>1. CASE i \in 1..Len(rxf)
      BY <1>b, <2>2, <3>1 DEF InputOrdered
    <3>2. CASE i = Len(rxf) + 1
      BY <1>0, <1>a, <1>b, <2>2, <3>2 DEF InputOrdered
    <3>. QED
      BY <2>2, <3>1, <3>2
  <2>4. typed' = read + Used(rx_in, rx_out) + Len(rxf')
    BY <1>0, <1>a, <1>b, <2>1, <2>2 DEF InputOrdered
  <2>. QED
    BY <1>b, <2>1, <2>3, <2>4 DEF InputOrdered, Used, Offset
<1>4. CASE UNCHANGED inputVars
  BY <1>4, <1>b DEF inputVars, InputOrdered, Used, Offset
<1>. QED
  BY <1>1, <1>2, <1>3, <1>4, InputUntouched

\* Every step keeps what a read has copied.
LEMMA LineStep ==
  ASSUME IInv, [Next]_vars
  PROVE  LineOrdered'
<1>. SUFFICES ASSUME pc' = "rfree" PROVE LineOrdered'
  BY DEF LineOrdered
<1>0. /\ rx_in \in Index /\ rx_out \in Index /\ read \in Nat
  BY TextAssumption DEF IInv, TypeOK
<1>1. CASE RCopy
  <2>1. /\ ToFree \in 0..Used(rx_in, rx_out)
        /\ rx_out + ToFree <= BufLen
    BY <1>1, ToFreeBounds DEF IInv, RCopy, At
  <2>2. /\ UNCHANGED <<rx_out, count, seen, read>>
        /\ line' = [i \in 1..ToFree |-> rx_buf[rx_out + i - 1]]
    BY <1>1 DEF RCopy, ring, history
  <2>3. Used(rx_in, rx_out) \in 0..BufLen - 1
    BY <1>0, UsedBounds
  <2>4. ASSUME NEW i \in 1..ToFree
        PROVE  rx_buf[rx_out + i - 1] = read + i - 1
    <3>1. rx_out + i - 1 \in Index
      BY <1>0, <2>1, <2>3, BufLenAssumption DEF Index
    <3>2. Offset(rx_out + i - 1, rx_out) = i - 1
      BY <1>0, <2>1, <2>3 DEF Offset, Index
    <3>3. i - 1 < Used(rx_in, rx_out)
      BY <2>1, <2>3
    <3>4. rx_buf[rx_out + i - 1] = read + (i - 1)
      BY <3>1, <3>2, <3>3 DEF IInv, InputInOrder
    <3>. QED
      BY <1>0, <2>1, <2>3, <3>4
  <2>5. ToFree' = ToFree
    BY <2>2 DEF ToFree, Waiting, Least
  <2>. QED
    BY <2>2, <2>4, <2>5 DEF LineOrdered
<1>2. CASE pc = "rfree" /\ UNCHANGED <<line, count, seen, rx_out, read>>
  BY <1>2 DEF IInv, InputInOrder, LineOrdered, ToFree, Waiting, Least
<1>. QED
  BY <1>1, <1>2, LineKept

\* What the thread relies on changes by its own steps and, at the other ends of
\* the rings, by the interrupt routine's.
LEMMA OthersKeep ==
  ASSUME Isr \/ Tick \/ Host \/ UNCHANGED vars
  PROVE  /\ UNCHANGED <<call, tx_in, tx_buf, rx_out, wrote, read>>
         /\ IsrSend \/ UNCHANGED tx_out
         /\ IsrReceive \/ UNCHANGED <<rx_in, rx_buf>>
<1>1. CASE UNCHANGED vars
  BY <1>1 DEF vars, ring, history
<1>2. CASE Isr
  BY <1>2 DEF Isr, Interrupt, IsrControl, IsrReceive, IsrReceived,
        IsrReceiveOff, IsrSend, IsrSent, ring, history
<1>3. CASE Tick
  BY <1>3 DEF Tick, ring, history
<1>4. CASE Host
  BY <1>4 DEF Host, HostReads, HostTypes, HostLooks, HostComesOrGoes,
        HostUnchanged, ring, history
<1>. QED
  BY <1>1, <1>2, <1>3, <1>4

\* What a write relies on survives the steps of the others.
LEMMA WriteStep ==
  ASSUME IInv, [Next]_vars
  PROVE  WriteHolds'
<1>. USE BufLenAssumption
<1>0. /\ tx_in \in Index /\ tx_out \in Index /\ seen \in Index
      /\ wrote \in Nat /\ count \in Nat /\ tx_buf \in [Index -> Nat]
  BY TextAssumption, LongestAssumption DEF IInv, TypeOK, Chars
<1>1. CASE Isr \/ Tick \/ Host \/ UNCHANGED vars
  <2>1. UNCHANGED <<pc, count, seen, tx_in, tx_buf, wrote>>
    BY <1>1, OthersKeep DEF call
  <2>2. Used(tx_in, tx_out)' <= Used(tx_in, tx_out)
    <3>1. CASE IsrSend
      <4>1. tx_out # tx_in /\ tx_out' = Plus(tx_out, 1)
        BY <3>1 DEF IsrSend
      <4>2. Used(tx_in, tx_out) \in Nat /\ 1 \in 0..Used(tx_in, tx_out)
        BY <1>0, <4>1, UsedBounds
      <4>3. Used(tx_in, tx_out)' = Used(tx_in, tx_out) - 1
        BY <1>0, <2>1, <4>1, <4>2, UsedShrinks
      <4>. QED
        BY <4>2, <4>3
    <3>2. CASE UNCHANGED tx_out
      BY <1>0, <2>1, <3>2, UsedBounds DEF Used, Index
    <3>. QED
      BY <1>1, <3>1, <3>2, OthersKeep
  <2>3. ToCopy' = ToCopy
    BY <2>1 DEF ToCopy, Room, Least
  <2>4. Used(tx_in, seen)' = Used(tx_in, seen)
    BY <2>1 DEF Used
  <2>5. /\ Used(tx_in, tx_out) \in Nat /\ Used(tx_in, tx_out)' \in Int
        /\ Used(tx_in, seen) \in Nat
    <3>1. tx_out' \in Index
      <4>1. 1 \in 0..BufLen
        OBVIOUS
      <4>. QED
        BY <1>0, <1>1, <4>1, OthersKeep, PlusWraps DEF IsrSend
    <3>. QED
      BY <1>0, <2>1, <3>1, UsedBounds
  <2>6. pc \in {"wcopy", "wpublish"} => Used(tx_in, tx_out)' <= Used(tx_in, seen)
    BY <2>2, <2>5 DEF IInv, WriteHolds
  <2>. QED
    BY <2>1, <2>3, <2>4, <2>6 DEF IInv, WriteHolds
<1>2. CASE Calls
  BY <1>0, <1>2 DEF IInv, Calls, Write, Read, Close, WriteHolds, WritePlaces,
        Goto, At, history
<1>3. CASE WLook
  <2>1. UNCHANGED <<count, wrote, tx_in, tx_out>> /\ pc' \in {"wcopy", "wkick"}
        /\ pc = "wlook" /\ (pc' = "wcopy" => seen' = tx_out)
    BY <1>0, <1>3 DEF WLook, ring, history, Goto, At
  <2>2. pc' = "wcopy" => (Used(tx_in, tx_out) <= Used(tx_in, seen))'
    BY <1>0, <2>1, UsedBounds DEF Used, Index
  <2>. QED
    BY <2>1, <2>2 DEF IInv, WriteHolds, WritePlaces
<1>4. CASE WCopy
  <2>1. /\ UNCHANGED <<tx_in, tx_out, count, seen, wrote>>
        /\ pc = "wcopy" /\ pc' = "wpublish"
        /\ tx_buf' = [i \in Index |-> IF i \in tx_in..tx_in + ToCopy - 1
                                      THEN wrote + i - tx_in ELSE tx_buf[i]]
    BY <1>4 DEF WCopy, history, Goto, At
  <2>2. ToCopy' = ToCopy /\ ToCopy \in Int
    <3>1. ToCopy' = ToCopy
      BY <2>1 DEF ToCopy, Room, Least
    <3>. QED
      BY <2>1, <3>1, ToCopyBounds DEF IInv
  <2>3. \A i \in Index : i >= tx_in /\ i < tx_in + ToCopy
           => tx_buf'[i] = wrote + i - tx_in
    BY <1>0, <2>1, <2>2 DEF Index
  <2>4. (Used(tx_in, tx_out) <= Used(tx_in, seen))'
    BY <2>1 DEF IInv, WriteHolds, Used
  <2>. QED
    BY <2>1, <2>2, <2>3, <2>4 DEF IInv, WriteHolds, WritePlaces
<1>5. CASE WPublish
  <2>1. /\ pc = "wpublish" /\ pc' = "wlook"
        /\ count' = count - ToCopy /\ wrote' = wrote + ToCopy
    BY <1>5 DEF WPublish, Goto, At
  <2>2. ToCopy \in Int
    BY <2>1, ToCopyBounds DEF IInv
  <2>3. wrote + count <= Out
    BY <2>1 DEF IInv, WriteHolds, WritePlaces
  <2>. QED
    BY <1>0, <2>1, <2>2, <2>3, TextAssumption DEF WriteHolds
<1>6. CASE WKick \/ WWait
  BY <1>6 DEF IInv, WKick, WWait, Return, WriteHolds, WritePlaces, history,
        Goto, At
<1>7. CASE RLook \/ RNothing \/ RCopy \/ RFree \/ RWait \/ REnable \/ CloseDrained
  BY <1>7 DEF RLook, RNothing, RCopy, RFree, RWait, REnable, CloseDrained,
        Return, WriteHolds, WritePlaces, Goto
<1>. QED
  BY <1>1, <1>2, <1>3, <1>4, <1>5, <1>6, <1>7 DEF Next, Thread

\* What a read relies on survives them too.
LEMMA ReadStep ==
  ASSUME IInv, [Next]_vars
  PROVE  ReadHolds'
<1>. USE BufLenAssumption
<1>0. /\ rx_in \in Index /\ rx_out \in Index /\ seen \in Index
  BY DEF IInv, TypeOK
<1>1. CASE Isr \/ Tick \/ Host \/ UNCHANGED vars
  <2>1. UNCHANGED <<pc, moved, seen, rx_out>>
    BY <1>1, OthersKeep DEF call
  <2>2. Used(rx_in, rx_out)' >= Used(rx_in, rx_out)
    <3>1. CASE IsrReceive
      <4>1. ~Full /\ rx_in' = Plus(rx_in, 1)
        BY <3>1 DEF IsrReceive
      <4>2. /\ Used(rx_in, rx_out) \in Nat
            /\ 1 \in 0..BufLen - 1 - Used(rx_in, rx_out)
        BY <1>0, <4>1, UsedBounds, FullMeans
      <4>3. Used(rx_in, rx_out)' = Used(rx_in, rx_out) + 1
        BY <1>0, <2>1, <4>1, <4>2, UsedGrows
      <4>. QED
        BY <4>2, <4>3
    <3>2. CASE UNCHANGED rx_in
      BY <1>0, <2>1, <3>2, UsedBounds DEF Used, Index
    <3>. QED
      BY <1>1, <3>1, <3>2, OthersKeep
  <2>3. Used(seen, rx_out)' = Used(seen, rx_out)
    BY <2>1 DEF Used
  <2>4. /\ Used(rx_in, rx_out) \in Nat /\ Used(rx_in, rx_out)' \in Int
        /\ Used(seen, rx_out) \in Nat
    <3>1. rx_in' \in Index
      <4>1. 1 \in 0..BufLen
        OBVIOUS
      <4>. QED
        BY <1>0, <1>1, <4>1, OthersKeep, PlusWraps DEF IsrReceive
    <3>. QED
      BY <1>0, <2>1, <3>1, UsedBounds
  <2>5. pc \in {"rcopy", "rfree"} => Used(seen, rx_out) <= Used(rx_in, rx_out)'
    BY <2>2, <2>4 DEF IInv, ReadHolds
  <2>. QED
    BY <2>1, <2>3, <2>5 DEF IInv, ReadHolds
<1>2. CASE Calls
  BY <1>2 DEF Calls, Write, Read, Close, ReadHolds, Goto
<1>3. CASE WLook \/ WCopy \/ WPublish \/ WKick \/ WWait
  BY <1>3 DEF WLook, WCopy, WPublish, WKick, WWait, Return, ReadHolds, Goto
<1>4. CASE RLook
  <2>1. UNCHANGED <<rx_in, rx_out>> /\ seen' = rx_in /\ pc' # "rfree"
    BY <1>4 DEF RLook, ring, Goto
  <2>2. (Used(seen, rx_out) <= Used(rx_in, rx_out))'
    BY <1>0, <2>1, UsedBounds DEF Used, Index
  <2>. QED
    BY <2>1, <2>2 DEF ReadHolds
<1>5. CASE RCopy
  <2>1. /\ UNCHANGED <<rx_in, rx_out, seen>> /\ moved'
        /\ pc = "rcopy"
    BY <1>5 DEF RCopy, ring, At
  <2>. QED
    BY <2>1 DEF IInv, ReadHolds, Used
<1>6. CASE RNothing \/ RFree \/ RWait \/ REnable \/ CloseDrained
  BY <1>6 DEF RNothing, RFree, RWait, REnable, CloseDrained, Return,
        ReadHolds, Goto
<1>. QED
  BY <1>1, <1>2, <1>3, <1>4, <1>5, <1>6 DEF Next, Thread

\* So does what the interrupt routine relies on.
LEMMA HandlerStep ==
  ASSUME IInv, [Next]_vars
  PROVE  HandlerHolds'
<1>0. /\ txf \in Seq(Nat) /\ Len(txf) <= Fifo /\ space \in 0..Fifo
      /\ Fifo \in Nat
  BY FifoAssumption DEF IInv, TypeOK, Chars
<1>1. CASE UNCHANGED vars
  BY <1>1 DEF IInv, HandlerHolds, Full, Plus, vars, ring, handler, device
<1>2. CASE Calls \/ Thread
  <2>1. isr' = "idle" /\ UNCHANGED <<space, txf>>
    BY <1>2 DEF Calls, Thread, Write, Read, Close, WLook, WCopy, WPublish,
          WKick, WWait, RLook, RNothing, RCopy, RFree, RWait, REnable,
          CloseDrained, At, handler, device
  <2>. QED
    BY <2>1 DEF IInv, HandlerHolds
<1>3. CASE Interrupt \/ IsrReceiveOff \/ IsrSent
  BY <1>0, <1>3 DEF IInv, HandlerHolds, Interrupt, IsrReceiveOff, IsrSent, device
<1>4. CASE IsrControl
  BY <1>0, <1>4 DEF HandlerHolds, IsrControl, ReadPending, WritePending, device
<1>5. CASE IsrReceive
  BY <1>5 DEF IInv, HandlerHolds, IsrReceive
<1>6. CASE IsrReceived
  BY <1>6 DEF IInv, HandlerHolds, IsrReceived, Full, Plus, ring, device
<1>7. CASE IsrSend
  <2>1. Len(txf') = Len(txf) + 1 /\ Len(txf) \in Nat
    BY <1>0, <1>7 DEF IsrSend, IInv, TypeOK
  <2>. QED
    BY <1>0, <1>7, <2>1 DEF IInv, HandlerHolds, IsrSend
<1>8. CASE Tick
  BY <1>8 DEF IInv, HandlerHolds, Tick, Full, Plus, ring, handler
<1>9. CASE Host
  <2>1. UNCHANGED <<isr, space, avail, irq_enable, rx_in, rx_out>>
    BY <1>9 DEF Host, HostReads, HostTypes, HostLooks, HostComesOrGoes,
          HostUnchanged, handler, ring
  <2>2. Len(txf') \in Nat /\ Len(txf') <= Len(txf) /\ Len(txf) \in Nat
    BY <1>0, <1>9 DEF Host, HostReads, HostTypes, HostLooks, HostComesOrGoes
  <2>. QED
    BY <1>0, <2>1, <2>2 DEF IInv, HandlerHolds, Full, Plus
<1>. QED
  BY <1>1, <1>2, <1>3, <1>4, <1>5, <1>6, <1>7, <1>8, <1>9 DEF Next, Isr

\* Who turns an interrupt on or off: the kick of a write, the end of a read and
\* the two ends of the interrupt routine's loops.
LEMMA EnableUntouched ==
  ASSUME [Next]_vars
  PROVE  WKick \/ REnable \/ IsrReceiveOff \/ IsrSent \/ UNCHANGED irq_enable
<1>1. CASE UNCHANGED vars
  BY <1>1 DEF vars
<1>2. CASE Calls
  BY <1>2 DEF Calls, Write, Read, Close
<1>3. CASE Thread
  BY <1>3 DEF Thread, WLook, WCopy, WPublish, WWait, RLook, RNothing, RCopy,
        RFree, RWait, CloseDrained
<1>4. CASE Isr
  BY <1>4 DEF Isr, Interrupt, IsrControl, IsrReceive, IsrReceived, IsrSend
<1>5. CASE Tick
  BY <1>5 DEF Tick
<1>6. CASE Host
  BY <1>6 DEF Host, HostReads, HostTypes, HostLooks, HostComesOrGoes,
        HostUnchanged
<1>. QED
  BY <1>1, <1>2, <1>3, <1>4, <1>5, <1>6 DEF Next

\* Every step keeps the write interrupt on while there is text.
LEMMA TransmitterStep ==
  ASSUME IInv, [Next]_vars
  PROVE  TransmitterOn'
<1>0. TransmitterOn
  BY DEF IInv, InterruptsOn
<1>1. CASE Isr \/ Tick \/ Host \/ UNCHANGED vars
  <2>1. UNCHANGED <<pc, tx_in>>
    BY <1>1, OthersKeep DEF call
  <2>2. CASE IsrSent
    BY <1>0, <2>1, <2>2 DEF IsrSent, TransmitterOn, ring
  <2>3. CASE IsrSend
    BY <1>0, <2>1, <2>3 DEF IsrSend, TransmitterOn
  <2>4. CASE ~IsrSent /\ ~IsrSend
    <3>1. UNCHANGED tx_out
      BY <1>1, <2>4, OthersKeep
    <3>2. "WE" \in irq_enable => "WE" \in irq_enable'
      BY <2>4, EnableUntouched DEF WKick, REnable, IsrReceiveOff
    <3>. QED
      BY <1>0, <2>1, <3>1, <3>2 DEF TransmitterOn
  <2>. QED
    BY <2>2, <2>3, <2>4
<1>2. CASE Calls
  BY <1>0, <1>2 DEF Calls, Write, Read, Close, TransmitterOn, WritePlaces, ring,
        Goto, At
<1>3. CASE WLook \/ WCopy \/ WPublish
  BY <1>3 DEF WLook, WCopy, WPublish, TransmitterOn, WritePlaces, Goto
<1>4. CASE WKick
  BY <1>4 DEF WKick, TransmitterOn
<1>5. CASE WWait
  BY <1>0, <1>5 DEF WWait, TransmitterOn, WritePlaces, ring, At, Goto, Return
<1>6. CASE RLook \/ RNothing \/ RCopy \/ RFree \/ RWait \/ REnable \/ CloseDrained
  BY <1>0, <1>6 DEF RLook, RNothing, RCopy, RFree, RWait, REnable,
        CloseDrained, TransmitterOn, WritePlaces, ring, At
<1>. QED
  BY <1>1, <1>2, <1>3, <1>4, <1>5, <1>6 DEF Next, Thread

\* Every step keeps the receive interrupt on or leaves it to a read.
LEMMA ReceiverStep ==
  ASSUME IInv, [Next]_vars
  PROVE  ReceiverOn'
<1>0. ReceiverOn /\ HandlerHolds
  BY DEF IInv, InterruptsOn
<1>1. CASE Isr \/ Tick \/ Host \/ UNCHANGED vars
  <2>1. UNCHANGED <<pc, moved, rx_out>>
    BY <1>1, OthersKeep DEF call
  <2>2. CASE IsrReceive
    BY <1>0, <2>2 DEF IsrReceive, ReceiverOn, HandlerHolds
  <2>3. CASE IsrReceiveOff
    BY <1>0, <2>1, <2>3 DEF IsrReceiveOff, ReceiverOn, HandlerHolds, Full, Plus,
          ring
  <2>4. CASE ~IsrReceive /\ ~IsrReceiveOff
    <3>1. UNCHANGED rx_in
      BY <1>1, <2>4, OthersKeep
    <3>2. "RE" \in irq_enable => "RE" \in irq_enable'
      BY <2>4, EnableUntouched DEF WKick, REnable, IsrSent
    <3>. QED
      BY <1>0, <2>1, <3>1, <3>2 DEF ReceiverOn, Full, Plus
  <2>. QED
    BY <2>2, <2>3, <2>4
<1>2. CASE Calls
  BY <1>0, <1>2 DEF Calls, Write, Read, Close, ReceiverOn, Full, Plus, ring,
        Goto, At
<1>3. CASE WLook \/ WCopy \/ WPublish \/ WKick \/ WWait \/ CloseDrained
  BY <1>0, <1>3 DEF WLook, WCopy, WPublish, WKick, WWait, CloseDrained,
        ReceiverOn, Full, Plus, ring, At
<1>4. CASE RLook \/ RNothing \/ RWait
  BY <1>0, <1>4 DEF RLook, RNothing, RWait, ReceiverOn, Full, Plus, ring, At,
        Goto, Return
<1>5. CASE RCopy
  BY <1>5 DEF RCopy, ReceiverOn, Goto
<1>6. CASE RFree
  BY <1>6 DEF RFree, ReceiverOn, Goto, At, IInv, ReadHolds
<1>7. CASE REnable
  BY <1>7 DEF REnable, ReceiverOn
<1>. QED
  BY <1>1, <1>2, <1>3, <1>4, <1>5, <1>6, <1>7 DEF Next, Thread

\* The indices stay on the rings.
LEMMA TypeOfRing ==
  ASSUME IInv, [Next]_vars
  PROVE  (/\ tx_in \in Index /\ tx_out \in Index
          /\ rx_in \in Index /\ rx_out \in Index
          /\ tx_buf \in [Index -> Chars] /\ rx_buf \in [Index -> Chars])'
<1>. USE BufLenAssumption DEF Chars
<1>0. /\ tx_in \in Index /\ tx_out \in Index
      /\ rx_in \in Index /\ rx_out \in Index
      /\ tx_buf \in [Index -> Chars] /\ rx_buf \in [Index -> Chars]
      /\ wrote \in Nat /\ rxf \in Seq(Chars)
  <2>1. wrote \in Nat
    BY TextAssumption DEF IInv, TypeOK
  <2>. QED BY <2>1 DEF IInv, TypeOK
<1>a. 1 \in 0..BufLen
  OBVIOUS
<1>1. tx_in' \in Index /\ tx_buf' \in [Index -> Chars]
  <2>1. CASE WCopy
    <3>1. ASSUME NEW i \in Index, i \in tx_in..tx_in + ToCopy - 1
          PROVE  wrote + i - tx_in \in Nat
      BY <1>0, <3>1 DEF Index
    <3>2. /\ UNCHANGED tx_in
          /\ tx_buf' = [i \in Index |-> IF i \in tx_in..tx_in + ToCopy - 1
                                        THEN wrote + i - tx_in ELSE tx_buf[i]]
      BY <2>1 DEF WCopy
    <3>. QED
      BY <1>0, <3>1, <3>2
  <2>2. CASE WPublish
    <3>1. ToCopy \in 0..BufLen
      <4>1. Used(tx_in, tx_out) \in Nat
        BY <1>0, UsedBounds
      <4>. QED
        BY <2>2, <4>1, ToCopyBounds DEF IInv, WPublish, At
    <3>. QED
      BY <1>0, <2>2, <3>1, PlusWraps DEF WPublish
  <2>. QED
    BY <1>0, <2>1, <2>2, TextUntouched DEF textVars, IsrSend, HostReads,
       HostUnchanged, ring
<1>2. tx_out' \in Index
  <2>1. CASE IsrSend
    BY <1>0, <1>a, <2>1, PlusWraps DEF IsrSend
  <2>. QED
    BY <1>0, <2>1, TextUntouched DEF textVars, WCopy, WPublish, HostReads,
       HostUnchanged, ring
<1>3. rx_in' \in Index /\ rx_buf' \in [Index -> Chars]
  <2>1. CASE IsrReceive
    <3>1. Head(rxf) \in Chars
      BY <1>0, <2>1 DEF IsrReceive
    <3>. QED
      BY <1>0, <1>a, <2>1, <3>1, PlusWraps DEF IsrReceive
  <2>. QED
    BY <1>0, <2>1, InputUntouched DEF inputVars, RFree, HostTypes,
       HostUnchanged, ring
<1>4. rx_out' \in Index
  <2>1. CASE RFree
    <3>1. ToFree \in 0..BufLen
      <4>1. Used(rx_in, rx_out) \in 0..BufLen - 1
        BY <1>0, UsedBounds
      <4>. QED
        BY <2>1, <4>1, ToFreeBounds DEF IInv, RFree, At
    <3>. QED
      BY <1>0, <2>1, <3>1, PlusWraps DEF RFree
  <2>. QED
    BY <1>0, <2>1, InputUntouched DEF inputVars, IsrReceive, HostTypes,
       HostUnchanged, ring
<1>. QED
  BY <1>1, <1>2, <1>3, <1>4

\* The FIFOs and the histories keep their types: nothing is sent into a full
\* FIFO, and nothing is got that was not sent.
LEMMA TypeOfTexts ==
  ASSUME IInv, [Next]_vars
  PROVE  (/\ txf \in Seq(Chars) /\ Len(txf) <= Fifo
          /\ rxf \in Seq(Chars) /\ Len(rxf) <= Fifo
          /\ wrote \in 0..Out /\ heard \in 0..Out
          /\ typed \in 0..In /\ read \in 0..In)'
<1>. USE FifoAssumption, TextAssumption, BufLenAssumption DEF Chars
<1>0. /\ txf \in Seq(Chars) /\ Len(txf) <= Fifo
      /\ rxf \in Seq(Chars) /\ Len(rxf) <= Fifo
      /\ wrote \in 0..Out /\ heard \in 0..Out
      /\ typed \in 0..In /\ read \in 0..In
  BY DEF IInv, TypeOK
<1>1. txf' \in Seq(Chars) /\ Len(txf') <= Fifo
  <2>1. CASE IsrSend
    <3>1. tx_buf[tx_out] \in Chars /\ space <= Fifo - Len(txf) /\ space > 0
          /\ space \in Int
      BY <2>1 DEF IInv, TypeOK, HandlerHolds, IsrSend
    <3>2. txf' = Append(txf, tx_buf[tx_out])
      BY <2>1 DEF IsrSend
    <3>3. Len(txf') = Len(txf) + 1 /\ Len(txf) \in Nat
      BY <1>0, <3>1, <3>2
    <3>. QED
      BY <1>0, <3>1, <3>2, <3>3
  <2>2. CASE HostReads
    <3>1. txf # <<>> /\ txf' = Tail(txf)
      BY <2>2 DEF HostReads
    <3>2. txf' \in Seq(Chars) /\ Len(txf') = Len(txf) - 1 /\ Len(txf) \in Nat
      BY <1>0, <3>1
    <3>. QED
      BY <1>0, <3>2
  <2>. QED
    BY <1>0, <2>1, <2>2, TextUntouched DEF textVars, WCopy, WPublish, device
<1>2. rxf' \in Seq(Chars) /\ Len(rxf') <= Fifo
  <2>1. CASE IsrReceive
    <3>1. rxf # <<>> /\ rxf' = Tail(rxf)
      BY <2>1 DEF IsrReceive
    <3>2. rxf' \in Seq(Chars) /\ Len(rxf') = Len(rxf) - 1 /\ Len(rxf) \in Nat
      BY <1>0, <3>1
    <3>. QED
      BY <1>0, <3>2
  <2>2. CASE HostTypes
    <3>1. rxf' = Append(rxf, typed) /\ Len(rxf) < Fifo
      BY <2>2 DEF HostTypes
    <3>2. Len(rxf') = Len(rxf) + 1 /\ Len(rxf) \in Nat
      BY <1>0, <3>1
    <3>. QED
      BY <1>0, <3>1, <3>2
  <2>. QED
    BY <1>0, <2>1, <2>2, InputUntouched DEF inputVars, RFree, device
<1>3. wrote' \in 0..Out
  <2>1. CASE WPublish
    <3>1. ToCopy \in Nat /\ ToCopy <= count
      <4>1. Used(tx_in, tx_out) \in Nat
        BY UsedBounds DEF IInv, TypeOK
      <4>. QED
        BY <2>1, <4>1, ToCopyBounds DEF IInv, WPublish, At
    <3>2. wrote + count <= Out /\ count \in Nat
      BY <2>1, LongestAssumption DEF IInv, TypeOK, WriteHolds, WritePlaces,
         WPublish, At
    <3>. QED
      BY <1>0, <2>1, <3>1, <3>2 DEF WPublish
  <2>. QED
    BY <1>0, <2>1, TextUntouched DEF textVars, WCopy, IsrSend, HostReads, history
<1>4. heard' \in 0..Out
  <2>1. wrote' = heard' + Len(txf') + Used(tx_in', tx_out')
    BY TextStep DEF TextInOrder
  <2>2. Used(tx_in', tx_out') \in Nat
    BY TypeOfRing, UsedBounds
  <2>3. Len(txf') \in Nat
    BY <1>1
  <2>4. heard' \in Nat
    <3>1. UNCHANGED heard \/ heard' = heard + 1
      BY TextUntouched DEF textVars, WCopy, WPublish, IsrSend, HostReads, history
    <3>. QED
      BY <1>0, <3>1
  <2>. QED
    BY <1>3, <2>1, <2>2, <2>3, <2>4
<1>5. typed' \in 0..In
  <2>1. UNCHANGED typed \/ (typed < In /\ typed' = typed + 1)
    BY InputUntouched DEF inputVars, RFree, IsrReceive, HostTypes, history
  <2>. QED
    BY <1>0, <2>1
<1>6. read' \in 0..In
  <2>1. typed' = read' + Used(rx_in', rx_out') + Len(rxf')
    BY InputStep DEF InputOrdered
  <2>2. Used(rx_in', rx_out') \in Nat
    BY TypeOfRing, UsedBounds
  <2>3. Len(rxf') \in Nat
    BY <1>2
  <2>4. read' \in Nat
    <3>1. CASE RFree
      <4>1. Used(rx_in, rx_out) \in Nat
        BY UsedBounds DEF IInv, TypeOK
      <4>2. ToFree \in Nat
        BY <3>1, <4>1, ToFreeBounds DEF IInv, RFree, At
      <4>. QED
        BY <1>0, <3>1, <4>2 DEF RFree
    <3>2. CASE UNCHANGED read
      BY <1>0, <3>2
    <3>. QED
      BY <3>1, <3>2, InputUntouched DEF inputVars, IsrReceive, HostTypes, history
  <2>. QED
    BY <1>5, <2>1, <2>2, <2>3, <2>4
<1>. QED
  BY <1>1, <1>2, <1>3, <1>4, <1>5, <1>6

\* The variables of the call keep their types.
LEMMA TypeOfCall ==
  ASSUME IInv, [Next]_vars
  PROVE  (/\ pc \in WritePlaces \cup ReadPlaces \cup {"idle", "close"}
          /\ count \in 0..Longest
          /\ nonblock \in BOOLEAN /\ moved \in BOOLEAN
          /\ seen \in Index
          /\ line \in Seq(Chars))'
<1>. USE LongestAssumption, BufLenAssumption DEF WritePlaces, ReadPlaces
<1>0. /\ pc \in WritePlaces \cup ReadPlaces \cup {"idle", "close"}
      /\ count \in 0..Longest
      /\ nonblock \in BOOLEAN /\ moved \in BOOLEAN
      /\ seen \in Index /\ rx_in \in Index /\ tx_out \in Index
      /\ line \in Seq(Chars)
  BY DEF IInv, TypeOK
<1>a. 0 \in Index
  BY DEF Index
<1>1. CASE Isr \/ Tick \/ Host \/ UNCHANGED vars
  BY <1>0, <1>1, OthersKeep DEF call
<1>2. CASE Calls
  BY <1>0, <1>2 DEF Calls, Write, Read, Close, Goto
<1>3. CASE WLook \/ WCopy \/ RLook
  BY <1>0, <1>3 DEF WLook, WCopy, RLook, Goto
<1>4. CASE WKick \/ WWait \/ RNothing \/ RWait \/ REnable \/ CloseDrained
  <2>1. CASE Return
    <3>1. /\ pc' = "idle" /\ count' = 0 /\ seen' \in Index
          /\ nonblock' \in BOOLEAN /\ moved' \in BOOLEAN
      BY <1>a, <2>1 DEF Return, Goto
    <3>2. line' \in Seq(Chars)
      BY <2>1 DEF Return
    <3>. QED
      BY <3>1, <3>2
  <2>2. CASE pc' \in {"wwait", "wlook", "rlook", "idle"} /\ seen' \in {seen, 0}
             /\ UNCHANGED <<count, nonblock, moved, line>>
    BY <1>0, <1>a, <2>2
  <2>. QED
    BY <1>4, <2>1, <2>2 DEF WKick, WWait, RNothing, RWait, REnable,
       CloseDrained, Goto
<1>5. CASE WPublish
  <2>1. ToCopy \in Nat /\ ToCopy <= count
    <3>1. Used(tx_in, tx_out) \in Nat
      BY UsedBounds DEF IInv, TypeOK
    <3>. QED
      BY <1>5, <3>1, ToCopyBounds DEF IInv, WPublish, At
  <2>. QED
    BY <1>0, <1>a, <1>5, <2>1 DEF WPublish, Goto
<1>6. CASE RCopy \/ RFree
  <2>1. ToFree \in Nat /\ ToFree <= count /\ rx_out + ToFree <= BufLen
    <3>1. Used(rx_in, rx_out) \in Nat
      BY UsedBounds DEF IInv, TypeOK
    <3>. QED
      BY <1>6, <3>1, ToFreeBounds DEF IInv, RCopy, RFree, At
  <2>2. CASE RCopy
    <3>1. ASSUME NEW i \in 1..ToFree
          PROVE  rx_buf[rx_out + i - 1] \in Chars
      BY <2>1 DEF IInv, TypeOK, Index
    <3>2. line' = [i \in 1..ToFree |-> rx_buf[rx_out + i - 1]]
      BY <2>2 DEF RCopy
    <3>3. line' \in Seq(Chars)
      BY <2>1, <3>1, <3>2, SeqDef
    <3>. QED
      BY <1>0, <2>2, <3>3 DEF RCopy, Goto
  <2>3. CASE RFree
    BY <1>0, <1>a, <2>1, <2>3 DEF RFree, Goto
  <2>. QED
    BY <1>6, <2>2, <2>3
<1>. QED
  BY <1>1, <1>2, <1>3, <1>4, <1>5, <1>6 DEF Next, Thread

\* The interrupt routine's, the timer's and the device's keep theirs.
LEMMA TypeOfRest ==
  ASSUME IInv, [Next]_vars
  PROVE  (/\ irq_enable \subseteq {"RE", "WE"}
          /\ host_inactive \in 0..IntMax - 2 /\ timeout \in 2..IntMax
          /\ isr \in {"idle", "control", "rx", "rxOff", "tx"}
          /\ wi \in BOOLEAN /\ avail \in BOOLEAN
          /\ space \in 0..Fifo
          /\ ac \in BOOLEAN /\ connected \in BOOLEAN)'
<1>. USE FifoAssumption, TimeoutAssumption
<1>0. /\ irq_enable \subseteq {"RE", "WE"}
      /\ host_inactive \in 0..IntMax - 2 /\ timeout \in 2..IntMax
      /\ isr \in {"idle", "control", "rx", "rxOff", "tx"}
      /\ wi \in BOOLEAN /\ avail \in BOOLEAN
      /\ space \in 0..Fifo
      /\ ac \in BOOLEAN /\ connected \in BOOLEAN
      /\ Len(txf) \in Nat /\ Len(txf) <= Fifo
  BY DEF IInv, TypeOK
<1>1. CASE UNCHANGED vars
  BY <1>0, <1>1 DEF vars, timer, handler, device
<1>2. CASE Calls
  BY <1>0, <1>2 DEF Calls, Write, Read, Close, timer, handler, device
<1>3. CASE Thread
  <2>1. CASE WLook \/ WCopy \/ WPublish \/ WKick \/ WWait \/ CloseDrained
    BY <1>0, <2>1 DEF WLook, WCopy, WPublish, WKick, WWait, CloseDrained,
       timer, handler, device
  <2>2. CASE RLook \/ RNothing \/ RCopy \/ RFree \/ RWait \/ REnable
    BY <1>0, <2>2 DEF RLook, RNothing, RCopy, RFree, RWait, REnable,
       timer, handler, device
  <2>. QED BY <1>3, <2>1, <2>2 DEF Thread
<1>4. CASE Interrupt \/ IsrReceive \/ IsrReceived
  BY <1>0, <1>4 DEF Interrupt, IsrReceive, IsrReceived, timer, device
<1>5. CASE IsrControl
  BY <1>0, <1>5 DEF IsrControl, ReadPending, WritePending, timer, device
<1>6. CASE IsrReceiveOff
  BY <1>0, <1>6 DEF IsrReceiveOff, timer, device
<1>7. CASE IsrSend
  BY <1>0, <1>7 DEF IsrSend, timer
<1>8. CASE IsrSent
  <2>1. /\ irq_enable' \in {irq_enable, irq_enable \ {"WE"}}
        /\ isr' = "control" /\ wi' \in BOOLEAN /\ space' = 0
        /\ UNCHANGED <<host_inactive, timeout, avail, ac, connected>>
    BY <1>8 DEF IsrSent, timer, device
  <2>2. irq_enable' \subseteq {"RE", "WE"}
    BY <1>0, <2>1
  <2>. QED
    BY <1>0, <2>1, <2>2
<1>9. CASE Tick
  <2>1. /\ UNCHANGED <<irq_enable, timeout, isr, wi, avail, space, connected>>
        /\ ac' = FALSE
        /\ host_inactive' \in {0, Least(host_inactive + 1, IntMax - 2)}
    BY <1>9 DEF Tick, handler
  <2>2. host_inactive' \in 0..IntMax - 2
    BY <1>0, <2>1 DEF Least
  <2>. QED
    BY <1>0, <2>1, <2>2
<1>10. CASE Host
  BY <1>0, <1>10 DEF Host, HostReads, HostTypes, HostLooks, HostComesOrGoes,
     HostUnchanged, timer, handler
<1>. QED
  BY <1>1, <1>2, <1>3, <1>4, <1>5, <1>6, <1>7, <1>8, <1>9, <1>10 DEF Next, Isr

\* Every step keeps the types.
LEMMA TypeStep ==
  ASSUME IInv, [Next]_vars
  PROVE  TypeOK'
BY TypeOfRing, TypeOfTexts, TypeOfCall, TypeOfRest DEF TypeOK
-----------------------------------------------------------------------------
(* The theorems. *)

\* The invariant holds in every state: no order of the thread's and the
\* interrupt routine's accesses breaks what either relies on.
THEOREM Invariance == Spec => []IInv
<1>1. Init => IInv
  BY InitHolds
<1>2. IInv /\ [Next]_vars => IInv'
  BY TypeStep, TextStep, InputStep, LineStep, InputParts, TransmitterStep,
     ReceiverStep, WriteStep, ReadStep, HandlerStep
     DEF IInv, InterruptsOn, InputInOrder, InputOrdered, LineOrdered
<1>. QED
  BY <1>1, <1>2, PTL DEF Spec

\* The variables have their types: the indices stay on the rings, and the
\* FIFOs are never written when they are full.
THEOREM TypeCorrect == Spec => []TypeOK
<1>1. IInv => TypeOK
  BY DEF IInv
<1>. QED
  BY <1>1, Invariance, PTL

\* What the program writes reaches the host in order and each character once.
THEOREM TextStaysInOrder == Spec => []TextInOrder
<1>1. IInv => TextInOrder
  BY DEF IInv
<1>. QED
  BY <1>1, Invariance, PTL

\* What the host types reaches the program in order and each character once.
THEOREM InputStaysInOrder == Spec => []InputInOrder
<1>1. IInv => InputInOrder
  BY DEF IInv
<1>. QED
  BY <1>1, Invariance, PTL

\* The interrupts that the next step depends on are on.
THEOREM NoWakeUpLost == Spec => []InterruptsOn
<1>1. IInv => InterruptsOn
  BY DEF IInv
<1>. QED
  BY <1>1, Invariance, PTL
=============================================================================
