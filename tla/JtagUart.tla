------------------------------ MODULE JtagUart ------------------------------
(***************************************************************************)
(* The JTAG UART driver under the printf of the USB keyboard program       *)
(* (software/usb_kb_bsp/drivers, the interrupt driven version, no          *)
(* operating system): one thread that writes and reads, the interrupt      *)
(* routine that moves characters between two ring buffers and the device's *)
(* FIFOs, the timer routine that watches for a host, and the host.         *)
(*                                                                         *)
(* A step of the thread is one access to what the interrupt routine shares *)
(* with it; the routine may preempt the thread between any two and keeps   *)
(* the processor until it returns.  The device works on all the time.      *)
(***************************************************************************)
EXTENDS Integers, Sequences

CONSTANTS
    Out, In,    \* how many characters the program and the host send
    BufLen,     \* ALTERA_AVALON_JTAG_UART_BUF_LEN
    Fifo,       \* the depth of each of the device's FIFOs
    Threshold,  \* the write interrupt is raised with at most so many in it
    Longest,    \* the most characters in a call of write or read
    Timeout,    \* ALTERA_AVALON_JTAG_UART_DEFAULT_TIMEOUT, in seconds
    IntMax      \* INT_MAX

ASSUME TextAssumption    == Out \in Nat /\ In \in Nat
ASSUME BufLenAssumption  == BufLen \in Nat /\ BufLen >= 2
ASSUME FifoAssumption    == Fifo \in Nat \ {0} /\ Threshold \in 0..Fifo - 1
ASSUME LongestAssumption == Longest \in Nat \ {0}
ASSUME TimeoutAssumption ==
    Timeout \in Nat /\ IntMax \in Nat /\ 2 <= Timeout /\ Timeout < IntMax - 1

VARIABLES
    tx_in, tx_out, tx_buf, rx_in, rx_out, rx_buf,
    irq_enable,     \* the interrupts enabled, also in the control register
    host_inactive,  \* seconds without a host
    timeout,        \* IntMax: there is no timer
    pc, count, nonblock,
    moved,          \* the call has copied something: ptr # start
    seen,           \* the call's copy of tx_out or rx_in
    line,           \* the characters the read has copied and not yet freed
    isr, wi, space, avail,
    txf, rxf,       \* the FIFOs
    ac,             \* the host was active
    connected,
    wrote, typed,   \* history: how many the program, the host has sent
    heard, read     \* history: how many the host, the program has got

ring    == <<tx_in, tx_out, tx_buf, rx_in, rx_out, rx_buf>>
timer   == <<host_inactive, timeout>>
call    == <<pc, count, nonblock, moved, seen, line>>
handler == <<isr, wi, space, avail>>
device  == <<txf, rxf, ac, connected>>
history == <<wrote, typed, heard, read>>
vars    == <<ring, irq_enable, timer, call, handler, device, history>>

Chars == Nat   \* a character is its number in the text

Index == 0..BufLen - 1
WritePlaces == {"wlook", "wcopy", "wpublish", "wkick", "wwait"}
ReadPlaces  == {"rlook", "rcopy", "rfree", "rwait", "renable"}

TypeOK ==
    /\ tx_in \in Index /\ tx_out \in Index
    /\ rx_in \in Index /\ rx_out \in Index
    /\ tx_buf \in [Index -> Chars] /\ rx_buf \in [Index -> Chars]
    /\ irq_enable \subseteq {"RE", "WE"}
    /\ host_inactive \in 0..IntMax - 2 /\ timeout \in 2..IntMax
    /\ pc \in WritePlaces \cup ReadPlaces \cup {"idle", "close"}
    /\ count \in 0..Longest
    /\ nonblock \in BOOLEAN /\ moved \in BOOLEAN
    /\ seen \in Index
    /\ line \in Seq(Chars)
    /\ isr \in {"idle", "control", "rx", "rxOff", "tx"}
    /\ wi \in BOOLEAN /\ avail \in BOOLEAN
    /\ space \in 0..Fifo
    /\ txf \in Seq(Chars) /\ Len(txf) <= Fifo
    /\ rxf \in Seq(Chars) /\ Len(rxf) <= Fifo
    /\ ac \in BOOLEAN /\ connected \in BOOLEAN
    /\ wrote \in 0..Out /\ heard \in 0..Out
    /\ typed \in 0..In /\ read \in 0..In

\* Without a system clock the alarm cannot be started.
Init ==
    /\ tx_in = 0 /\ tx_out = 0 /\ rx_in = 0 /\ rx_out = 0
    /\ tx_buf = [i \in Index |-> 0] /\ rx_buf = tx_buf
    /\ irq_enable = {"RE"}
    /\ host_inactive = 0 /\ timeout \in {Timeout, IntMax}
    /\ pc = "idle" /\ count = 0 /\ nonblock = FALSE
    /\ moved = FALSE /\ seen = 0 /\ line = <<>>
    /\ isr = "idle" /\ wi = FALSE /\ space = 0 /\ avail = FALSE
    /\ txf = <<>> /\ rxf = <<>> /\ ac = FALSE /\ connected \in BOOLEAN
    /\ wrote = 0 /\ typed = 0 /\ heard = 0 /\ read = 0

Least(a, b) == IF a < b THEN a ELSE b
Plus(i, n) == (i + n) % BufLen

At(place)   == isr = "idle" /\ pc = place
Goto(place) == pc' = place

\* The call returns; its local variables are gone.
Return ==
    /\ Goto("idle")
    /\ count' = 0 /\ nonblock' = FALSE
    /\ moved' = FALSE /\ seen' = 0 /\ line' = <<>>

-----------------------------------------------------------------------------
(* altera_avalon_jtag_uart_write *)

Write ==
    /\ At("idle") /\ Goto("wlook")
    /\ count' \in 1..Longest /\ wrote + count' <= Out
    /\ nonblock' \in BOOLEAN
    /\ UNCHANGED <<ring, irq_enable, timer, handler, device, history>>
    /\ UNCHANGED <<moved, seen, line>>

\* Mutant: the last free place is used as well.
RoomToTheLast(in, out) ==
    IF in < out THEN out - in ELSE BufLen - in

\* The free places at tx_in that follow one another.  One place stays free.
Room(in, out) ==
    IF in < out THEN out - 1 - in
    ELSE IF out > 0 THEN BufLen - in ELSE BufLen - 1 - in

\* The interrupt routine may free more places after out is read.
WLook ==
    /\ At("wlook")
    /\ seen' = IF count > 0 THEN tx_out ELSE seen
    /\ Goto(IF count > 0 /\ Room(tx_in, tx_out) > 0 THEN "wcopy" ELSE "wkick")
    /\ UNCHANGED <<ring, irq_enable, timer, handler, device, history>>
    /\ UNCHANGED <<count, nonblock, moved, line>>

ToCopy == Least(Room(tx_in, seen), count)

WCopy ==
    /\ At("wcopy") /\ Goto("wpublish")
    /\ tx_buf' = [i \in Index |-> IF i \in tx_in..tx_in + ToCopy - 1
                                  THEN wrote + i - tx_in ELSE tx_buf[i]]
    /\ UNCHANGED <<tx_in, tx_out, rx_in, rx_out, rx_buf>>
    /\ UNCHANGED <<irq_enable, timer, handler, device, history>>
    /\ UNCHANGED <<count, nonblock, moved, seen, line>>

WPublish ==
    /\ At("wpublish") /\ Goto("wlook")
    /\ tx_in' = Plus(tx_in, ToCopy)
    /\ count' = count - ToCopy
    /\ seen' = 0
    /\ wrote' = wrote + ToCopy
    /\ UNCHANGED <<tx_out, tx_buf, rx_in, rx_out, rx_buf>>
    /\ UNCHANGED <<irq_enable, timer, handler, device, typed, heard, read>>
    /\ UNCHANGED <<nonblock, moved, line>>

\* Mutant: the interrupt is enabled only if the text did not fit.
WKickFull ==
    /\ At("wkick")
    /\ irq_enable' = IF count > 0 THEN irq_enable \cup {"WE"} ELSE irq_enable
    /\ IF count > 0 /\ ~nonblock
       THEN Goto("wwait") /\ UNCHANGED <<count, nonblock, moved, seen, line>>
       ELSE Return
    /\ UNCHANGED <<ring, timer, handler, device, history>>

\* Interrupts are disabled meanwhile.
WKick ==
    /\ At("wkick")
    /\ irq_enable' = irq_enable \cup {"WE"}
    /\ IF count > 0 /\ ~nonblock
       THEN Goto("wwait") /\ UNCHANGED <<count, nonblock, moved, seen, line>>
       ELSE Return
    /\ UNCHANGED <<ring, timer, handler, device, history>>

\* Mutant: the call waits for room without looking at the timer.
WWaitForRoom ==
    /\ At("wwait")
    /\ seen # tx_out
    /\ IF host_inactive > 0
       THEN Return
       ELSE /\ Goto("wlook") /\ seen' = 0
            /\ UNCHANGED <<count, nonblock, moved, line>>
    /\ UNCHANGED <<ring, irq_enable, timer, handler, device, history>>

\* One second without a host ends the call even if there is room now.
WWait ==
    /\ At("wwait")
    /\ seen # tx_out \/ host_inactive >= timeout
    /\ IF host_inactive > 0
       THEN Return
       ELSE /\ Goto("wlook") /\ seen' = 0
            /\ UNCHANGED <<count, nonblock, moved, line>>
    /\ UNCHANGED <<ring, irq_enable, timer, handler, device, history>>

-----------------------------------------------------------------------------
(* altera_avalon_jtag_uart_read *)

Read ==
    /\ At("idle") /\ Goto("rlook")
    /\ count' \in 1..Longest /\ nonblock' \in BOOLEAN
    /\ UNCHANGED <<ring, irq_enable, timer, handler, device, history>>
    /\ UNCHANGED <<moved, seen, line>>

\* Mutant: an empty ring is taken for a full one.
WaitingTurned(in, out) == IF in > out THEN in - out ELSE BufLen - out

\* The full places at rx_out that follow one another.
Waiting(in, out) == IF in >= out THEN in - out ELSE BufLen - out

RLook ==
    /\ At("rlook")
    /\ seen' = rx_in
    /\ Waiting(rx_in, rx_out) > 0 \/ moved \/ ~nonblock
    /\ Goto(IF Waiting(rx_in, rx_out) > 0 THEN "rcopy"
            ELSE IF moved THEN "renable" ELSE "rwait")
    /\ UNCHANGED <<count, nonblock, moved, line>>
    /\ UNCHANGED <<ring, irq_enable, timer, handler, device, history>>

\* Nothing there, and the call is not to wait.
RNothing ==
    /\ At("rlook") /\ ~moved /\ nonblock
    /\ Waiting(rx_in, rx_out) = 0
    /\ Return
    /\ UNCHANGED <<ring, irq_enable, timer, handler, device, history>>

ToFree == Least(Waiting(seen, rx_out), count)

RCopy ==
    /\ At("rcopy") /\ Goto("rfree")
    /\ line' = [i \in 1..ToFree |-> rx_buf[rx_out + i - 1]]
    /\ moved' = TRUE
    /\ UNCHANGED <<ring, irq_enable, timer, handler, device, history>>
    /\ UNCHANGED <<count, nonblock, seen>>

RFree ==
    /\ At("rfree")
    /\ rx_out' = Plus(rx_out, ToFree)
    /\ count' = count - ToFree
    /\ Goto(IF count' > 0 THEN "rlook" ELSE "renable")
    /\ line' = <<>> /\ seen' = 0
    /\ read' = read + ToFree
    /\ UNCHANGED <<tx_in, tx_out, tx_buf, rx_in, rx_buf>>
    /\ UNCHANGED <<irq_enable, timer, handler, device, wrote, typed, heard>>
    /\ UNCHANGED <<nonblock, moved>>

RWait ==
    /\ At("rwait")
    /\ seen # rx_in \/ host_inactive >= timeout
    /\ IF seen = rx_in
       THEN Return
       ELSE /\ Goto("rlook") /\ seen' = 0
            /\ UNCHANGED <<count, nonblock, moved, line>>
    /\ UNCHANGED <<ring, irq_enable, timer, handler, device, history>>

\* Mutant: receive interrupts stay off.
RLeave ==
    /\ At("renable")
    /\ Return
    /\ UNCHANGED <<ring, irq_enable, timer, handler, device, history>>

REnable ==
    /\ At("renable")
    /\ irq_enable' = irq_enable \cup {"RE"}
    /\ Return
    /\ UNCHANGED <<ring, timer, handler, device, history>>

-----------------------------------------------------------------------------
(* altera_avalon_jtag_uart_close *)

\* Close with the flag O_NONBLOCK returns at once.
Close ==
    /\ At("idle") /\ Goto("close")
    /\ UNCHANGED <<ring, irq_enable, timer, handler, device, history>>
    /\ UNCHANGED <<count, nonblock, moved, seen, line>>

CloseDrained ==
    /\ At("close")
    /\ tx_out = tx_in \/ host_inactive >= timeout
    /\ Goto("idle")
    /\ UNCHANGED <<ring, irq_enable, timer, handler, device, history>>
    /\ UNCHANGED <<count, nonblock, moved, seen, line>>

-----------------------------------------------------------------------------
(* The interrupt routine: it looks at the control register until no        *)
(* interrupt is pending.                                                   *)

ReadPending  == "RE" \in irq_enable /\ rxf # <<>>
WritePending == "WE" \in irq_enable /\ Len(txf) <= Threshold

Interrupt ==
    /\ isr = "idle" /\ (ReadPending \/ WritePending)
    /\ isr' = "control"
    /\ UNCHANGED <<ring, irq_enable, timer, call, device, history>>
    /\ UNCHANGED <<wi, space, avail>>

IsrControl ==
    /\ isr = "control"
    /\ isr' = IF ReadPending THEN "rx"
              ELSE IF WritePending THEN "tx" ELSE "idle"
    /\ avail' = ReadPending
    /\ wi' = WritePending
    /\ space' = IF WritePending THEN Fifo - Len(txf) ELSE 0
    /\ UNCHANGED <<ring, irq_enable, timer, call, device, history>>

Full == Plus(rx_in, 1) = rx_out

\* One character from the FIFO; RAVAIL says whether there are more.
IsrReceive ==
    /\ isr = "rx" /\ ~Full /\ rxf # <<>>
    /\ rx_buf' = [rx_buf EXCEPT ![rx_in] = Head(rxf)]
    /\ rx_in' = Plus(rx_in, 1)
    /\ rxf' = Tail(rxf)
    /\ avail' = (Tail(rxf) # <<>>)
    /\ UNCHANGED <<tx_in, tx_out, tx_buf, rx_out, history>>
    /\ UNCHANGED <<irq_enable, timer, call, isr, wi, space>>
    /\ UNCHANGED <<txf, ac, connected>>

IsrReceived ==
    /\ isr = "rx" /\ (Full \/ rxf = <<>>)
    /\ avail' = (Full /\ avail)
    /\ isr' = "rxOff"
    /\ UNCHANGED <<ring, irq_enable, timer, call, device, wi, space, history>>

\* Receive interrupts are off until the program has read.
IsrReceiveOff ==
    /\ isr = "rxOff"
    /\ irq_enable' = IF avail THEN irq_enable \ {"RE"} ELSE irq_enable
    /\ isr' = IF wi THEN "tx" ELSE "control"
    /\ avail' = FALSE
    /\ UNCHANGED <<ring, timer, call, device, wi, space, history>>

IsrSend ==
    /\ isr = "tx" /\ space > 0 /\ tx_out # tx_in
    /\ txf' = Append(txf, tx_buf[tx_out])
    /\ tx_out' = Plus(tx_out, 1)
    /\ space' = space - 1
    /\ UNCHANGED <<tx_in, tx_buf, rx_in, rx_out, rx_buf, history>>
    /\ UNCHANGED <<irq_enable, timer, call, isr, wi, avail>>
    /\ UNCHANGED <<rxf, ac, connected>>

\* Mutant: the interrupt is turned off although text is left.
IsrSentAll ==
    /\ isr = "tx" /\ (space = 0 \/ tx_out = tx_in)
    /\ irq_enable' = irq_enable \ {"WE"}
    /\ isr' = "control"
    /\ wi' = FALSE /\ space' = 0
    /\ UNCHANGED <<ring, timer, call, device, avail, history>>

IsrSent ==
    /\ isr = "tx" /\ (space = 0 \/ tx_out = tx_in)
    /\ irq_enable' = IF space > 0 THEN irq_enable \ {"WE"} ELSE irq_enable
    /\ isr' = "control"
    /\ wi' = FALSE /\ space' = 0
    /\ UNCHANGED <<ring, timer, call, device, avail, history>>

\* altera_avalon_jtag_uart_timeout, once a second.
Tick ==
    /\ timeout # IntMax /\ isr = "idle"
    /\ ac' = FALSE
    /\ host_inactive' = IF ac THEN 0 ELSE Least(host_inactive + 1, IntMax - 2)
    /\ UNCHANGED <<ring, irq_enable, timeout, call, handler, history>>
    /\ UNCHANGED <<txf, rxf, connected>>

-----------------------------------------------------------------------------
(* The host. *)

HostUnchanged ==
    UNCHANGED <<ring, irq_enable, timer, call, handler, connected>>

HostReads ==
    /\ connected /\ txf # <<>>
    /\ txf' = Tail(txf) /\ ac' = TRUE
    /\ heard' = heard + 1
    /\ HostUnchanged /\ UNCHANGED <<rxf, wrote, typed, read>>

HostTypes ==
    /\ connected /\ Len(rxf) < Fifo /\ typed < In
    /\ rxf' = Append(rxf, typed) /\ ac' = TRUE
    /\ typed' = typed + 1
    /\ HostUnchanged /\ UNCHANGED <<txf, wrote, heard, read>>

HostLooks ==
    /\ connected /\ ac' = TRUE
    /\ HostUnchanged /\ UNCHANGED <<txf, rxf, history>>

HostComesOrGoes ==
    /\ connected' = ~connected
    /\ UNCHANGED <<ring, irq_enable, timer, call, handler, history>>
    /\ UNCHANGED <<txf, rxf, ac>>

-----------------------------------------------------------------------------
Calls == Write \/ Read \/ Close

Thread ==
    \/ WLook \/ WCopy \/ WPublish \/ WKick \/ WWait
    \/ RLook \/ RNothing \/ RCopy \/ RFree \/ RWait \/ REnable
    \/ CloseDrained

Isr ==
    \/ Interrupt \/ IsrControl \/ IsrReceive \/ IsrReceived \/ IsrReceiveOff
    \/ IsrSend \/ IsrSent

Host == HostReads \/ HostTypes \/ HostLooks \/ HostComesOrGoes

Next == Calls \/ Thread \/ Isr \/ Tick \/ Host

\* The processor runs, takes its interrupts, and the host takes what comes
\* as long as it is connected.
Spec ==
    /\ Init /\ [][Next]_vars
    /\ WF_vars(Thread) /\ WF_vars(Isr) /\ WF_vars(Tick) /\ WF_vars(HostReads)

-----------------------------------------------------------------------------
\* How many places are in use, and how far a place is from the first.
Used(in, out)  == IF in >= out THEN in - out ELSE in + BufLen - out
Offset(i, out) == IF i >= out THEN i - out ELSE i + BufLen - out

\* What the program writes is in the ring and the FIFO, each character once
\* and in order, and the host gets the next one, although the thread and the
\* interrupt routine move the two ends without a lock (write.c 103-127,
\* init.c 174-184).
TextInOrder ==
    /\ wrote = heard + Len(txf) + Used(tx_in, tx_out)
    /\ \A i \in 1..Len(txf) : txf[i] = heard + i - 1
    /\ \A i \in Index : Offset(i, tx_out) < Used(tx_in, tx_out)
          => tx_buf[i] = heard + Len(txf) + Offset(i, tx_out)

\* The same for what the host types; what a read has copied is what comes
\* next, whatever has arrived meanwhile (read.c 120-142, init.c 132-154).
InputInOrder ==
    /\ typed = read + Used(rx_in, rx_out) + Len(rxf)
    /\ \A i \in 1..Len(rxf) : rxf[i] = read + Used(rx_in, rx_out) + i - 1
    /\ \A i \in Index : Offset(i, rx_out) < Used(rx_in, rx_out)
          => rx_buf[i] = read + Offset(i, rx_out)
    /\ pc = "rfree" => \A i \in 1..ToFree : line[i] = read + i - 1

\* The transmitter's interrupt is on as long as there is text, but for a
\* thread that is about to enable it: no text is forgotten in the ring
\* (write.c 136-139, init.c 186-190).
TransmitterOn ==
    tx_in # tx_out => "WE" \in irq_enable \/ pc \in WritePlaces \ {"wwait"}

\* Receive interrupts are off only while the ring is full or a read is about
\* to enable them again (init.c 156-162, read.c 188-195).
ReceiverOn ==
    "RE" \notin irq_enable
        => Full \/ (moved /\ pc \in {"rlook", "rcopy", "rfree", "renable"})

\* No wake-up is lost, in either direction, and every variable keeps its type.
InterruptsOn == TypeOK /\ TransmitterOn /\ ReceiverOn

\* A write ends, when a host takes the text or when there is a timer and no
\* host.  Without a timer, as in this system, it waits for a host for ever.
WriteEnds ==
    /\ pc \in WritePlaces ~> pc = "idle" \/ ~connected
    /\ pc \in WritePlaces /\ timeout # IntMax ~> pc = "idle" \/ connected

\* What has been written is heard as long as the host is there.
TextArrives == wrote # heard ~> wrote = heard \/ ~connected
=============================================================================
