------------------------------ MODULE HostChip ------------------------------
(***************************************************************************)
(* The EZ-OTG host chip (CY7C67200) and the keyboard at its port, as far   *)
(* as the program in software/usb_kb meets them.  Both are outside src/:   *)
(* this module says how the program may find them.                         *)
(*                                                                         *)
(* The chip's firmware is one thread.  It executes the descriptor list it  *)
(* is pointed to, one descriptor (Fetch, then Complete) at a time, leaves  *)
(* the result in the descriptor's retry word, and posts a message when a   *)
(* list has ended.  The program may write the memory and the pointer at    *)
(* any time in between.                                                    *)
(***************************************************************************)
EXTENDS TransferLists, FiniteSets

CONSTANTS
    Keys,        \* the key codes of the keyboard's keys
    Faults,      \* which mishaps may happen, see AllFaults
    MaxMishaps   \* how many of them at most, each kind once

\* "noise": a transaction fails on the line; "late": the chip has not ended
\* a list of the enumeration 10 ms after the program sent it again, the bus
\* reset being over; "plug": the keyboard is removed during the enumeration,
\* or put back before the program has seen that it is gone; "merge": a
\* message arrives before the last one is read; "nak": the firmware refuses a
\* command; "bit": a bit of HPI_STATUS other than the two flags below is set
\* while the program waits for the first answer; "stray": the firmware says
\* that a list is done which had no active descriptor.
AllFaults == {"noise", "late", "plug", "merge", "nak", "stray", "bit"}

ASSUME KeysAssumption   == Keys \subseteq 1..255
ASSUME FaultsAssumption == Faults \subseteq AllFaults /\ MaxMishaps \in Nat

VARIABLES
    mem,       \* the words at Addresses
    ptr,       \* HUSB_SIE1_pCurrentTDPtr, 0 when there is nothing to run
    run,       \* the descriptor in execution, or NoRun
    msg,       \* the SIE1 message register
    msgFlag,   \* HPI_STATUS_SIE1msg_FLAG
    mail,      \* what a read of HPI_MAILBOX gives
    mailFlag,  \* HPI_STATUS_Mailbox_Out_FLAG
    command,   \* the command of COMM_EXEC_INT that is not yet executed
    device,    \* the keyboard's USB state, "none" when there is no keyboard
    request,   \* the request of the keyboard's last setup stage
    report,    \* the key code of the report that waits in the keyboard
    delivered, \* history: the last report stored since the last bus reset
    mishaps    \* history: the mishaps so far

chipVars == <<mem, ptr, run, msg, msgFlag, mail, mailFlag, command>>
busVars  == <<device, request, report, delivered>>

\* A step that is a mishap of this kind if bad holds, within the bound.
Mishap(kind, bad) ==
    /\ bad => /\ kind \in Faults \ mishaps
              /\ Cardinality(mishaps) < MaxMishaps
    /\ mishaps' = IF bad THEN mishaps \cup {kind} ELSE mishaps

NoRun    == [at |-> 0, td |-> <<>>, request |-> 0]
NoReport == -1
Reports  == Keys \cup {0}

\* A word of the chip.
Word == {n \in Nat : n <= 65535}

ChipTypeOK ==
    /\ DOMAIN mem = Addresses
    /\ \A a \in Addresses : mem[a] \in Word
    /\ ptr \in Addresses \cup {0}
    /\ run.at \in Addresses \cup {0}
    /\ msg \in {"none", "done", "plug", "mixed"}
    /\ mail \in {"ack", "other"}
    /\ command \in {"none", "init", "reset"}
    /\ device \in {"none", "powered", "default", "addressed", "configured"}
    /\ report \in Reports \cup {NoReport}
    /\ delivered \in Reports \cup {NoReport}
    /\ msgFlag \in BOOLEAN /\ mailFlag \in BOOLEAN
    /\ mishaps \subseteq Faults

ChipInit ==
    /\ mem = [a \in Addresses |-> 0]
    /\ ptr = 0
    /\ run = NoRun
    /\ msg = "none" /\ msgFlag = FALSE
    /\ mail = "other" /\ mailFlag = FALSE
    /\ command = "none"
    /\ device \in {"none", "powered"}
    /\ request = 0
    /\ report = NoReport
    /\ delivered = NoReport
    /\ mishaps = {}

\* A message to the host.  The message register holds one; a second one
\* replaces it or, the messages being bits, joins it.
Merges(m) == msg \notin {"none", m}
Post(m) ==
    /\ msg' \in IF Merges(m) THEN {m, "mixed"} ELSE {m}
    /\ msgFlag' = TRUE

Silent == UNCHANGED <<msg, msgFlag>>

-----------------------------------------------------------------------------
\* A command posted with COMM_EXEC_INT.  The firmware executes it before it
\* goes on with the list.
ExecInit ==
    /\ command = "init"
    /\ command' = "none"
    /\ mailFlag' = TRUE
    /\ \/ mail' = "ack" /\ UNCHANGED mishaps
       \/ mail' = "other" /\ Mishap("nak", TRUE)
    /\ UNCHANGED <<mem, ptr, run, msg, msgFlag, busVars>>

\* HUSB_RESET_INT resets the bus: the keyboard forgets its address.
ExecReset ==
    /\ command = "reset"
    /\ command' = "none"
    /\ mail' = "ack" /\ mailFlag' = TRUE
    /\ device' = IF device = "none" THEN "none" ELSE "default"
    /\ request' = 0
    /\ report' = NoReport
    /\ delivered' = NoReport
    /\ UNCHANGED <<mem, ptr, run, msg, msgFlag, mishaps>>

\* The firmware loads the descriptor it is pointed to.
Fetch ==
    /\ command = "none" /\ run = NoRun /\ ptr # 0
    /\ LET td == [i \in 1..6 |-> mem[ptr + 2 * (i - 1)]]
       IN run' = [at |-> ptr, td |-> td,
                  request |-> IF td[3] % 256 = \hD0 THEN mem[td[1]] ELSE 0]
    /\ ptr' = 0
    /\ UNCHANGED <<mem, msg, msgFlag, mail, mailFlag, command, busVars, mishaps>>

Length(td)   == td[2]
Active(td)   == (td[5] \div 16) % 2 = 1
Reaches(td)  ==
    /\ device \in {"default", "addressed", "configured"}
    /\ td[3] \div 256 = IF device = "default" THEN 0 ELSE 2
IsSetup(td)  == td[3] % 256 = \hD0
IsStatus(td) == td[3] % 256 \in {\h90, \h10} /\ Length(td) = 0
IsData(td)   == td[3] % 256 = \h90 /\ Length(td) > 0
IsPoll(td)   == td[3] % 256 = \h91

\* Requests with a data stage to the host are finished by an OUT.
Reading == request \in {\h680, \h681}

\* The keyboard answers; otherwise it stalls.
Accepts(td) ==
    \/ IsSetup(td)
    \/ IsData(td) /\ Reading
    \/ IsStatus(td) /\ request # 0 /\ (Reading <=> td[3] % 256 = \h10)
    \/ IsPoll(td) /\ device = "configured"

\* A word of the keyboard's descriptors.  Only the interface's protocol
\* (1: keyboard) and the end of the endpoint descriptor are looked at.
DescriptorWord(td, a) ==
    IF a = ProtocolWord THEN 1 ELSE IF a = SizeWord THEN \hA00 ELSE 0

Stored(td, word(_)) ==
    [a \in Addresses |->
        IF a >= td[1] /\ a < td[1] + Length(td) THEN word(a) ELSE mem[a]]

\* The result in the descriptor: the active bit is cleared, and the low two
\* bits are the retries left.
Result(memory, value) == [memory EXCEPT ![run.at + 8] = value]

\* The list goes on at the link unless the program has pointed the chip
\* elsewhere meanwhile; when it ends the chip says so.
GoesOn(td) ==
    /\ td[6] # 0
    /\ ptr' = IF ptr = 0 THEN td[6] ELSE ptr
    /\ Silent
    /\ UNCHANGED mishaps
ListEnds ==
    /\ Post("done")
    /\ Mishap("merge", Merges("done"))
    /\ UNCHANGED ptr

NextDescriptor(td) == GoesOn(td) \/ (td[6] = 0 /\ ListEnds)

\* What a successful transaction does to the keyboard.
DeviceAfter(td) ==
    CASE IsStatus(td) /\ request = \h500 -> "addressed"
      [] IsStatus(td) /\ request = \h900 -> "configured"
      [] OTHER -> device

\* A descriptor that is not active ends its list, with or without a message.
CompleteInactive ==
    /\ run # NoRun /\ ~Active(run.td)
    /\ \/ Silent /\ UNCHANGED mishaps
       \/ Post("done") /\ Mishap("stray", TRUE)
    /\ UNCHANGED <<mem, ptr, busVars>>

\* A transaction of the enumeration succeeds.
Received(td) ==
    IF IsData(td) THEN Stored(td, LAMBDA a : DescriptorWord(td, a)) ELSE mem

CompleteControl ==
    /\ run # NoRun /\ Active(run.td) /\ ~IsPoll(run.td)
    /\ Reaches(run.td) /\ Accepts(run.td)
    /\ mem' = Result(Received(run.td), 3)
    /\ NextDescriptor(run.td)
    /\ request' = IF IsSetup(run.td) THEN run.request ELSE request
    /\ device' = DeviceAfter(run.td)
    /\ UNCHANGED <<report, delivered>>

\* A setup stage succeeds after a retry.  The retries of the other
\* descriptors are looked at by nobody.
CompleteRetried ==
    /\ run # NoRun /\ Active(run.td) /\ IsSetup(run.td) /\ Reaches(run.td)
    /\ mem' = Result(mem, 2)
    /\ ptr' = IF ptr = 0 THEN run.td[6] ELSE ptr
    /\ request' = run.request
    /\ Mishap("noise", TRUE)
    /\ UNCHANGED <<device, report, delivered, msg, msgFlag>>

\* A report arrives in the buffer: its third byte is the key code.  With a
\* length of 0 the chip has no room for it.
CompleteReport ==
    /\ run # NoRun /\ Active(run.td) /\ IsPoll(run.td)
    /\ Reaches(run.td) /\ Accepts(run.td) /\ report # NoReport
    /\ mem' = Result(Stored(run.td, LAMBDA a : IF a = run.td[1] + 2
                                          THEN report ELSE 0), 3)
    /\ delivered' = IF Length(run.td) > 2 THEN report ELSE delivered
    /\ report' = NoReport
    /\ ListEnds
    /\ UNCHANGED <<device, request>>

\* The keyboard has nothing to report.  The chip ends the list without
\* data, or asks again until there is a report: then nothing happens here.
CompleteNak ==
    /\ run # NoRun /\ Active(run.td) /\ IsPoll(run.td)
    /\ Reaches(run.td) /\ Accepts(run.td) /\ report = NoReport
    /\ mem' = Result(mem, 3)
    /\ ListEnds
    /\ UNCHANGED busVars

\* Nobody answers (no keyboard, another address, or noise) and the retries
\* are used up, or the keyboard stalls.  The list ends.
CompleteFailed ==
    /\ run # NoRun /\ Active(run.td)
    /\ \/ /\ ~Reaches(run.td)
          /\ mem' = Result(mem, 0)
          /\ ListEnds
       \/ /\ Reaches(run.td) /\ ~Accepts(run.td)
          /\ mem' = Result(mem, 3)
          /\ ListEnds
       \/ /\ Reaches(run.td)
          /\ mem' = Result(mem, 0)
          /\ Post("done") /\ Mishap("noise", TRUE)
          /\ UNCHANGED ptr
    /\ UNCHANGED busVars

\* The firmware's steps that it takes without waiting for the keyboard.
Complete ==
    /\ CompleteInactive \/ CompleteControl \/ CompleteRetried
       \/ CompleteReport \/ CompleteFailed
    /\ run' = NoRun
    /\ UNCHANGED <<mail, mailFlag, command>>

Nak == CompleteNak /\ run' = NoRun /\ UNCHANGED <<mail, mailFlag, command>>

Firmware == ExecInit \/ ExecReset \/ Fetch \/ Complete

-----------------------------------------------------------------------------
\* The player presses a key or lets go; the keyboard reports its new state.
TypeKey ==
    /\ device = "configured"
    /\ \E k \in Reports : report' = k
    /\ UNCHANGED <<chipVars, device, request, delivered, mishaps>>

\* The keyboard is removed or put into the port.
PortChanges(to, bad) ==
    /\ device' = to
    /\ request' = 0 /\ report' = NoReport
    /\ Post("plug")
    /\ IF bad THEN Mishap("plug", TRUE) ELSE Mishap("merge", Merges("plug"))
    /\ UNCHANGED <<mem, ptr, run, mail, mailFlag, command, delivered>>
=============================================================================
