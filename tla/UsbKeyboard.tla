---------------------------- MODULE UsbKeyboard ----------------------------
(***************************************************************************)
(* The program on the Nios II that takes a USB keyboard through its        *)
(* enumeration and then polls it for key codes (software/usb_kb/main.c,    *)
(* usb.c), with the host chip and the keyboard of HostChip.                *)
(*                                                                         *)
(* pc is the place in main between two accesses to the chip, stage the     *)
(* list that main is at: 1 to 9 in Lists, 10 for the polls.  A list is     *)
(* written in one step.  Sleeps and printing take time and nothing else.   *)
(***************************************************************************)
EXTENDS HostChip

CONSTANTS
    InsertTries,   \* further looks for a keyboard after the bus reset (5)
    RemoveTries    \* further looks before a keyboard counts as removed (7)

ASSUME TriesAssumption == InsertTries \in Nat /\ RemoveTries \in Nat

VARIABLES
    pc,
    stage,
    got,       \* the message that UsbWaitTDListDone has read
    toggle,    \* the parity of toggle, which counts the polls
    tries,     \* hot_plug_count
    dataSize,  \* data_size
    keycode    \* the register at KEYCODE_BASE

mainVars == <<pc, stage, got, toggle, tries, dataSize, keycode>>
vars == <<chipVars, busVars, mishaps, mainVars>>

Last == 9
Poll == 10

Places == {"softReset", "init", "initWait", "initAck", "bus", "busAck",
           "present", "insert", "send", "flag", "again", "sleep", "resetSleep",
           "read", "clear", "check", "retry", "retryClear", "retryFlag",
           "recheck", "info", "size", "show", "line", "removed"}

TypeOK ==
    /\ ChipTypeOK
    /\ pc \in Places
    /\ stage \in 1..Poll
    /\ got \in {"none", "done", "plug", "mixed"}
    /\ toggle \in 0..1
    /\ tries \in 0..(InsertTries + RemoveTries)
    /\ dataSize \in 0..255
    /\ keycode \in 0..255

Init ==
    /\ ChipInit
    /\ pc = "softReset" /\ stage = 1
    /\ got = "none" /\ toggle = 0 /\ tries = 0 /\ dataSize = 0 /\ keycode = 0

Goto(place) == pc' = place
At(place) == pc = place

-----------------------------------------------------------------------------
(* Accesses to the chip. *)

\* Writing the words of a list and pointing the chip to it.
Submit(at, words) ==
    /\ mem' = Written(mem, at, words)
    /\ ptr' = at
    /\ UNCHANGED <<run, msg, msgFlag, mail, mailFlag, command, busVars>>

\* Reading the message register lowers its flag.
ReadMessage ==
    /\ msgFlag' = FALSE
    /\ UNCHANGED <<mem, ptr, run, msg, mail, mailFlag, command, busVars>>

ClearMessage ==
    /\ msg' = "none"
    /\ UNCHANGED <<mem, ptr, run, msgFlag, mail, mailFlag, command, busVars>>

ReadMailbox ==
    /\ mailFlag' = FALSE
    /\ UNCHANGED <<mem, ptr, run, msg, msgFlag, mail, command, busVars>>

Exec(number) ==
    /\ command' = number
    /\ UNCHANGED <<mem, ptr, run, msg, msgFlag, mail, mailFlag, busVars>>

ChipUnchanged == UNCHANGED <<chipVars, busVars, mishaps>>

-----------------------------------------------------------------------------
(* From USB_HOT_PLUG to a keyboard at the port. *)

UsbSoftReset ==
    /\ At("softReset") /\ Goto("init")
    /\ ptr' = 0 /\ run' = NoRun /\ command' = "none"
    /\ msg' = "none" /\ msgFlag' = FALSE
    /\ mail' = "other" /\ mailFlag' = FALSE
    /\ stage' = 1 /\ tries' = 0
    /\ UNCHANGED <<mem, busVars, mishaps, got, toggle, dataSize, keycode>>

\* Mutant: main reads a mailbox without an acknowledge for ever.
Step1NoRestart ==
    \/ /\ At("init") /\ Goto("initWait")
       /\ Exec("init")
       /\ UNCHANGED <<mishaps, stage, got, toggle, tries, dataSize, keycode>>
    \/ /\ At("initWait") /\ Goto("initAck")
       /\ Mishap("bit", ~mailFlag /\ ~msgFlag)
       /\ UNCHANGED <<chipVars, busVars, stage, got, toggle, tries, dataSize, keycode>>
    \/ /\ At("initAck")
       /\ Goto(IF mail = "ack" THEN "bus" ELSE "initAck")
       /\ ReadMailbox
       /\ UNCHANGED <<mishaps, stage, got, toggle, tries, dataSize, keycode>>

Step1 ==
    \/ /\ At("init") /\ Goto("initWait")
       /\ Exec("init")
       /\ UNCHANGED <<mishaps, stage, got, toggle, tries, dataSize, keycode>>
    \/ /\ At("initWait") /\ Goto("initAck")
       /\ Mishap("bit", ~mailFlag /\ ~msgFlag)
       /\ UNCHANGED <<chipVars, busVars, stage, got, toggle, tries, dataSize, keycode>>
    \/ /\ At("initAck")
       /\ Goto(IF mail = "ack" THEN "bus" ELSE "softReset")
       /\ ReadMailbox
       /\ UNCHANGED <<mishaps, stage, got, toggle, tries, dataSize, keycode>>

\* The answer to the second command is read without waiting for it.
Step2 ==
    \/ /\ At("bus") /\ Goto("busAck")
       /\ Exec("reset")
       /\ UNCHANGED <<mishaps, stage, got, toggle, tries, dataSize, keycode>>
    \/ /\ At("busAck")
       /\ Goto(IF mail = "ack" THEN "present" ELSE "softReset")
       /\ ReadMailbox
       /\ UNCHANGED <<mishaps, stage, got, toggle, tries, dataSize, keycode>>

Present == device # "none"

\* A keyboard that shows up while main looks for it goes on without a new
\* bus reset; one that comes later starts over.
LookForKeyboard ==
    \/ /\ At("present")
       /\ \/ Present /\ Goto("send") /\ tries' = 0
          \/ ~Present /\ tries < InsertTries /\ Goto("present") /\ tries' = tries + 1
          \/ ~Present /\ tries = InsertTries /\ Goto("insert") /\ tries' = 0
       /\ ChipUnchanged
       /\ UNCHANGED <<stage, got, toggle, dataSize, keycode>>
    \/ /\ At("insert") /\ Present /\ Goto("softReset")
       /\ ChipUnchanged
       /\ UNCHANGED <<stage, got, toggle, tries, dataSize, keycode>>

-----------------------------------------------------------------------------
(* A stage: send the list, send it again at once and then every 10 ms      *)
(* until there is a message, wait for the list's end, and look at the      *)
(* first descriptor.                                                       *)

List == IF stage = Poll THEN PollList(toggle, dataSize) ELSE Lists[stage]

\* The configuration descriptor has 100 ms before the first look, the others
\* have no time at all.
Send ==
    /\ At("send") /\ Goto(IF stage = 5 THEN "sleep" ELSE "flag")
    /\ Submit(ListBase, List)
    /\ UNCHANGED <<mishaps, stage, got, toggle, tries, dataSize, keycode>>

\* Mutant: main does not sleep after it has sent a list again.
AwaitFlagSleepless ==
    /\ UNCHANGED <<mishaps, stage, got, toggle, tries, dataSize, keycode>>
    /\ \/ /\ At("flag")
          /\ Goto(IF msgFlag THEN "read" ELSE "again")
          /\ UNCHANGED <<chipVars, busVars>>
       \/ /\ At("again")
          /\ Goto("flag")
          /\ Submit(ListBase, List)

\* Without a message main sends the list again.  The first look follows the
\* first list at once, so the chip may be anywhere in it, and may end it
\* between the look and the list.
AwaitFlag ==
    /\ UNCHANGED <<mishaps, stage, got, toggle, tries, dataSize, keycode>>
    /\ \/ /\ At("flag")
          /\ Goto(IF msgFlag THEN "read" ELSE "again")
          /\ UNCHANGED <<chipVars, busVars>>
       \/ /\ At("again")
          /\ Goto(IF stage = Poll THEN "flag"
                  ELSE IF command = "none" THEN "sleep" ELSE "resetSleep")
          /\ Submit(ListBase, List)

\* The time after that.  It is enough for the chip to end with a list of the
\* enumeration, unless it had the bus to reset first.  A poll's list may take
\* any time, so its 10 ms say nothing.
Busy == run # NoRun \/ ptr # 0

Sleep ==
    /\ \/ At("sleep") /\ Mishap("late", Busy)
       \/ At("resetSleep") /\ UNCHANGED mishaps
    /\ Goto("flag")
    /\ UNCHANGED <<chipVars, busVars, stage, got, toggle, tries, dataSize, keycode>>

\* A message that arrives between the read and the write is wiped out,
\* unless the chip was a little later and it stays.
UsbWaitTDListDone ==
    /\ UNCHANGED <<stage, toggle, tries, dataSize, keycode>>
    /\ \/ /\ At("read") /\ Goto("clear")
          /\ got' = msg
          /\ ReadMessage
          /\ UNCHANGED mishaps
       \/ /\ At("clear")
          /\ Goto(IF got # "done" THEN "read"
                  ELSE IF stage = Poll THEN "show" ELSE "check")
          /\ \/ ClearMessage /\ Mishap("merge", msgFlag /\ got # "done")
             \/ msgFlag /\ got # "done" /\ ChipUnchanged
          /\ UNCHANGED got

NextStage ==
    /\ Goto(CASE stage = 5 -> "info" [] OTHER -> "send")
    /\ stage' = IF stage = 5 THEN 5 ELSE stage + 1
    /\ toggle' = IF stage = Last THEN 1 - toggle ELSE toggle

\* The active bit is gone and all retries are left.
Check ==
    /\ At("check")
    /\ IF mem[RetryWord] = 3 THEN NextStage
       ELSE Goto("retry") /\ UNCHANGED <<stage, toggle>>
    /\ ChipUnchanged
    /\ UNCHANGED <<got, tries, dataSize, keycode>>

\* A transfer that needed retries: main waits for three retries left to
\* come back, and in the first stage starts over.
UsbGetRetryCnt ==
    /\ UNCHANGED <<got, tries, dataSize, keycode>>
    /\ \/ /\ At("retry")
          /\ Goto(IF msg = "done" THEN "retryClear" ELSE "recheck")
          /\ ReadMessage
          /\ UNCHANGED <<stage, toggle, mishaps>>
       \/ /\ At("retryClear") /\ Goto("retryFlag")
          /\ ClearMessage
          /\ UNCHANGED <<stage, toggle, mishaps>>
       \/ /\ At("retryFlag") /\ msgFlag /\ Goto("recheck")
          /\ ChipUnchanged
          /\ UNCHANGED <<stage, toggle>>
       \/ /\ At("recheck")
          /\ IF stage = 1
             THEN Goto("softReset") /\ UNCHANGED <<stage, toggle>>
             ELSE IF mem[RetryWord] = 3 THEN NextStage
             ELSE Goto("retry") /\ UNCHANGED <<stage, toggle>>
          /\ ChipUnchanged

\* Mutant: the endpoint descriptor is not written.
DeviceInfoUnwritten ==
    /\ At("info") /\ Goto("size")
    /\ Submit(EndpointAt, <<>>)
    /\ UNCHANGED <<mishaps, stage, got, toggle, tries, dataSize, keycode>>

\* After the configuration descriptor main writes the endpoint descriptor
\* over its buffer, has the chip run it, and reads the report length back.
DeviceInfo ==
    /\ At("info") /\ Goto("size")
    /\ Submit(EndpointAt, EndpointWords)
    /\ UNCHANGED <<mishaps, stage, got, toggle, tries, dataSize, keycode>>

\* Mutant: the set configuration request is left out.
DataSizeSkips ==
    /\ At("size") /\ Goto("send")
    /\ dataSize' = mem[SizeWord] % 256
    /\ stage' = 7
    /\ ChipUnchanged
    /\ UNCHANGED <<got, toggle, tries, keycode>>

DataSize ==
    /\ At("size") /\ Goto("send")
    /\ dataSize' = mem[SizeWord] % 256
    /\ stage' = 6
    /\ ChipUnchanged
    /\ UNCHANGED <<got, toggle, tries, keycode>>

-----------------------------------------------------------------------------
(* The polls. *)

\* Mutant: a release is not shown.
ShowPresses ==
    /\ At("show") /\ Goto("line")
    /\ keycode' = IF mem[KeyWord] % 256 = 0 THEN keycode ELSE mem[KeyWord] % 256
    /\ tries' = 0
    /\ ChipUnchanged
    /\ UNCHANGED <<stage, got, toggle, dataSize>>

\* Whatever the buffer holds is the key code.
ShowKey ==
    /\ At("show") /\ Goto("line")
    /\ keycode' = mem[KeyWord] % 256
    /\ tries' = 0
    /\ ChipUnchanged
    /\ UNCHANGED <<stage, got, toggle, dataSize>>

\* Mutant: the looks at the empty port are not counted.
LookForEver ==
    \/ /\ At("line")
       /\ Goto(IF Present THEN "send" ELSE "line")
       /\ toggle' = IF Present THEN 1 - toggle ELSE toggle
       /\ tries' = 0
       /\ ChipUnchanged
       /\ UNCHANGED <<stage, got, dataSize, keycode>>
    \/ /\ At("removed") /\ Present /\ Goto("softReset")
       /\ ChipUnchanged
       /\ UNCHANGED <<stage, got, toggle, tries, dataSize, keycode>>

LookAtLine ==
    \/ /\ At("line")
       /\ \/ Present /\ Goto("send") /\ tries' = 0 /\ toggle' = 1 - toggle
          \/ ~Present /\ tries < RemoveTries /\ Goto("line")
                /\ tries' = tries + 1 /\ UNCHANGED toggle
          \/ ~Present /\ tries = RemoveTries /\ Goto("removed")
                /\ tries' = 0 /\ UNCHANGED toggle
       /\ ChipUnchanged
       /\ UNCHANGED <<stage, got, dataSize, keycode>>
    \/ /\ At("removed") /\ Present /\ Goto("softReset")
       /\ ChipUnchanged
       /\ UNCHANGED <<stage, got, toggle, tries, dataSize, keycode>>

-----------------------------------------------------------------------------
\* Places at which main looks at the line and a removal or an insertion is
\* what it waits for.
Polling == stage = Poll /\ pc \notin {"removed", "softReset"}
Looking == pc \in {"softReset", "init", "initWait", "initAck", "bus",
                   "busAck", "present", "insert", "removed"}

PlugIn ==
    /\ device = "none"
    /\ PortChanges("powered", ~Looking)
    /\ UNCHANGED mainVars

Unplug ==
    /\ device # "none"
    /\ PortChanges("none", ~Looking /\ ~Polling)
    /\ UNCHANGED mainVars

Main == \/ UsbSoftReset \/ Step1 \/ Step2 \/ LookForKeyboard \/ Send
        \/ AwaitFlag \/ Sleep \/ UsbWaitTDListDone \/ Check \/ UsbGetRetryCnt
        \/ DeviceInfo \/ DataSize \/ ShowKey \/ LookAtLine

Chip == Firmware /\ UNCHANGED mainVars

Next == \/ Main
        \/ Chip
        \/ Nak /\ UNCHANGED mainVars
        \/ TypeKey /\ UNCHANGED mainVars
        \/ PlugIn
        \/ Unplug

\* The processor and the firmware run; keyboard and player owe nothing.
Spec == Init /\ [][Next]_vars /\ WF_vars(Main) /\ WF_vars(Chip)

-----------------------------------------------------------------------------
\* The low byte of the link \h520, which the list of the report descriptor
\* leaves at KeyWord.
Residue == \h20

\* The register shows the key of the last report, however messages, retries,
\* removals and resets mix: a poll that brought nothing shows the key of the
\* poll before.  Until the first report after a bus reset it shows what the
\* enumeration left in the buffer (main.c 520-523).
ShowsLastReport ==
    [][At("show") /\ Goto("line")
       => keycode' = IF delivered = NoReport THEN Residue ELSE delivered]_vars

\* The polls ask for the 8 bytes of the endpoint descriptor, although its
\* buffer lies in the area that every list of the enumeration overwrites and
\* the chip writes at the same time (main.c 343-355).  A list that the chip
\* is late with may overwrite the length.  Every variable keeps its type.
AsksForEightBytes ==
    TypeOK /\ (stage > 5 /\ "late" \notin mishaps => dataSize = 8)

\* What the chip runs is a descriptor of the list that main has sent, and its
\* data goes behind that list: although each list is written over the last one,
\* which the chip may have left in the middle, and over itself while the chip
\* is in it (main.c 205-213, 491-512), no word of an older list or of the
\* keyboard's data is taken for a descriptor.  The polls' lists differ in the
\* data toggle only, which is not compared.
Place(i) == (run.at - ListBase) \div 2 + i
ListsKeptWhole ==
    /\ mishaps \cap {"late", "stray"} = {}
    /\ run # NoRun /\ Active(run.td)
    => /\ Place(6) \in DOMAIN List
       /\ \A i \in {1, 2, 3, 6} : run.td[i] = List[Place(i)]
       /\ IsSetup(run.td) => run.request = List[7]
       /\ IsData(run.td) \/ IsPoll(run.td) => run.td[1] >= ListBase + 2 * Len(List)

\* Only a configured keyboard is polled, wherever a list that is sent again
\* meets the chip.  Of each transfer main looks at the first descriptor only
\* (main.c 190-193), so noise may break this, and so may a keyboard that is put
\* back before main looks at the line, a late chip or a message without a
\* transfer.
PolledIsConfigured ==
    /\ mishaps \cap {"noise", "plug", "late", "stray"} = {}
    /\ Polling /\ device # "none"
    => device = "configured"

\* The firmware may refuse its first command; main starts over.
Calm == mishaps \subseteq {"nak", "bit"}

\* The chip is about to ask a keyboard for what it has done: the set address
\* list was sent again after it had begun with its last descriptor.  The
\* request fails, because it goes to address 0, and main starts over.
AddressedTwice == stage = 1 /\ device = "addressed" /\ ptr = ListBase

\* A keyboard at the port is enumerated and polled in the end, unless main
\* meets the chip in that place again and again.
Enumerated ==
    <>[]~AddressedTwice =>
        (device # "none" /\ Calm
            ~> (device = "configured" /\ Polling) \/ device = "none" \/ ~Calm)

\* A report that has arrived is shown, unless another one or a bus reset
\* comes first.
ReportIsShown ==
    \A k \in Reports :
        delivered = k /\ Polling ~> keycode = k \/ delivered # k \/ ~Calm

\* A keyboard that is removed for good is noticed.
RemovalIsSeen ==
    device = "none" /\ Polling ~> pc = "removed" \/ device # "none" \/ ~Calm
=============================================================================
