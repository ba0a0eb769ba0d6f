--------------------------- MODULE TransferLists ---------------------------
(***************************************************************************)
(* What the USB keyboard program writes into the memory of the EZ-OTG host *)
(* chip (software/usb_kb/usb.c and main.c): a list of transfer descriptors *)
(* at ListBase.  A descriptor is six words: the buffer, the length, the    *)
(* target (device address, PID and endpoint), the control word with the    *)
(* data toggle, the word whose low byte holds the active bit and the       *)
(* retries left, and the link to the next descriptor (0: the last one).    *)
(* The chip follows the links and knows nothing else of a list, so the     *)
(* words are the ones of the source, links and buffers included.           *)
(***************************************************************************)
EXTENDS Integers, Sequences

ListBase == \h500

\* The part of the chip's memory that the lists and their buffers use.
Addresses == {ListBase + 2 * i : i \in 0..95}

\* The addresses the program looks at: the active and retry word of the
\* first descriptor, the third byte of a report, the interface's protocol
\* and the length of a report.
RetryWord    == \h508
KeyWord      == \h51E
ProtocolWord == \h56C
SizeWord     == \h57C

\* One descriptor, as six consecutive writes to HPI_DATA.
Descriptor(buffer, length, target, control, link) ==
    <<buffer, length, target, control, \h13, link>>

\* The setup stage, to the device at an address, with its request.
Setup(target, request) ==
    Descriptor(\h50C, 8, target, \h01, \h514) \o request

DataIn(buffer, length, control, link) ==
    Descriptor(buffer, length, \h290, control, link)

StatusOut == Descriptor(0, 0, \h210, \h41, 0)
StatusIn  == Descriptor(0, 0, \h290, \h41, 0)

UsbSetAddress ==
    Setup(\hD0, <<\h500, 2, 0, 0>>) \o Descriptor(0, 0, \h90, \h41, 0)

UsbGetDeviceDesc1 ==
    Setup(\h2D0, <<\h680, \h100, 0, 8>>)
        \o DataIn(\h52C, 8, \h41, \h520) \o StatusOut

UsbGetDeviceDesc2 ==
    Setup(\h2D0, <<\h680, \h100, 0, \h12>>)
        \o DataIn(\h544, 8, \h41, \h520) \o DataIn(\h54C, 8, \h01, \h52C)
        \o DataIn(\h554, 2, \h41, \h538) \o StatusOut

UsbGetConfigDesc1 ==
    Setup(\h2D0, <<\h680, \h200, 0, 9>>)
        \o DataIn(\h544, 8, \h41, \h520) \o DataIn(\h54C, 1, \h01, \h52C)
        \o StatusOut

UsbGetConfigDesc2 ==
    Setup(\h2D0, <<\h680, \h200, 0, \hFF>>)
        \o DataIn(\h55C, 8, \h41, \h520) \o DataIn(\h564, 8, \h01, \h52C)
        \o DataIn(\h56C, 8, \h41, \h538) \o DataIn(\h574, 8, \h01, \h544)
        \o DataIn(\h57C, 2, \h41, \h550) \o StatusOut

UsbSetConfig    == Setup(\h2D0, <<\h900, 1, 0, 0>>) \o StatusIn
UsbClassRequest == Setup(\h2D0, <<\hA21, 0, 0, 0>>) \o StatusIn

UsbGetHidDesc ==
    Setup(\h2D0, <<\h681, \h2100, 0, \h7B>>)
        \o DataIn(\h544, 8, \h41, \h520) \o StatusOut

UsbGetReportDesc ==
    Setup(\h2D0, <<\h681, \h2200, 0, \h7B>>)
        \o DataIn(\h580, 8, \h41, \h520) \o DataIn(\h588, 8, \h01, \h52C)
        \o DataIn(\h590, 8, \h41, \h538) \o DataIn(\h598, 8, \h01, \h544)
        \o DataIn(\h5A0, 8, \h41, \h550) \o DataIn(\h5A8, 8, \h01, \h55C)
        \o DataIn(\h5B0, 8, \h41, \h568) \o DataIn(\h5B8, 3, \h01, \h574)
        \o StatusOut

\* The request for a report: one IN to endpoint 1, whose data toggle
\* follows the number of polls.
\* Mutant: the buffer begins one word later.
PollListLater(toggle, size) ==
    Descriptor(\h51E, size % 16, \h291,
               IF toggle = 1 THEN \h01 ELSE \h41, 0)

PollList(toggle, size) ==
    Descriptor(\h51C, size % 16, \h291,
               IF toggle = 1 THEN \h01 ELSE \h41, 0)

\* The endpoint descriptor that the program itself puts into the buffer of
\* the configuration descriptor before it has the chip run it as a list.
EndpointAt    == \h576
EndpointWords == <<\h73F, \h8105, \h0003, \h0008, \hAC0A>>

\* The lists of the enumeration in the order of main: the first steps, the
\* configuration descriptor, and the steps after the length is known.
FirstLists  == <<UsbSetAddress, UsbGetDeviceDesc1, UsbGetDeviceDesc2>>
ConfigLists == <<UsbGetConfigDesc1, UsbGetConfigDesc2>>
LastLists   == <<UsbSetConfig, UsbClassRequest, UsbGetHidDesc, UsbGetReportDesc>>
Lists == FirstLists \o ConfigLists \o LastLists

\* Consecutive writes to HPI_DATA: the chip increments the address.
Written(memory, at, words) ==
    [a \in DOMAIN memory |->
        IF a >= at /\ a < at + 2 * Len(words)
        THEN words[(a - at) \div 2 + 1] ELSE memory[a]]
=============================================================================
