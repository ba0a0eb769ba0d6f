# Contra-SV: TLA+ models and proofs

Contra-SV is a platform game on an FPGA (DE2-115): SystemVerilog modules that read
a PS/2 keyboard, move a player and a bullet, scroll a level and draw it through a
frame buffer on a VGA monitor.  The models are of the last version of the
hardware, `src/modularTesting/FinalCopy/FinalCopy/` (called `FC/` below), and of
the C program that took a USB keyboard for an earlier version,
`src/software/usb_kb/` (called `usb/`), with the driver of its `printf` in
`src/software/usb_kb_bsp/drivers/` (called `drivers/`).  `src/README.md` is the
project's report.  The other directories of `src/modularTesting` are snapshots of
earlier stages.

## 1. The system

All modules of the hardware hang on three clocks.  `Clk` is 50 MHz.  The pixel clock `VGA_CLK` is
`Clk` divided by two.  The vertical sync `VGA_VS` is a registered signal of the
VGA controller that serves as a clock too: one rising edge in a frame.  The reset
switch clears the VGA controller asynchronously, so while it is on **neither the
pixel clock nor the sync has edges**; a register with a synchronous reset on one
of the two is not reset by the switch.  This is behind several of the findings.

| Component | State | Operations | Talks to |
|---|---|---|---|
| PS/2 receiver (`FC/keyboard.sv` 100-133, 307-338, `11_reg.sv`, `Dreg.sv`) | two 11-bit shift registers, bit counter, clock divider | the keyboard's clock rises and shifts a bit, it is sampled every 512 clocks and a falling edge counts, reset | decoder |
| Keyboard block (`FC/keyboard.sv`) | last two codes, order to the slots (`Press`, `Data`, `keyReleased`), `Typematic_Keycode`, two flags, four slots with code and rank, counter, four registered outputs | decode, insert, remove, look up, reset | key code generator, player, bullet, game controller |
| Key code generator (`FC/keyCodeGenerator.sv`), registers of the frame (`Register5Bits`, `Register1Bit`) | code of the frame, scroll request | combinational; load at the sync | player, bullet, game controller, frame buffer |
| Game controller (`FC/GameController.sv`) | START, PLAY or GAMEOVER | next state on each clock | frame buffer, title screen |
| Frame pointer (`FC/FramePtrRegister.sv`) | column of the level at the left edge | add 2 at the sync, reset | SRAM address |
| VGA timing (`FC/VGA_controller.sv`) | pixel clock, column, line, two syncs | one step per clock, reset | everything |
| Frame buffer (`FC/FrameBuffer.sv`, `frameRAM.sv`) | 307200 pixels, output register, wait/write state | read, write back or overwrite, shift by one while scrolling | colour mapper |
| Bullet (`FC/bullet.sv`, `bulletTopLevel.sv`) | gun state, position, motion, saved direction | fire key edge, frame step | pixel logic |
| Player movement (`FC/playerMovement.sv`) | position, motion, gravity time, direction, on-platform flag | frame step, gravity step at bit 3 of the frame counter, reset | bullet, animations, detector |
| Platform detector (`FC/platformDetector.sv`) | search state, left and right end and line of one platform | pixel step | player |
| Frame counter and title screen (`FC/FrameCounter.sv`, `StartScreenMux.sv`) | 6-bit counter, sync phase, shown screen | pixel step | animations, monitor |
| Animations (`FC/Player.sv`, `AnimationMux.sv`, `playerAnimation*.sv`) | sprite counters | steps at the frame counter's bits | pixel logic, movement (sprite sizes) |
| Pixel path (`FC/PixelLogic.sv`, `Color_Mapper5Bit.sv`, `SRAM_Controller.sv`, `HexDriver.sv`) | one pixel register, one SRAM word | tables and multiplexers | frame buffer, monitor |
| USB keyboard program (`usb/main.c`, `usb/usb.c`, `usb/io_handler.c`) | its place in `main`, the poll count, the report length; transfer descriptors in the host chip's memory; the key code register | reset the chip, enumerate step by step with resends and retries, poll, show the key, look for a removal | EZ-OTG host chip, an earlier version of the hardware |
| JTAG UART driver (`drivers/src/altera_avalon_jtag_uart_{init,write,read}.c`) | two ring buffers with their indices, interrupt enables, seconds without a host | write, read, close, interrupt routine, timer routine | `printf`, the UART device and its host |

What makes each correct, in a sentence:

* keyboard block: the game sees the letter keys that are held, in the order in
  which they went down, and the two flag keys, whatever the order of codes;
* key code, game state, pointer: a held key starts the game, no key means no
  motion, the window stays on the level, a reset starts from the beginning;
* frame buffer: START keeps the picture, PLAY replaces all of it, nothing but
  pixels of the picture or the game is stored, no write comes in the wrong half
  of a pixel;
* bullet: a shot goes where the player aims, straight, ends off the screen, and
  the gun gets ready again; one press gives one shot;
* player and platforms: the player stays in the band in which the level scrolls,
  stands on platforms that exist, lands or falls in the end;
* frame counter and animations: each sprite of a cycle is shown, the title blinks;
* PS/2 receiver: each code is shown to the decoder once and whole, together with
  the one before it;
* USB program: a keyboard at the port is enumerated and polled in the end, the key
  shown is the last report's, a removal is noticed, and data never arrives in the
  words of a list;
* JTAG UART driver: text and input go through in order, each character once, no
  wake-up is lost, and a call ends if its wait can end.

What is hard about them: registers on three clocks that sample each other;
steps of a decoder repeated 512 times per code; asynchronous and synchronous
resets that see different things; unsigned 10-bit coordinates that wrap;
priorities that are kept in numbered slots rather than in a list; a program that
writes its lists over and over into memory that the host chip runs and fills at the
same time; a driver whose interrupt routine and thread share rings without a lock.  `PROJECT.json`
lists each hazard at its line with the properties that cover it.

## 2. The modules

| Module | Models | Is |
|---|---|---|
| `KeyList` | - | the abstract specification of the keyboard block: a list of held keys |
| `Keyboard` | `FC/keyboard.sv`, a code at a time, clock by clock | detailed specification |
| `MCKeyboard` | - | the symmetry of the letter keys for TLC |
| `TypingSession` | `Keyboard` with a player and a PS/2 keyboard | composition with an external part |
| `KeyboardProofs` | - | theorems about `Keyboard` and `TypingSession` |
| `GameControl` | key code, frame registers, game controller, frame pointer, over `KeyList` | composition |
| `VgaTiming` | `FC/VGA_controller.sv` | the timing part, extended by others |
| `FrameBuffer` | `FC/FrameBuffer.sv`, `FC/frameRAM.sv` under `VgaTiming` | detailed specification |
| `Bullet` | `FC/bullet.sv` | detailed specification |
| `PlatformDetector` | `FC/platformDetector.sv` with the SRAM's pixel register and the frame pointer, on the rising edges of `VgaTiming`'s pixel clock | detailed specification |
| `MCPlatformDetector` | - | the lines a level may have, for TLC |
| `PlayerMovement` | `FC/playerMovement.sv`, `AnimationMux.sv`, the frame counter, the frame's registers, over what `PlatformDetector` promises | composition |
| `MCPlayerMovement` | - | sprite sizes and a level, for TLC |
| `ScanCodes` | - | the abstract specification of the receiver: codes come whole |
| `Ps2Receiver` | divider, samples, bit counter, shift registers | detailed specification, with the keyboard's clock as external part |
| `TransferLists` | the words that `usb/usb.c` writes into the chip | the lists and their addresses |
| `HostChip` | - | the host chip and the USB keyboard, external, with their mishaps |
| `UsbKeyboard` | `usb/main.c`, `usb/usb.c` over `HostChip` | composition |
| `JtagUart` | `drivers/src/altera_avalon_jtag_uart_*.c` with the device and the host | composition |
| `JtagUartProofs` | - | theorems about `JtagUart` |
| `Ps2ReceiverProofs`, `FrameBufferProofs`, `BulletProofs`, `PlatformDetectorProofs`, `PlayerMovementProofs`, `UsbKeyboardProofs` | - | theorems about the modules of these names; `BulletProofs` also has the one about `GameControl` |

### Keyboard

A `Packet(c)` is the end of the transmission of a scan code: `Byte_1` takes the
last code, `Byte_2` the new one, and the bit counter is 11 for `window` clocks
(512 in the circuit; two codes are at least half a millisecond apart, so a code
never arrives in the window of the one before).  A `Clk` step is one clock edge.
The decoder (`Decode`, one disjunct per branch of the `if`), the slots
(`UpdateSlots`) and the outputs (`Lookup`) read the values of before the edge, as
non-blocking assignments do; so an order takes effect one clock after the
decision and is seen one clock later, and on the second clock of the window the
decoder reads its own `Typematic` and `keyReleased`.  In the removal the four
`if`s of the code assign the same ranks; `MovesUp` says which assignment wins.
`Reset` clears what the reset branches clear and keeps the ranks, `Typematic`,
`Data` and the flags, as the code does.  `Init` is the state after power-up and
one reset; `PowerUp` is the state after configuration, in which `Press = 0` is an
order to remove key 00.  A scan code is a member of a small set: the letter keys,
6B, 73, E0, F0 and one that stands for any other.

`KeyList` is what the block promises: `Press` appends a key that is not held,
`Release` removes the one at some place, `Clear` empties the list.  `Keyboard`
implements it under the mapping `held <- [p \in 1..keyCounter |-> Lookup(p)]`.

`TypingSession` restricts the codes to those a keyboard sends, and keeps what the
player really holds (`down`, `fire`, `jump`).  Resets come at rest of the wire:
a reset that cuts a code in two makes the next code be misread, and nothing about
what is held is promised until the key in question has been pressed and released
again.  `fresh` is the set of keys pressed since the last reset: a key held over
a reset is not shown until it is pressed again.

### Ps2Receiver and ScanCodes

`PsClkRises` shifts both registers on the keyboard's own clock.  `Clk` is an edge of
the 50 MHz clock: the divider, and when `enable` is set a sample of the keyboard's
clock (`Q1`, `Q2`), a falling edge counted, a full counter cleared.  The counter is
full at the falling edge of the stop bit, so the registers lack that bit, and the
decoder reads bits 9 to 2 where 8 to 1 would be right a moment later.  A bit is the
code it belongs to and its place in it, so that `SeesWhatIsSent` says where each
bit comes from, for any values.  `ResetOn` and `ResetOff` may come at any time, also
in the middle of a code; `aligned` remembers whether a code was cut since the last
reset at rest, because nothing in the code finds the beginning of a code again.
`ScanCodes` is what `Keyboard` takes for granted: `Packet(c)` and a window of
`WindowClks` clocks.  `OneWindowPerCode` says that each step of `Ps2Receiver` between
resets is a step of `ScanCodes` or none, under a mapping that reads the window off the
counter and the divider.

### GameControl

The keyboard block is its abstract list here, with the two registered outputs one
clock behind, because `keyCount` and `key1`, `key2` reach the generator with that
skew.  `SyncRise` loads the three registers of the frame; `Clk` moves the game
controller; the reset switch (`ResetOn`, `ResetOff`) clears what is on `Clk` or
asynchronous and holds the sync low, so the registers on the sync keep their
values.  The player's request to scroll is an input.  `playerDead` is not
connected in the top level, so GAMEOVER is never reached.

### VgaTiming and FrameBuffer

`Tick` is what an edge of the 50 MHz clock does to the pixel clock, the counters
and the sync.  A pixel of the memory is represented by where it came from in the
title picture (its address) or by `Game`; `Garbage` is what a read beyond the
memory gives.  `Clk` does the write (with the old pixel in START or under a
transparent pixel), the read, the state machine and the timing at once, all from
the values of before the edge.  `ResetOn` contains the write that may be in
progress when the switch goes on, which then goes to pixel 0.

### Bullet

`FireDown` is the edge of the fire key that saves the direction; it may come at
any moment, also in flight.  `VSRise` is a frame: gun state, motion and position
from the values of before, and new values of the player's inputs, which change at
the same edge.  Coordinates are modulo `Mod`; the tests `position < 0` of the
code are never true and are left out of `OffScreen`.  The direction of travel is
a vector of -1, 0, 1.  `ResetPlayer` turns the player and puts him back; the
bullet's own reset is on the sync and is never seen.  `Init` is the state that this
reset would make: the code gives no other, and the model relies on the synthesis
starting a state machine in its reset state at power-up.

### PlatformDetector

`PixelClk` is a rising edge of the pixel clock: state, flag and registers from the
values of before, and the pixel of the column before.  A level is, for each line of
the picture, a set of yellow columns, also of columns that pass under the blanking.
A word of the SRAM is two pixels, so yellow comes in pairs of columns.
`NewFrame` is the sync's edge: the pointer moves, the player's feet and whether he
is on the ground are inputs.  `ResetOn` stops the clock and leaves the detector as
it is.  `found` is a history variable: how far the search of this picture came.  `FindsFirst`
makes an exception where the last pixel of the blanking above the feet is yellow:
it is seen in the line of the feet (section 5).  In the circuit `PlayerY` of a player on
the platform follows `PlatformY` within a picture (`FC/playerMovement.sv:404-405`); here
the feet stay as they are until the sync.  This matters only for a platform in line 0
or 1 of the picture, where the feet wrap and a search may stop half way.

### PlayerMovement

`VSFall` is a picture and its end: the detector has its platform (`Found`, which is
what `FindsFirst` says of the detector), the frame counter counts, and its bit 3
may tick the gravity.  `VSRise` moves the player (`Move`, or `Restart` when he is
off the screen) and loads the frame's registers.  The live signal `keyPress` and
the new keys are chosen freely at the edge.  What the code computes from the
shown sprite (`PlayerHeight`, `PlayerWidth`, `PlayerY`) is computed from it here, so
the feedback of the pose on the platform test is in the model.  `ResetSwitch` is
the switch on and off, between which no clock has an edge; the frame counter sees
the sync of a reset one pixel after the player (`counted`), and a search that is
cut leaves all, half or nothing of a platform.  `stale` remembers that the platform
is of before a reset, `missed` that the level has scrolled in a picture that showed no
platform from the feet on, so that the old one was kept.  A level is a set of segments of lines; that the detector
sees them one column late is taken from its own model.  The two pixels between
the fall of the sync and the count are not interrupted by a reset in the model.
`jumpFlag` and `Lives` have no reader and are left out.

### TransferLists, HostChip and UsbKeyboard

`TransferLists` has the descriptor lists word by word, with the addresses and links
of the source, because the chip knows nothing else of a list and the properties are
about what overwrites what.  `HostChip` is the chip's memory, list pointer, message
register, mailbox and command, and the state of the keyboard behind it.  It is
modelled from what the program expects of it: `Fetch` loads the descriptor at the
pointer, one of the `Complete` actions does its transaction and writes the result
into the retry word, the end of a list posts a message.  What may go wrong is
in `Faults`: noise on the line, a chip that is late, a keyboard changed behind the
program's back, a message that arrives before the last was read, a refused command,
another bit of `HPI_STATUS` that ends the wait for the first answer (`usb/main.c:96`),
a message without a transfer; each at most once, `MaxMishaps` in all.

In `UsbKeyboard`, `pc` is the place of `main` between two accesses to the chip and
`stage` the list it is at.  `Send`, `AwaitFlag` and `Sleep` are the loops that write a list
until a message comes.  The first look at the flag follows the list at once (only the
configuration descriptor has the 100 ms of `usb/main.c:298` before it), so without a
message `main` writes the list again wherever the chip is in it; the look and the list
are two steps, and the chip may end the list between them.  The 10 ms come after that.  They
are taken to be enough for a list of the enumeration, unless the chip had the bus to
reset as well (`resetSleep`); a chip that is still in the list then is the mishap
`late`.  A poll's list may take any time.  `UsbWaitTDListDone` reads and clears the
message in two steps, as `usb.c:531-547` does; `Check` and `UsbGetRetryCnt` look at the
first descriptor of the list, which is all that `main` looks at; `DeviceInfo` and
`DataSize` are the endpoint descriptor that the program writes itself and the
length it reads back; `ShowKey` and `LookAtLine` are the polls.  The data toggle is
in the list and follows the number of polls.  A list is written in one step: a
list that is sent again has the words that are there already, but for the retry words
that the chip has worn down, and those it meets in the order in which they are written; so
the chip sees what it would see had the list been written at one moment.  Only a list over
one that the chip is still running would show it half written, which is what `late`
excludes.  The pins of an access to the chip (`io_handler.c`) are part of the access.

### JtagUart

A step of the thread is one access to what it shares with the interrupt routine:
`write` looks at `tx_out` (`WLook`), copies (`WCopy`), moves `tx_in` (`WPublish`), and
enables the interrupt when the text is in or the ring is full (`WKick`); `read` is
cut in the same way.  The routine may run between any two and is not interrupted;
the device goes on all the time.  `WPublish` uses `seen`, the copy of `tx_out` that
`WLook` made, however far the routine has come.  A character is its number in the
text, which makes order and losses visible.  `moved` is the code's `ptr # start`.
`timeout` is INT_MAX when the alarm could not be started, as in this system, where
`ALT_SYS_CLK` is `none`.  The device, the host and the caller are external.

## 3. The runs

Bounds are in the `.cfg` files; each run takes less than three minutes.  The type
invariant of a module is a run's invariant `TypeOK` or a conjunct of the first
invariant that the run lists.

| Run | Question | Instance and why it is enough |
|---|---|---|
| `keyboard` | Are ranks, lookups and outputs exact, and is the list implemented, under any codes and resets? | 3 keys, 3 slots: a key in front, one in the middle and one behind, all orders of slots; windows of 3 clocks, the shortest in which all repeats happen; the letter keys are symmetric |
| `keyboard_power_up` | Does a machine that was not reset heal with the first reset? | 2 slots, counters modulo 8 and 4, so that they wrap |
| `ps2_receiver` | Does the decoder see each code whole and once? | 2 codes of the real 11 bits, a sample every 3 clocks, the shortest halves of the keyboard's clock that `ClockAssumption` allows (with one clock less in either half TLC finds a violation), resets at any moment |
| `typing_session` | Is what the game sees what the player holds, and is a press seen? | 2 letter keys, 2 held at once, both flags, repeats, prefixes, unknown keys; no symmetry, because it checks liveness |
| `game_control` | Do held keys start the game, does the motion stop, does the pointer stop? | lists of up to 2 keys out of 4, pointer limit 3 (odd, as 3473 is) |
| `frame_buffer` | Does START keep the picture, does PLAY replace it, is nothing else stored, does the sync stay out of the picture? | picture of 3 x 2 pixels in frames of 5 x 6, an odd width of the line and of the frame as small as the sync's lines allow, resets at any clock |
| `bullet` | Does a shot go where the player aims and stay straight, is the gun ready again, does one press give one shot? | 16 x 16 coordinates with a screen of 10 x 8 and steps of 3, so that bullets leave at each edge, by wrapping at the left and the top; a player on the screen and one beyond it |
| `platform_detector` | Is there ground where the detector says so, is the first platform found, is none noted by half? | pictures of 6 x 3 in frames of 8 x 7, 6 kinds of line (none, short, two platforms, over the test column, into the blanking, all over), so that two lines and what the blanking shows between them matter; the feet above, in and below the picture, resets at any pixel |
| `player_movement` | Does the player stay in the band, stand on ground only, and stand or fall in the end? | a tenth of the real sizes, with the order of the sprites' widths, gravity in two steps, a tick at every fourth or third frame (16 or 15 in the circuit); a level with an edge, a step above it and a platform behind the gap; a window that scrolls twice, which is when a platform noted too early is missed; no key, left, down, right, and jump |
| `usb_enumeration` | Is a keyboard enumerated and polled in the end, are its reports shown, is its removal noticed? | one key and its release, one further look at the port before it counts as empty or the keyboard as removed (5 and 7 in the program), a firmware that may refuse a command once; a list is sent again wherever the chip is in it |
| `usb_faults` | What is shown, which list does the chip run, is the polled keyboard configured, and where does data go, when something goes wrong? | the same with any one of the seven mishaps at any moment, or none |
| `jtag_uart` | Do both directions keep their order, is no wake-up lost, does a write end? | rings of 3 places, FIFOs of 1, calls of up to 2 characters, texts of 4 and 3: both rings wrap, fill and run empty, and a call takes two rounds; with a timer and without one |

In `bullet` the edge margins satisfy what the real numbers satisfy (the screen's
last column plus a step is less than the modulus: 639 + 3 < 1024); without it a
bullet could wrap past the off-screen band, and the assumption is named.

In `player_movement` the sizes keep what `Settles` is about: the window of the
platform test (4 lines; 21 in the circuit) is less than what the player falls in
the off-platform frames between the ticks of one parity (6; 24), and the counter's
period is odd (7; 63).  With the even period of the mutant `CountNextEven` he hangs
at a platform's edge for ever.

Fairness.  `Clk`, the syncs and `Send` are weakly fair: the clocks of the board run
(in `PlayerMovement`: the sync has edges for ever), the switch is not left on for
good (`ResetOff`), and a keyboard sends what it has.  Nothing is assumed of the
player, of the keys or of when resets come; the liveness properties speak of
behaviours in which from some point on a key is held or the keys are up.  In
`UsbKeyboard` the processor (`Main`) and the firmware (`Chip`) run; the chip owes no
answer to a poll without a report, and the user of the port nothing.  `Enumerated` has a
premise that fairness does not give: that `main` does not for ever send the set address
list again just when the chip is in its last descriptor (`AddressedTwice`).  The list then
runs a second time; its request goes to address 0, which the keyboard has left, and
`main` starts over.  Nothing in the program keeps this from happening again (section 5).  In `JtagUart`
the thread goes on in a call, the interrupt routine returns, the timer ticks when
there is one, and a connected host takes what the device has; nobody owes a call,
and the host may come and go.

Deadlock is checked in all runs but `usb_faults`: there a message may be wiped out
between its read and its clear, and `main` then waits for ever, at `usb/usb.c:546` or
for the flag at `usb.c:572`, as the program does.

## 4. The proofs

Every theorem is of the specification as it stands, for all values of the constants
that the named assumptions of its module allow; no fairness is used.  The inductive
invariants were checked by TLC on the runs' instances before they were proved.

`KeyboardProofs.tla` proves, for every finite set of keys, every number of slots
that is at least the number of keys and less than the two moduli, and every window of at
least three clocks:

* `Invariance`: `Spec => []IInv`;
* `TypeCorrect`, `RanksAreExact`, `ListIsExact`: the three invariants of the run
  `keyboard` of the same names follow from it;
* `OutputsSettle`: when the decoder is idle, the outputs show the list;
* `ResetHeals`: a machine that was not reset at power-up is exact from its first
  reset on (`HealsForGood` of the run `keyboard_power_up`);
* `SlotsImplementList`: `Spec` implements `KeyList`;
* `ShownIsHeld`: `SessionSpec => []ShowsWhatIsHeld`, for any number of keys held.

`RanksExact` is not inductive as it stands.  A removal keeps the ranks exact only
if no key is in two slots (`NoDuplicate`) and if the order is never to remove code
00 (`OrdersValid`), and the lookup shows the held keys only if a stale rank, which
a reset leaves behind, is in a slot behind every slot in use (`StaleBehind`: the
insertion takes the first free slot, so stale slots are overwritten in order).
`Healed` is the conjunction of these with the widths of the registers, and every step
keeps it whatever the ranks were before; `IInv` adds that no rank, stale ones included,
is above the number of slots, which holds after `Init` but not after `PowerUp`.  A free slot
when a new key arrives (`RoomForOne`) comes from counting the keys.

`OutputsSettle` needs an invariant about the window: `SettlingClk` shows that after
the first clock the decision is made, after the second the decoder's order is
`nothing` or has no further effect (`DoneIsInert`: an insertion is followed by
`Repeat`, a removal of a key that is gone leaves the slots), and after the third
the outputs are the lookups of slots that no longer change.

The refinement takes an insertion to `Append` and a removal to `RemoveAt` at the rank
of the removed key; `RemovedAt` says what is left of a sequence.  An insertion that the slots drop is
a stutter: the key is in a slot, because a machine without a free slot holds every
key (`NoneMissing`).

The session's invariant tells what is settled from what is under way: `LastCode` is
the last code of the event whose codes are on the wire or in the decoder, `ComesUp`
whether F0 announces it, `Underway` the same until the slots have followed.  The list,
the flags and `Typematic` agree with the player but for that one code (`ListOK`, `FlagsOK`,
`TypematicOK`).  `NewestOK` is the part that had to be found: a key that is not in the
list yet is the newest of all, and its repeats are not being ignored, so that
the order in which keys join the list is the order in which they went down.

`JtagUartProofs.tla` proves, for every length of the rings from 2 on, every depth of
the FIFOs, every length of calls and texts, with or without a timer:

* `Invariance`: `Spec => []IInv`;
* `TextStaysInOrder`, `InputStaysInOrder`, `NoWakeUpLost`: the three invariants of
  the run `jtag_uart`; and `TypeCorrect`, that indices stay on the rings and no FIFO
  is written when it is full.

None of the three is inductive.  A write copies into places that were free when it
looked, so `WriteHolds` says that they still are (the interrupt routine only frees
more) and that what is between copy and publication is the text that comes next.
`ReadHolds` says the same of a read, and that a read that is about to free has
copied something, on which the receive interrupt depends.  `HandlerHolds` says that
the routine's `space` is never more than the FIFO has (the host only takes from it), and
that when it is about to turn the receive interrupt off the ring is full.  The
arithmetic of the rings is in the lemmas at the top (`UsedGrows`, `UsedShrinks`,
`OffsetShifts`, `OffsetBehind`): the proofs of the steps see only how many places are in
use and how far a place is from the first.  `TextUntouched`, `InputUntouched`,
`OthersKeep` and `EnableUntouched` say once which actions touch what.

`Ps2ReceiverProofs.tla`, for every length of a code, every sampling rate and every keyboard as
slow as `ClockAssumption` says: `CodesAreSeen` (`SeesWhatIsSent`) and
`ImplementsScanCodes`, that every step of an aligned receiver is one of `ScanCodes` or
none.  The invariant says, for an aligned receiver, how many bits have
been shifted when the keyboard's clock has had so many edges and how many of them the sampler
has counted (it is behind by at most one), and which bit of which code is at each
place of the registers.  Of a receiver that a reset has cut only the types remain.

`FrameBufferProofs.tla`, for every size of picture and blanking in which the sync is
outside the picture: `PictureIsClean` (`NoGarbage`), `SyncIsOutside`
(`SyncOutsidePicture`) and `TitleStays` (`StartKeepsPicture`).  The argument is the
phase: from the second line on the write comes in the second half of a pixel, when the
output register holds what was read from the same address in the first, and a game that
has not started does not scroll.

`BulletProofs.tla`, for every screen, speed and width of the coordinates that
`EdgeAssumption` allows: `SpentStaysHidden` (from the end of a flight, `shootEnd`, until the
gun is ready again the bullet's centre is beyond the screen's edges; a ready gun's bullet
lies at the muzzle), `ShotGoesAsAimed`, `FlightIsStraight`.  `SavedIsAim` is what
makes the second inductive: between the fire key's edge and the next sync nothing the
player shows changes.

`PlatformDetectorProofs.tla`, for every size of the picture, test column and level whose
yellow comes in pairs of columns: `GroundStaysThere` (`GroundIsThere`), `PlatformsAreWhole`
(`NoHalfPlatform`) and `FirstIsFound` (`FindsFirst`).  `StateOK` has, for each state of
the search, what has been seen of the line up to the column before the last; `SearchAt`
gives the state at every pixel of a picture whose first run is known.  Proving it
showed two premises that the small instance had hidden.  The state after the first
yellow pixel does not look at the next one, so a run of one column would be noted
with one too many; the SRAM's words of two pixels exclude it (`DetectorAssumption`).  And the
last pixel of the blanking above the feet is seen in their line, which is the exception in
`FindsFirst`.

`PlayerMovementProofs.tla`, for every screen, band, table of sprites and set of levels:
`StaysInBand` (`InBand`) and `GroundUnderFeet` (`StandsOnGround`).  `BandOK` counts by how
many steps the player may be out of the band: one at a walk, two in a jump
that begins on a platform, and there are only two such frames because after the second the platform
is out of the test's window (`JustTookOff`).  `PlatformOK` says that the noted platform is
one of the level's, shifted by at most one step of the scroll.  Proving it showed that
the columns of a platform may stay behind while the level scrolls, more than by the
one step; `missed` marks it (section 5).

`UsbKeyboardProofs.tla`, for every set of kinds of mishap, at most one of each kind, every
set of key codes and every number of looks at the port: the four safety properties of
`usb_faults`, `PollsAskForEightBytes` (`AsksForEightBytes`), `ListsStayWhole`
(`ListsKeptWhole`), `PolledKeyboardIsConfigured` (`PolledIsConfigured`),
`RegisterShowsLastReport` (`ShowsLastReport`), and `TypeCorrect`.  None is near to being
inductive, because the chip runs whatever the memory holds and each list is written over the
one before.  The invariant has four parts.

* `Always` holds whatever goes wrong.  `MemoryOK` is its core: at each of the ten places
  where a list may have a descriptor (`Spots`), an active one is sound: its link goes to another
  of these places or to 0, a setup stage or a poll is at the head of the list with its
  buffer where the program put it, and the data of any other stage goes behind the place
  where the shortest list with data ends.
  So the chip's pointer stays on these places (or on the endpoint descriptor, which is never
  active) wherever it stands when `main` writes the next list over the last one.
  `ControlOK` says where a command or an unread message may be under way, `KeyOK` that
  nothing but a report writes the key's byte during the polls.
* `OrderOK` and `SizeOK` hold while the chip is not late.  `OrderOK` says where the chip may
  be at each place of `main`: anywhere in the list until `main` has slept, but idle when
  `main` reads the message, looks at the first descriptor and sends the next list, because
  each list that is sent again is followed by a sleep before the next look at the flag
  (with the mutant `AwaitFlagSleepless` this fails at once).  One exception is in the code:
  the chip runs the endpoint descriptor that the program has in its memory as if it were a
  list (`ptr = EndpointAt`), while `main` reads the length from it (`SizeOK`).
* `KeptOK` needs also that no message came too many (`stray`).  It says that while the chip
  has a list to run, each active descriptor up to its end is one of `main`'s list, with the
  request of that list, and that data goes behind the end.
* `CleanOK` holds for the mishaps that `PolledIsConfigured` admits.  Two lists change the
  keyboard's state, and each goes through phases: `Sent`, `Opened`, `Answered` (the request
  has arrived), `Closed` (the status stage is under way) and `Served`, when the keyboard
  has done what the list asks for, whatever a second run of the list brings.  A list that
  is sent again in its first descriptor goes back to `Sent`.  `Ended` is a list that has
  stopped without that; if `main` is told of one it is the first, its retry word shows the
  failure, and `main` starts over.  So the keyboard has its address after the first list and
  is configured after the sixth.

What `ListsStayWhole` and `PolledKeyboardIsConfigured` exclude is what breaks them: a chip
that is still in a list after the sleep may read the next one while it is written, and store
data of the old list in the new one; a message too many makes `main` go on too early; noise in
a later stage of a list is not seen; a keyboard that is put back before `main` looks is polled as
it is.

`WindowStays` (`WindowInLevel` of `GameControl`) is proved for every limit of the pointer and
every number of held keys, in `BulletProofs.tla`, which extends both modules.

With these, every invariant and action property that a run checks is stated by a theorem.
Only model-checked are the liveness properties: `PressIsSeen`, `KeyStartsGame`,
`MotionStops`, `PictureReplaced`, `GunReady`, `HeldFiresOnce`, `Settles`, `Enumerated`,
`ReportIsShown`, `RemovalIsSeen`, `WriteEnds` and `TextArrives`.  Out of the prover's reach:
liveness under fairness, `ENABLED`, and induction over data.

## 5. Where the report and the program differ

Seen while modelling; the actions named are translated as the code is.

Keys and game state:

* of three held keys the first two should decide (README.md:436-438); the generator
  gives code 0 for three keys, and the player stops (`KeyCode` in `GameControl`);
* a key should start the game (README.md:45); the frame's key code survives a reset
  and starts it without one (`ResetOn`, `Clk`); the scroll request survives too, so the
  first sync may move the frame pointer in START;
* a PS/2 keyboard may hold its clock low for 30 microseconds, 1500 clocks, and the
  decoder's window may last until 1536 clocks after the falling edge of the stop bit:
  with the very fastest keyboards the registers may shift within the window's last
  clocks.  `ClockAssumption` excludes them;
* a code that a reset cuts leaves the receiver behind the keyboard's bits until
  another reset comes between two codes; start, parity and stop bit are not looked at.

Bullet, player and platforms:

* nothing should change the way of a bullet (README.md:792-794); pressing the fire
  key again does (`FireDown` in `Bullet`);
* START should place the player on the first platform (README.md:43-44); the reset
  leaves the detector's registers as they are, and the player stands on what they
  name, which may be no platform at all (`ResetSwitch` in `PlayerMovement`);
* the report's seven bullets (README.md:744-765) are one, the others are commented out;
* the platform test allows -8 and +12 lines, not +-8 (README.md:599-602), and the
  gravity ticks every 16 frames, not every 8 (README.md:606);
* the negative gravity of a jump (README.md:613-614; `FC/playerMovement.sv:184`) is
  never loaded: the tick clears the gravity while the player is on the platform;
* a jump key seen for one frame takes 70 off the position and leaves the player on
  the platform;
* the search begins at the player's feet, and in the pose of a jump they may be a few
  lines below the line of the platform that he stands on.  A scrolled picture then shows no
  platform, and the detector keeps the columns of before: a player who toggles the jump key frame
  by frame stands on a platform that the level has moved away from (`missed` in
  `PlayerMovement`);
* a platform is not noted for a frame if the last pixel of the blanking in the line above the
  feet is yellow: the search takes it for the beginning of the line (`FindsFirst`).

Pictures:

* the first line after a reset is copied one pixel to the right, although the
  buffer should copy itself into itself in START (README.md:36-37), because the
  write comes in the wrong half of a pixel; from the second line on it is as the
  report says (`StartKeepsPicture`);
* START after a game shows the game's last picture, not the title (README.md:92-93),
  which is only the memory's initial content;
* the sync is low while `vc` is 489 and 490, one line before its comment
  (`FC/VGA_controller.sv:101`).

USB keyboard:

* a step that was not processed successfully should be done again (`usb/main.c:210`);
  the loop after it only reads the retry word again (`usb/main.c:223`,
  `usb/usb.c:577-578`), so a request whose first transfer failed for good leaves `main`
  there for ever.  Noise in the status stage of the set address request is enough:
  the device keeps address 0, and the next request finds nobody;
* a list is sent again if it was not processed successfully, says `usb/main.c:210`; it is sent
  again also when the chip is in the middle of it, or has ended it since `main` looked.  A
  second set address request fails, because the keyboard has left address 0, and `main`
  starts the enumeration over; with an unlucky timing it does so for ever
  (`AddressedTwice` in `UsbKeyboard`);
* until the first report the key code register shows hexadecimal 20, the low byte of a link that
  the enumeration left in the report's buffer; after a removal it keeps the last key
  (`usb/main.c:520-523`);
* the data toggle follows the number of polls, not of reports, and is not reset by an
  enumeration (`usb/main.c:471`).

JTAG UART:

* one second without a host ends a blocking write even when there is room by then,
  and the call returns what it has, or an error (`drivers/src/..._write.c:189-191`);
* without a system clock there is no alarm, and `printf` waits for a host for ever
  once the ring is full; `WriteEnds` says both.

## 6. The plan

1. Done: keyboard block with its bits, list, session and proofs; game control; frame
   buffer, bullet, platform detector and player with the detector's promise, with their
   proofs; USB keyboard program and JTAG UART driver with their proofs.
2. `PlatformDetector` shown to implement the abstract search that `PlayerMovement`
   uses (`Found`), and the real sizes of sprites in a run of the falling player.
3. `FrameClock`: the frame counter's states pixel by pixel, title screen and
   animation counters.
4. Done: the proofs of every invariant and action property of the runs, with those of
   `UsbKeyboard` and `GameControl` last.

Not modelled and not planned:

* the colour, seven-segment and sprite address tables (no state), the horizontal
  sync (goes to the monitor only), the image converters, the earlier versions of the
  hardware;
* `usb/cy7c67200.h`: a table of the chip's registers, of which the program uses a
  dozen; those are names in `TransferLists` and `HostChip`;
* the rest of the board support package (`src/software/usb_kb_bsp/HAL`): generated for
  the processor.  Of it the program uses start-up, `usleep` and `printf` on the standard
  output; its file descriptors, alarms, time, heap, profiling and logging are never
  called with anything to decide (there is one device, no alarm can be started, and
  nobody opens a file).  The driver below `printf` is the part with state that two
  actors share, and it is modelled;
* the `ioctl` of the driver and the values that its calls return.
