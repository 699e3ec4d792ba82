# crystalBoot in TLA+

crystalBoot is a bootloader for STM32L1 microcontrollers (`mcu/`), a Qt program
that updates firmware through it over a serial line (`qt/`), and an image
creator that turns hex files into firmware images (`imageCreator/`, sharing
`qt_common/`). This directory specifies the program, model-checks the
specifications with TLC and proves the main results with TLAPS. Paths in this
file are those of the repository.

## The system

| part | state it keeps | operations | hard about it |
|---|---|---|---|
| firmware programmer, `mcu/src/programmer.c` | descriptor page and its RAM copy, validity flag, open transfer, write pointer, AES state, throttle counter | init, erase, open transfer, write block, verify, quick verify, queries | power loss between two flash operations, errors in the middle of one, verdicts that outlive a reset |
| flash driver, `port_flash.c` | the flash | erase pages, program half pages, read, read back, start the application | the unaligned end of a read, half programmed cells |
| main, `main.c`, `port_chip.c`, `port_bootloader_app_data_exchange.c` | jump mode, magic key in RAM shared with the application, sticky reset flags | start-up decision, loop with two idle times | what a life inherits from the last one, and from the application |
| serial port, `port_serial.c`, `fifo.c` | two ring buffers | put, get, USART interrupt | the main loop against the interrupt, a full buffer |
| RPC, `rpc_receiver.c`, `rpc_func_freertos.c` | frame being received | one handler per call | lost frames; the codec is a submodule that is not in the repository |
| EEPROM, `programmer.c`, `port_flash.c` | the EEPROM, read and write pointer | erase, read, write, verify | pointers lost with the power, 16 bit addresses, blocks programmed in part |
| host session, `bootloader.cpp`, `serialworker.cpp` | connection state, loaded image, what the device said of itself | connect, update, erase, EEPROM files, run | timeouts against late answers, an event loop that runs during an action |
| host windows, `qt/project/src/mainwindow.cpp` | enabled menus, reconnect timer | one slot per button | the slots run whenever something is logged |
| result documentation, `flashresultdocumentation.cpp` | list of results | overall result, plausibility | empty and missing results, descriptors that never came |
| images, `qt_common/` | binary with address, meta data | assemble hex files, load, save | padding, 32 bit addresses, what is checked on loading |
| image creator, `imageCreator/` | settings in the window, in an object and on disk, key file | load, save, preview, create image, create key | three copies of the settings, errors nobody looks at |

The host calls the MCU by RPC; a handler calls one function of the programmer,
which runs to completion in the main loop and answers. The programmer and
`main()` share the descriptor: the programmer persists a verdict on the
firmware, and `main()` starts the application on it. The application and
`main()` share a few bytes of RAM that survive a reset and hold a magic key.

Within the host every call blocks the only thread that matters, and every
message it logs runs the event loop. An image file goes from the creator to the
host; a bundle (bootloader, descriptor and application in one hex file) goes to a
programmer outside of the system.

What makes these parts correct, in a sentence each: a persisted verdict is true
(programmer); only what was verified is started, what can be started is, and the
host can always get in (main); every byte comes out once and in order (serial
port); an update or an EEPROM transfer reported as successful is one (host); a
device is erased only for an image it will take (plausibility); a file that is
consistent is what a creator wrote (images); what is written is made of the files
the settings name, and encrypted if that was asked for (creator).

## What there is

| module | models | how |
|---|---|---|
| `Programmer` | `programmer.c` with the descriptor and the application flash of `port_flash.c` | one action per function; a function that writes the flash more than once is split at those writes |
| `CertifiedFlash` | the abstract promise of the programmer: content, and at most one certificate that is true as long as it stands | three actions |
| `AESThrottle` | `Programmer` with the history of when encrypted transfers were opened | one history variable |
| `Boot` | `main()` around the programmer, with reset sources, exchange area, key and application | composes `Programmer` |
| `Fifo` | the ring buffer of `fifo.c`, as operators on `fifo_t` | no state of its own |
| `BoundedQueue` | the abstract promise of a direction of the serial port | put and take |
| `SerialPort` | `port_serial.c`: the main loop against the interrupt of the USART | composes two FIFOs |
| `Plausibility` | the check of an image against a device in `flashresultdocumentation.cpp` | operators; addresses wrap at `AddressSpace` |
| `UpdateSession` | `bootloader.cpp`, `serialworker.cpp` and `mainwindow.cpp` of the host: connecting, updating, erasing, running | composes `Programmer`, `Plausibility` and a line that loses messages |
| `Eeprom` | the EEPROM commands of `programmer.c` and `port_flash.c` | one action per command, programming byte by byte |
| `EepromTransfer` | the EEPROM actions of `bootloader.cpp` | composes `Eeprom` and the same kind of line |
| `HexFile` | `hexfile.cpp` | operators on a binary with an address |
| `FirmwareImage` | `firmwareimage.cpp`, `firmwaremetadata.cpp` | operators on records |
| `FirmwareEncoder` | `firmwareencoder.cpp` | operators from settings to image and bundle |
| `ImageCreator` | `mainwindow.cpp` of the creator, its settings and key file | one action per button |
| `ImageFiles` | the way of an image file from creator to host | write, damage, load |
| `MC...` | instances for TLC | |
| `...Proofs` | theorems, beside the module of that name | |

**Data.** To the device a firmware image is a name with a number of half pages;
block `k` of image `i` is `<<i, k>>`. The flash is an array of half pages (128 bytes: the
size of a transmitted block and of `FLASH_ProgramHalfPage`), each erased, a
block, or garbage. Equal hashes mean equal contents, and the CRC of the
descriptor is taken to reject a page that is erased, half written or all zero
(the CRC itself belongs to a submodule). Entry points are multiples of 128
bytes: for others `portFlashWrite` refuses every block.
In `Programmer` `entryPoint + size` does not overflow: for the images whose end
wraps round in `programmer.c:260`, `AckedBlocksProgrammed` does not say that the
blocks lie in the flash. What the host lets pass is the subject of
`PlausibleIsAccepted`, where addresses are numbers that wrap.

**Steps.** Everything in the firmware but the serial interrupt runs in the main
loop, so a call is interrupted only by a reset, by loss of power or by a flash
error. `pc` says which write of a call is next: `erase_descriptor`,
`write_first_half`, `write_second_half`, and `erase_app`, once for each page.
`Reset` may come before any of them. An interrupted erase or write may leave
what was there, what was to be there, or (in the application flash) garbage.
`job` says on whose behalf the descriptor is saved, and so what happens after
it. A save that fails ends in `hung`, the failed `assert` of `programmer.c:62`
and `:85`.

**Calls.** `Programmer` lets the host call anything in any order at any time.
`Boot` restricts the calls to the places `main()` makes them: the first
initialisation and quick verification, the decision, the second ones, and the
loop, where the host's handlers run. The idle times of the loop are not counted:
both may run out whenever no call runs.

**Resets.** `Boot` distinguishes power-on (the exchange area then holds
anything), reset pin, software reset, watchdog, low-power reset and wake-up from
standby. Flags accumulate as in `RCC_CSR`; nothing in the bootloader clears
them, the application may. An application not prepared for the exchange area
has its stack there, and may leave any magic.

**Interrupts.** In `SerialPort` the handler of the USART runs as one step and may
strike between any two steps of the main loop outside its critical sections. A
`portSerialPutChar` is the test of the FIFO, the critical section with
`fifo_push` in it, and the enabling of the interrupt; `fifo_push` and `fifo_pop`
load the number of elements in one step and store it in another, so that it
matters that the interrupts are disabled. The data registers are external; a
byte that arrives while the receive register is full is lost in hardware.

**Host.** `UpdateSession` keeps the calls of the host program as `stack`: the last
action runs, the others wait inside a `log()` (`mainwindow.cpp:141`) until it
returns. A record of the stack holds the step it is at and what its local
variables mean: the next block, the image the report is about, whether a result
so far was bad. Where the code logs, or shows a dialog, an action may begin
(`HandlesEvents`): a file is opened, the port is opened or closed, a menu action
that is enabled is chosen, or the reconnect timer fires. Several messages in a
row count as one chance, and an action begins at most one other there. `alone`
records that none has. The step that evaluates `connState` after a nested action
has closed the port is modelled as it is: the window may then show a connection
over a closed port.

**Line.** A call puts a request on `wire`, or loses it. The device takes the
requests in order and answers the one it serves (`serving`); a call ends with
that answer or with a timeout, after which its request is no longer `live` but
may still be served. Answers nobody waits for are dropped, as the RPC library
does. Timeouts have no length: any call may end by one before its answer comes. The host judges a call
by the answer's return value as well only where `serialworker.cpp` does.
`calling` says that the host waits; the device runs meanwhile, loses its power,
and starts up again.

**EEPROM.** Bytes are programmed one after the other and words erased likewise;
an error or a loss of power ends a command between two of them, and leaves
anything in the byte or word under way. Equal CRCs mean equal contents. The bound of
`portEEPROMRead` is modelled with the cut of the pointer to 16 bits, as the code
compares it: an offset with an absolute address. In `EepromTransfer` the three
questions the host asks about the device before it erases the EEPROM are one
request; they change nothing in the device, and the erase follows whatever came
back. As in `UpdateSession` an action begins at most one other where it logs.
The host asks for no block larger than `BlockMax`, so that TLC meets no larger
one; that the device refuses those is in `EepromSpec`, which `EepromProofs` is
about.

**Files.** A hex file on disk is a function from addresses to bytes, a header
file a sequence of definitions, an encrypted binary a record of key, vector and
plain binary. A hex file that can be opened but holds no data counts as one that
cannot be read: where it starts is up to the library for hex files, which is not
in the repository, and the image made of it has size 0, so that no host takes it
for valid. Loading an image sets field after field and leaves what it cannot
read as it was, as the code does. The creator's window has two names (application
and key), the kind of encryption and the wish for a bundle; a settings file is
known by its directory. What the settings object keeps of the window beside the
paths is overwritten before every use and left out.

## The runs

| run | instance | shows |
|---|---|---|
| `programmer` | 2 images of 1 and 2 half pages (the second one unaligned), 2 pages, plain and encrypted, throttle of 2 s, fair | `TypeOK`, `VerifiedIntact`, `OpenTransferIsUnverified`, `AckedBlocksProgrammed`, `CacheCoherent`, `FrozenWhileVerified`, `VerdictIsPersisted`, `EraseOKMeansBlank`, `EveryCallEnds`, `AESOpensSpaced`, and that `Programmer` implements `CertifiedFlash` |
| `boot` | 3 images (prepared, unprepared, no stack address), waiting for the host after power-on, fair | `LaunchOnlyVerified`, `BootKeepsVerdict`, `UpdateRequestHonoured`, `LaunchableIsLaunched` |
| `boot_direct` | 2 images, direct jump instead of a reset, no waiting | `RecoverableByKey` |
| `serial` | two byte values, FIFOs of two bytes, fair | `SerialTypeOK`, `TestedByteIsThere`, `ReceivedIsKept`, `InterruptQuiets`, and that both directions implement `BoundedQueue` (`TxIsQueue`, `RxIsQueue`) |
| `session` | 2 encrypted images of 2 half pages, one page, one request under way | `SessionTypeOK`, `ReportIsTrue`, `ErasesOnlyKnownDevice`, `InStep` |
| `eeprom` | 4 bytes, blocks of 2, files that fill the EEPROM, are shorter and longer | `EepromTypeOK`, `AckedBytesProgrammed`, `ReadIsTrue`, `WriteIsTrue`, `VerifyIsTrue` |
| `files` | two directories, one of them with faulty sources; one damage of a file | `CreatorTypeOK`, `PathsAsStored`, `NoSilentPlain`, `BundleKeepsAddresses`, `FilesTypeOK`, `LoadedIsGenuine`, `PlausibleIsAccepted` |
| `tail_not_hashed` | `Programmer` with plain transfers | violated: `VerifiedIsWhole` |
| `stack_not_checked` | as `boot` | violated: `LaunchedAppIsPrepared` |
| `low_power_livelock` | as `boot`, 2 images | violated: `AnnouncedStartHappens` |
| `transmitter_stalls` | as `serial`, one byte value | violated: `TransmitterRuns` |
| `creator_assertion` | as `files` | violated: `ChecksumHasItsSize` |

Bounds of the device. Two pages and an image that begins in the middle of one
and crosses into the other give partial erases, overlapping images, a write
behind the end of an image, a write at the end of the flash and an entry point
refused below (`MCEntryPoints` 1) or above (4 with two half pages when the flash
ends at 6 leaves just room; blocks written beyond an image reach `EndBlock`).
`WaitTime` and `WaitCap` of at most 2 let the throttle be too early, on time and
saturated. In `MCBoot` one half page per image is enough: what matters there is
which image lies at the entry point, not how it got there. In `MCSerialPort` a
FIFO of two is soon full, empty and wrapped, and two values tell order and
duplicates apart; the proofs hold for every length and every set of bytes. The
number of resets, calls and updates is not bounded.

Bounds of the host. In `session` both images fill the flash, so that what is
left of one spoils the other and every block counts; two blocks make a first, a
next and a last one, and a CBC state to lose. `WireCap` 1 lets a request that
was given up wait behind the one being served. `MaxDepth` 2 nests one action in
another. Only opening a file is nested: it replaces the image under the update
and so decides which blocks exist (`SessionTypeOK`). The other properties except
an update in which any action began, and what nested actions do to the device is
covered by `SessionImplementsProgrammer`, which holds for every nesting.
`MCView` identifies states that differ in values nothing reads any more. In
`eeprom` writing is nested, the action that matters to `VerifyIsTrue`; files of
three, four and five bytes end in the middle of a block, at the end of the
EEPROM and behind it. In `files` segments of four addresses and lines of three
bytes make lines cross segments, and the last line is shorter; gaps lie in the
bootloader, in the application and between them. Addresses wrap at 32; one
application ends there, and devices are chosen with ends around the end of the
other one. The window names only the other one, to keep the settings few; image
files are made of both. One damage is enough to make a file inconsistent in
every field. `VIEW` leaves out the image and the bundle written last: no action
reads them, and their properties speak of the step that writes them. A damaged
checksum is `NoHash`, which is the checksum of nothing.

Fairness. `FairSpec` and `FairThrottleSpec` have weak fairness of `Continue`, the
next step of a call that has begun: the main loop is the only thread. No call of
the host, no flash error and no reset is fair. `FairBootSpec` has weak fairness of
`MainStep`, what `main()` does by itself. That includes the two timeouts, which
every call of the host postpones; the properties that depend on them
(`LaunchableIsLaunched`, `AnnouncedStartHappens`) therefore assume that from some
time on nobody disturbs the device, `<>[][~Disturbance]_bvars`.
`RecoverableByKey` assumes it too, since a device that is reset all the time gets
nowhere. `EveryCallEnds` and `UpdateRequestHonoured` assume nothing.
`FairSerialSpec` has weak fairness of a call that has begun, of the transmitter,
and of the interrupt handler, which the hardware enters as long as its interrupt
is pending; nobody is obliged to print. `SessionSpec`, `TransferSpec`,
`CreatorSpec` and `FilesSpec` state no fairness and no liveness: every call of the
host ends by its timeout, and what comes next is the user's decision.

## Disagreements found

* `programmer.c:210` ignores that `portFlashRead` refuses a size that is no
  multiple of 4, and hashes the chunk before a second time. An image whose rest
  repeats that chunk is verified though its last half page was never written;
  any other unaligned image can never be verified. The repository's README says
  that the hash verifies "the firmware binary inside the flash".
* `main.c:165` checks the application's stack address before `programmer_init`
  has read the entry point. It is still 0, where the bootloader itself is
  mapped, so that the check never fails and unprepared applications are
  launched.
* A low-power reset flag wins over the software reset with which the loop starts
  the application (`port_chip.c:132`). Without
  `BOOTLOADER_APP_STARTS_AFTER_POR_WITHOUT_WAITING` the device then announces
  the application, resets and waits again, for ever.
* `portSerialPutChar` tests the transmit FIFO before it disables the interrupts
  (`port_serial.c:106`). If the handler sends the last byte and then disables its
  interrupt between the test and the push, no later call enables it: the FIFO is
  not empty any more. The device receives, but never answers again.
* `on_btnCreateImage_clicked` writes an image whatever came of loading it
  (`imageCreator/project/src/mainwindow.cpp:186`, `firmwareencoder.cpp:83`). With
  a source missing and a bundle wanted the checksum is empty and the program
  ends in `assert(sha256.size() == CHECKSUM_SIZE)`.

More shows in the models and contradicts no text. On the device: with
`BOOTLOADER_BOOT_APP_USING_RESET 0` the loop jumps to firmware that was not
verified, and a device left alone with unverified firmware rewrites its
descriptor page twice in every 20 s. On the host:

* An action started in the middle of an update or of an EEPROM transfer, from the
  event loop `log()` runs, may erase the device, close its transfer or move its
  pointers; the outer action can then report success without being one. The
  properties of reports except it, by `alone`.
* An image whose last byte is at the last address of all has an end of 0: host
  (`flashresultdocumentation.cpp:433`) and device (`programmer.c:260`) both accept
  it wherever the flash ends, and the old firmware is erased for it.
  `PlausibleIsAccepted` says that this is the only kind.
* An update erases the device before it learns that the device does not decrypt
  or asks it to try again later.
* Loading a file that cannot be loaded leaves a report without results, which
  counts as a success of no image.
* Writing a file that is shorter or longer than the EEPROM stops at the end of
  either and is "done"; verifying a file that cannot be opened returns true.

In the creator:

* Where the key cannot be read the plain image is written, under an error
  message (`NoSilentPlain` is as much as can be said). The status line stays
  clear when only saving fails (`mainwindow.cpp:187` tests the wrong result).
* `InFront` pads one byte too many (`hexfile.cpp:92`), an overlapping part is
  reported and dropped (`:104`), and without the symbol the descriptor is put at
  address 0: `BundleKeepsAddresses` speaks of parts in ascending order.
* A missing symbol file makes an image fail that needs no bundle, and "cfk" is
  appended to the name of a key file without a dot.

## The proofs

All theorems hold for every set of images, every flash, FIFO and EEPROM size and
every configuration that satisfies the assumptions named in the modules: at
least one kind of transfer is allowed, pages are two half pages, an image has at
least one and is smaller than the address space, erased, garbage and programmed
half pages differ, an EEPROM address cut to 16 bits is its offset, a block of an
EEPROM transfer has at least one byte, addresses in hex files and symbol files are
natural numbers, a hex file that can be read has a last one, and those of an
application lie in the address space. The theorems about the host hold for every depth of nesting,
everything that may begin while something else runs, and every capacity of the
line; those about files for all contents of the directories, all keys, any number
of damages and all devices.

`ProgrammerProofs` rests on one inductive invariant, `IInv`. The safety
properties alone are not inductive, for they say nothing about a call that is
under way. `SavePart` says that a verdict about to be saved is true, that the
descriptor of a new transfer is unverified, and what each step of a save has
left in the page; `ErasePart` says that the application is erased only after the
descriptor, and how far; `RestPart` ties `job` and the open transfer to `pc`.
From `IInv` follow `TypeCorrect`, `VerifiedAlwaysIntact`,
`OpenTransferAlwaysUnverified`, `CacheAlwaysCoherent`, and, by looking at which
steps change the flash (`FlashStep`) and the descriptor page (`StoredChange`),
`AlwaysFrozenWhileVerified`, `EraseOKAlwaysBlank`, `VerdictAlwaysPersisted` and
the refinement `RefinesCertifiedFlash`. `AckedAlwaysProgrammed` adds where the
write pointer waits while a transfer is opened.

`AESThrottleProofs` adds `Honest`: the counter claims no more seconds than have
passed, except while an accepted transfer is being saved. `BootProofs` shows
that every step of `Boot` is a step of `Programmer` or leaves it alone, so that
`IInv` carries over, and adds what `main()` knows where: the answer of the quick
verification is the persisted verdict, the RAM of the programmer is lost when
the application runs, no descriptor that was verified is erased before the loop.
`LaunchesOnlyVerified` and `BootingKeepsVerdict` assume `UsingReset`; the first
is false without it.

`SerialPortProofs` first proves of the ring buffer, for every length, that
`fifo_push` appends to its contents and `fifo_pop` takes from their front
(`PushAppends`, `PopTakes`; the index arithmetic is `ModOnce`), and that storing
a byte in the next free slot is invisible until it is counted. `SInv` says what
the main loop knows at each step of a call. From both follow the refinements
`TxImplementsQueue` and `RxImplementsQueue`, where the receive FIFO is seen as
the handler must see it while a `fifo_pop` is half done (`RxFifo`), and
`ReceivedAlwaysKept`.

`SerialTypeCorrect` follows from the same invariant.

`EepromProofs` proves `EInv` of the device: while a block is written, the bytes in
front of the position are in the EEPROM at the addresses the pointer means
(`NarrowIsOffset`: the address cut to 16 bits is the pointer's). From it follow
`EepromTypeCorrect` and `EepromAckedProgrammed`. `TransferInvariant` carries it to
`EepromTransfer`: whatever host and line do, the device takes its own steps with
a block, a size or a content of the right type, so that `TransferTypeCorrect` and
`TransferAckedProgrammed` hold there too.

That a success reported by the host is one needs more, `XInv`, because a request the
host has given up may be carried out later. At most one request is not given up,
the last one, and it is what the running action asks (`LiveInv`); what the device
returned is the result of what it serves (`ServingInv`). While an undisturbed
action reads or writes blocks (`LoopInv`) nobody else has anything on the line
(`AloneOnLine`: the erase or the opening of the transfer was answered, and the
device takes requests in order, so all that came before is done), what
was moved so far agrees with the EEPROM (`MovedAgrees`), the device's pointer is
not behind it (`PointerBehind`), and a block answered with success lies where the
next one begins (`DoneIfOK`). From it follow `ReadReportIsTrue`,
`WriteReportIsTrue` and `VerifyReportIsTrue`.

`UpdateSessionProofs` needs of the line only that what is under way names images
and blocks that exist (`Sent`), and shows that every step of the session is a step
of `Programmer` or leaves it alone (`SessionStepIsStep`). So
`SessionImplementsProgrammer`, and with it every theorem about the programmer,
holds at the other end of the line; `SessionVerifiedIntact` is one of them.
`SessionErasesOnlyKnownDevice` follows what an undisturbed update knows of its
device from question to question (`KnownOf`) and uses that descriptors of zeros
make every image implausible (`UnknownIsImplausible`), which in turn needs sizes
that do not wrap.

`UpdateInvariant` is the invariant of the update itself, of which `ReportIsTrue` and
`InStep` alone are far from inductive. `LivePart` and `ServingPart` are as in the
EEPROM transfer: a call that succeeds was carried out by the handler of just that
request, and `job`, the descriptor in RAM and the result belong to what is served. An
undisturbed update has the image that is loaded (`UpdatePart`). From the moment its
transfer is open until the verdict (`SendPart`) nobody else is on the line; every
descriptor the device has or may be saving is that of the update or none
(`OfTop`), so that even a reset and the verification of the next start
cannot bring another image; and an open transfer expects the next block, with the
CBC state behind the last one (`BlockPart`). Then `ReportPart` holds until the
report is saved: the verdict is persisted, nothing is under way, and a device that
starts up trusts the verdict without writing. The theorems are `SessionInStep` and
`SessionReportIsTrue`.

`ImageCreatorProofs` shows that the paths of the settings object follow its file
through every load and save (`CreatorInv`, with the Save button enabled only over a
file that exists), and, of the step that writes an image, that
encryption that was asked for and not complained of has taken place. It also proves
what a hex file is: any binary, dumped from any address with lines and segments of
any length, is read back byte for byte (`FileReadsBack`). The proof goes line by line
(`DumpedLine`: the upper half of the address that was last set is that of the line
before) and is an induction over a set of numbers (`FromOne`), which needs no
induction theorem with an operator as a parameter; `FlattenSteps` justifies the
recursive function inside `FlattenSeq` in the same way. `BundledBytes` says where the
bytes of bootloader, descriptor and application end up in the binary, and
`BundlesKeepAddresses` puts both together.

`ImageFilesProofs` keeps in `FilesInv` that the checksum of the file on disk, however
it was damaged, is that of an image a creator has made or of nothing. An image that
loads as consistent has the checksum of the fields that were read, so that they are a
creator's (`ConsistentImageIsGenuine`), although fields that could not be read were
left over from the image before. `PlausibleImageIsAccepted` is arithmetic: an image
of a creator ends within the address space (`CreatorImagesFit`), hence its end wraps
only to 0.

Only model-checked: the liveness properties, which are out of the prover's reach
(`RecoverableByKey`, `UpdateRequestHonoured`, `LaunchableIsLaunched`,
`InterruptQuiets`, `EveryCallEnds`). Every other property of a passing run is stated
by a theorem. The `boot` run has `PORWithoutWaiting` false;
`LaunchesOnlyVerified` and `BootingKeepsVerdict` cover the configuration of the
example, where it is true.

## What is not modelled

* `programmerReadBlock` and its handler: the host's only call is compiled out
  (`bootloader.cpp:229`).
* `bootloaderrunner.cpp` (the update from the command line: the same calls
  without nested actions), the options dialog, the settings of the host, the
  layout of the XML report and the placeholders of its name. Two slips there are
  formatting: `gitdate_unix` is written with the git hash
  (`flashresultdocumentation.cpp:117`), and two warnings share a short name
  (`:595`).
* The frames of the line: `channel_codec` is a submodule and not in the
  repository. What it is used for, a message that arrives or does not, is in
  `UpdateSession` and `EepromTransfer`.
* The length of timeouts, and that the one of 20 s set before an erase is never
  restored.
* Hashes, CRCs and encryption, which are third-party code; equal sums mean equal
  contents.
* Disks that refuse to be written, and a start of the creator without any
  settings file.
* LEDs and printing, read protection, device ids, vendor start-up code, and the
  widgets of the two Qt programs.
