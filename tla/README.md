# Pinscape Pico: verified models

This directory holds TLA+ models of the Pinscape Pico firmware and of the part of
its Windows library that talks to it, the TLC configurations that check them, and
proofs that TLAPS checks.  Source paths below are relative to the repository.

    tlc -config MCFlashFile_crash.cfg MCFlashFile      # model-check one instance
    tlapm FlashFile_proofs.tla                         # check the proofs

`PROJECT.json` is the index: the runs with their properties, the lines of code that
each definition stands for (`map`), a plausible mistake for each property that TLC
finds (`mutants`), the disagreements between code and documents (`findings`), and
the hazards of the code with the properties that cover them.

## 1. The system

A Raspberry Pi Pico is the I/O controller of a virtual pinball cabinet.  The
firmware (`Firmware/`) is one program with a main loop (`Main.cpp:700-780`) that calls
the task of every component in turn; interrupt handlers serve I2C, infrared, DMA
and USB, and the second core polls the buttons.  There is no operating system: what one
task delays, all delay, and a watchdog resets a loop that stalls.  The Windows side
(`WinAPI/`, the configuration tools) sends requests over a USB vendor interface.

| component | state | operations | interacts with | hard behaviour | correct means |
|---|---|---|---|---|---|
| Flash storage, files (`FlashStorage.cpp`) | the block of a file: a chain of copies, each a header and data; one write handle with a page buffer | OpenRead, OpenWrite, WriteFile, CloseWrite, Remove | Config, Plunger, Nudge; the second core must halt for each flash operation | power or watchdog cut an erase or a program operation; a flash operation times out | the last completed save is what is read; earlier copies are spared until the new header is in |
| Flash storage, directory | directory sector; sector map, low-water mark and next sequence number in RAM | Mount, Format, FindFileEntry, InitFileEntry, RebuildCentralDirectory, Remove | files | crash between blanking an old entry and writing the new; a full directory or flash | blocks are disjoint, names unique, saved files found after any restart |
| Configuration store and transfer (`Config.cpp`, `VendorIfc.cpp`, `WinAPI/PinscapeVendorInterface.cpp`) | host: operation, page, attempt; device: request whose data is awaited, last page, checksum, write handle, read cache | PUT page by page with retries, GET, EXISTS, ERASE, FACTORY RESET | flash storage, USB | lost requests and replies, late replies, abandoned transfers, device reset in the middle | no mixture of transfers is ever accepted; OK means stored; a transfer can always be started again |
| Boot modes and reset locks (`Main.cpp`, `Reset.cpp`, `FaultHandler.cpp`) | boot mode in the watchdog's scratch registers, pending reset, locks | boot, watchdog reset, hard fault, reset by host, button or console | every component; TV-ON holds the lock | a crash at any point, a reset put off | a configuration that crashes is left behind; a reset that was put off takes place |
| TV-ON sequencer (`TVON.cpp`) | state, latch and SET pin, relay, index of the infrared command; state stashed in scratch registers | Task | infrared transmitter, reset lock | reset in the middle of the sequence, power that comes and goes | one relay pulse per power-on; no requested reset in the middle |
| Output ports (`Outputs.cpp`) | host and LedWiz level, computed source, flipper-logic state and timers, claims of share groups, suspension | Set, LedWiz SBA and PBA, AllOff, Task, Suspend/Resume | Night Mode, USB, device drivers | timer expiry against level changes, group ports that reach for one physical port, suspension in between | no solenoid stays at full power, or comes back to it too soon; a claim is held by one group port and ends |
| Buttons (`Buttons.cpp`) | debounced and logical state, shift state, action state | SecondCorePoll, Poll of each type, actions | second core, keyboard, infrared, resets | two cores; shift released before the shifted button; pulses that overlap presses | actions go on and off in turn, and end |
| I2C bus manager (`I2C.cpp`) | current device, transfer state, consecutive timeouts | UnitTask, interrupt handler, BusClear | some fifteen device drivers | interrupt between any two steps of the task, late interrupt after a timeout, wedged bus | a completion reaches the device that asked; every device has its turn |
| Plunger, ZBLaunch | calibration, firing state, launch button | Task | sensors, gamepad, flash storage | mode change while the button is held | a pull and release is one launch |
| Infrared transmitter, receiver | command queue, running flag, protocol state | QueueCommand, timer interrupt | TV-ON, buttons | interrupt and main loop on one queue | no command is lost, order is kept |
| USB interface, reports | report queues, suspended flag | callbacks, Task | everything that reports | suspend and resume, host that does not poll | no key left down |
| Feedback controller, LedWiz | mode, pending replies | reports in and out | outputs | replies among status reports | every query answered |
| Logger, console | ring buffers | write, read | USB CDC, UART | readers at different speeds, buffer resized | a reader gets the most recent text |
| PWM worker (`PWMWorker/`) | registers behind I2C | I2C register protocol | output drivers | worker reset | outputs go off when the host is lost |
| Clock, time ranges, JSON, device drivers, status lights, tools | | | | mostly sequential or numerical | |

`PROJECT.json` lists all of these, with the reason for each one that is not modelled.

## 2. The modules

| module | models | extends / composes |
|---|---|---|
| `StoredFile` | abstract: what the file system promises of one file | implemented by `FlashFile` |
| `FlashFile` | one file's block, word by word, one flash operation per step | `INSTANCE StoredFile WITH ...` |
| `FlashFile_proofs` | theorems about `FlashFile` | extends it |
| `FlashDirectory` | the central directory and block allocation | |
| `FlashDirectory_proofs` | theorems about `FlashDirectory` | extends it |
| `ConfigTransfer` | host, USB pipe, request handling, SavePage, read cache | sees a file as `StoredFile` does |
| `ConfigTransfer_proofs` | theorems about `ConfigTransfer` | extends it |
| `TVOn` | the TV-ON state machine with the external latch | |
| `Restart` | main loop, boot modes, resets, crashes | extends `TVOn`, whose lock it obeys |
| `Restart_proofs` | theorems about `Restart` and `TVOn` | extends `Restart` |
| `Outputs` | output ports, share groups, suspension, Night Mode | |
| `Outputs_proofs` | theorems about `Outputs` | extends it |
| `I2CBus` | one I2C bus: task, interrupt handler, drivers, controller | |
| `I2CBus_proofs` | theorems about `I2CBus` | extends it |
| `IRTransmit` | the infrared transmitter's queue and thread with its users | the transmitter that `TVOn` waits for |
| `IRTransmit_proofs` | theorems about `IRTransmit` | extends it |
| `Buttons` | debouncers on the second core, logical buttons on the main core | |
| `Buttons_proofs` | theorems about `Buttons` | extends it |
| `MC*` | instances for TLC | |

A definition named `D_Xxx` or `Xxx_Mistake` stands before the definition `Xxx` and is `Xxx`
with a mistake a programmer could make; it is used by nothing but the entry in `mutants`.

### FlashFile

`flash` is the block as an array of 4-byte words.  Erasing sets a sector to `FF`,
programming takes bits from 1 to 0 (`Burn`): programming a word that is not erased
with another value yields `Torn`.  `OpenRead` follows the chain of headers as
`GetFileStream` does and compares the CRC.  A save is `Save` (OpenWrite's decision:
append at the end of the chain; put a dirty sector back first; or start the block
anew), then `WriteFile` and the flushes of WriteHandle::Flush, then `CloseErase` and
`CloseHeader` of CloseWrite.  `pc` says which flash operation is next.
`CrashInErase` and `CrashInProgram` leave any mixture of done and undone words.  A
`...Timeout` action is a flash operation that fails because the second core was not
halted in time.  `kept` is a ghost: what the file system owes the reader.

`Exposed` names the two windows in which the only copy is being rewritten: the block
is full and starts anew, or the sector of the append point is put back.  Outside of them
`Durable` demands the last saved content exactly.  `StoredFile` has the same
windows in four phases, and `ImplementsStoredFile` is the refinement.

CRC-32 is taken to be free of collisions.  `Undeclared` counts words that a caller
writes beyond the size it passed to OpenWrite: Config.cpp does that, with its
CRC word.

### FlashDirectory

Entries in a sector of `Slots`; blocks are sets of data sectors, allocated
downwards.  One OpenWrite is `OpenWrite`, `Find...`, `Replace`, `Create`, `SaveData`,
one flash operation per step, with `RebuildErase` and `RebuildWrite` for a full
directory.  What is in a block is one token per sector.  A format programs the first page
of the directory, with `PageSlots` entries.  `excused` is a ghost: since the last format a
directory write was cut off (`cut`) or failed (`skipped`), the directory was rebuilt
(`rebuilt`), or a format failed and left the store mounted over old entries with an empty
sector map (`unformatted`); after each of the first three the next mount finds a wrong
sequence number or CRC and formats the file system.  `KeptReadable` therefore says that
these are the only ways to lose a file.  The rebuild is one of them even when it
completes: the reclaimed entries have no CRC, and Mount (`FlashStorage.cpp:414-421`)
wants one of every entry that is not replaced.

`InitFileEntry`'s search for free sectors above the low-water mark (`Runs`) is modelled and
never succeeds, though `FlashStorage.h:346-349` describes it as the way to reclaim
fragmented space: sectors become free in a rebuild, a rebuild happens when no entry is erased,
and after it a new file takes a reclaimed entry, for which OpenWrite allocates
nothing (`FindReclaimed`).

### ConfigTransfer

The host's `PutConfig` loop (START OF FILE, pages, up to five attempts for each, one
reply per request, `ERR_RETRY_OK` accepted for an attempt after the first) is `StartPut`,
`HostAccepts`, `HostRejects`, `HostTimeout`; `HostDies` abandons an operation at any
point.  `wire` is the OUT pipe: requests the host gave up stay on it and are processed
later; their replies carry an old token and are dropped (`fresh`).  `Lose` drops a
request or its data, `ReceiveAsData` takes the next request for the missing data,
`CancelRequest` is the request timeout.  The device's checks of order, repetition and CRC are in
`ProcessPutConfig`'s order.  `SavePage` is one step, and its possible failures
are those of the flash operations; a crash inside is `DeviceReset` between steps, and what
a crash within a save does is `FlashFile`'s subject.  One failure SavePage does not report:
OpenWrite erases a dirty sector, cannot put it back and goes on (`FlashStorage.cpp:886-890`,
the finding of `flashfile_readback`).  `Damaged` has its outcomes: the chain of headers survives, or
the handle is "lost" and what it writes is behind an erased header, so that readers get what
is left of the file (`Remnants`).

`SetDelay` is the console's `devtest --config-put-timeout` (`Main.cpp:1222`), with which a PUT is
answered with OK and nothing is stored (`PutDelayed`, `VendorIfc.cpp:1315-1331`).  It is
switched between two transfers only (`prevPage = SOF`).  `unsaved` is a ghost: pages of the
last file received were answered with OK and are not where its reader looks, either way.

### TVOn and Restart

`TVOn` has one action per state of `TVON::Task`; each ends in `To(s)`, which
stashes the state in the scratch registers and sets or clears the reset lock as the end
of Task does.  Time is abstract: a state that waits may go on or not (`NotYet`), and
`timed` remembers whether this session has set the time that the state waits for,
because a state restored by a watchdog reset has none and goes on at once.

`Restart` steps through the main loop in its order: `picoReset.Task`, the USB task with its
deferred reset command, buttons, TV-ON, the end of the loop with the safe
time.  A hang or a hard fault can come before any of them, a power cycle always.
Task is atomic with respect to crashes, because it does not block.  Boot follows
`Main.cpp:239-262`.  `hungIn` and `asked` are ghosts: if the session before was ended by the
watchdog within the safe time, its mode, and the mode of a reset that a lock was putting off then.

### Outputs

`port[p]` is a Port object: the level the host gave it (`dof`) and its LedWiz state (`lw`), the
logical level (`log`), the flipper logic (`state`, `cutoff`, `cool`) and what the device was
told last (`out`).  `Set`, `SetSBA` and `SetPBA` are the host's commands, `Task` and `TaskStep` the
manager's task with Port::Task, and `Apply`, `Rearmed` and `SetLogicalLevel` the functions they
have in common.  A group port's device is a ShareGroupDev (`group`): `GroupSet` is its Set, with
the claim of a pool port at the rising edge and the pulses at both edges, and `Passed` is a
level change with everything that follows at the pool port.  The loops over the ports (`OffStep`,
`ZeroStep`, `TaskStep`) take one port a step, because a group port changes a port that the
loop has passed or will come to; time stands still in a loop.  A stored point in time is the
time left until then; a wave form of the LedWiz is any level at any time.
`hotFor`, `coolFor` and `heldFor` are ghosts: for how long a port has been above its power limit
or not, and a group port has held its claim.  The main loop comes around every `LoopTime` ticks.

### I2CBus

`pc` is the point UnitTask has come to, between the looks that it takes at `busAbort`, `busStop`
and the clock; `Complete`, `Nack` and `LateStop` are the interrupt handler, and can come
at every such point.  `line` is the transfer in the controller, `tail` a STOP that is
still to come of a transfer that was aborted or given up.  The drivers are modelled by what they
give the bus to do: `PCA9555` and `PCA9685` write the registers that differ from what was recorded
as sent, `LIS3DH` reads status, axes and temperature, the axes from the interrupt handler.
`Wedge` is a device that holds SDA low; only `BusClear` ends it.  `fault` is a ghost for what
has gone wrong so far.  The code credits a late STOP, and a STOP behind an abort that arrives
between its two looks (`I2C.cpp:684`, `705`), to the device that has the bus then; from such an
event on `fault` is "mixed" and CompletionsAreOwn and DmaNotReprogrammed say nothing.  They
do speak of all the other failures: missing acknowledgements, timeouts, clearing in
the middle of a transfer.

### IRTransmit

The ring buffer with its two indexes, `running` (txRunning) and the alarms of the timer.
QueueCommand is `Queue`, `Write`, `TXStart`, `FirstStep`, `AddAlarm`, and TXThread, from the alarm,
comes between any two of them.  A repetition of a code is one step (`Repeat`) that ends with all of TxEnd: it increases
repeatNumber (`rep`) and repeatPhase (`phase`), both of eight bits, looks at them and at the button, and
when the code is to be repeated CodeToBitstream may rewrite the phase.  `phases` is how a protocol
does that: "counted" (not at all, the most of them), "paired" (Denon, TCL Roku, extended Pioneer codes:
back to 0 when a new pair starts) or "closed" (OrtekMCE: 1 while the button is held, 2 for the
repetition that closes the sequence).  A count n gives n sends of a counted protocol or its
minimum, n or n + 1 of a paired one, whichever is even, and n + 1 of a closed one.  The users are the
host, a button whose command follows it (`Press`, `Release`) and the TV-ON sequencer, which
waits for IsBusy to be false before (`TVWaiting`) and for the thread to end after (`TVSending`) its
command.  Commands in the buffer have numbers, as ghosts, to tell them apart.

### Buttons

The second core runs one `SecondCorePoll` at a time for any of the buttons, the main core one Poll a
step in the order of the configuration (`Task`), and pins move at any time.  `PushPoll`, `TogglePoll`,
`HoldPoll`, `PulsePoll` and `ShiftPoll` are Poll of the five types; they call `Call` for the
actions that go on or off.  A time stamp is its age, counted as far as it is compared.
`act` and `repeated` are ghosts: which actions are on by what they were told, and which
were told the same twice.  The shift logic is one shift button's bit with any mask of the others.

## 3. What is checked

| run | instance | shows |
|---|---|---|
| `flashfile_crash` | pages of 2 words, 3 pages a sector, 2 sectors; 2 contents of 1 or 3 words; 3 saves, 2 crashes | durability outside the exposed windows, no word programmed twice, appends spare older copies, refinement of `StoredFile` |
| `flashfile_live` | one content of 1 or 4 words plus 3 undeclared; 3 saves, 1 crash, 2 timeouts | every save ends, whatever times out |
| `flashdirectory` | 2 names, blocks of 1 or 2 sectors, 4 sectors, 4 entries; 4 saves, 1 crash, 1 failed write, 1 factory reset | allocation, names, and which events lose files |
| `config_transfer` | two files, texts that share their first page and an empty one; 2 operations, 2 faults, 1 device reset, 3 attempts a page; debug mode on and off at will | no mixed text is ever valid, OK means stored but for the three exceptions that PutOkStored names, a transfer can be repeated until it ends |
| `restart` | 2 infrared commands in Normal Mode, none in Safe Mode, no sequencer in Factory Mode; no bound on crashes, resets or power cycles | boot modes, one relay pulse, lock, pending resets |
| `outputs` | one pool port with time limit 1, cooling-off 2, power limit 1 and Night Mode; a pulsed group port set by host and LedWiz, a computed group port; levels 0..2 | power limit, duty limit, claims, pulses, suspension, Night Mode |
| `i2c` | a PCA9555 and a LIS3DH; the bus is cleared after 2 timeouts in a row; no bound on faults | completions, DMA, turns of the devices, end of a wedge |
| `ir` | buffer of 3 slots, counters modulo 5; a paired command with a count of 3, a closed one with 2, one of an unknown protocol, a held button with a closed one, TV-ON's counted one with at least 2 repetitions | one thread, order, repeats, TV-ON waits, the queue moves |
| `buttons` | a shift button wired to ground and a button of each other type with and without shift; low-pass filter for one edge only; all times 1 tick | actions alternate and end, shift or own action, debouncer settles |

The bounds are large enough for what the code distinguishes. In `FlashFile` a copy with its
header ends in a page's middle, at a page's end, at a sector's end and at the block's end;
the third save meets the remains of two interrupted ones, one in the append position and one
before. In `FlashDirectory` four saves of two names fill four entries and four sectors, so
that the last save has to be refused, to reclaim or to rebuild. In `ConfigTransfer` two
faults suffice to lose a request's data and a reply in one transfer, and two operations to
have one abandoned before another; a third attempt for a page adds no state of the device
that the second has not. `Restart` is finite without bounds, and so are the four modules
that follow: nothing is counted in them but time and repetitions. In `Outputs` time limit
and pulses are as long as a turn of the main loop may be and the cooling-off time spans two,
so that every timer can be over before, at and after a turn; one pool port makes the two
group ports compete; the three levels are off, at the power limit and above. In `I2CBus` a
chip and a sensor show the recorded registers and the chained reads, and compete for the
bus; `i2c_reinit` takes all three kinds. In `IRTransmit` two commands fill the buffer, and
indexes and counters wrap. In `Buttons` each Poll is run against the shift button's; two
buttons without a shift button between them have no state in common. Symmetry is used for
the contents and names, which the code only compares; never in a liveness run.

Deadlock is not checked where the bounds stop the model (`CHECK_DEADLOCK FALSE`): there the
operations are used up.  The other modules are checked for it.

### Fairness

* `FlashFile`: `WF(Step)`.  A save runs on the main loop and waits for nothing.
  No fairness for starting saves or for crashes.
* `ConfigTransfer`: the main loop polls the pipe, the request timeout is
  checked in the same loop, SendRequest returns after its 3 s timeout, and the
  user saves again after a failure.  Faults are bounded, so losses end.
* `Restart`: weak fairness of the main loop.  Strong fairness of carrying out the deferred
  command (its reply is sent at last) and of TV-ON's progress (its times
  come).  Strong fairness of `IRIdle` at TV-ON's turn: the transmitter is free again and
  again when the task looks.  A button that is held and repeats a command
  defeats this, and a reset is then put off for as long.  `ir` shows the other half: without such a
  button the queue moves on.
* `I2CBus`: weak fairness of UnitTask, which the main loop calls, and of the clock
  (`Expire`, `Rest`, `SampleDue`).  None of the controller: a transfer may hang, and TurnComes
  and WedgeEnds hold because of the timeouts.
* `IRTransmit`: weak fairness of the timer interrupt and of QueueCommand's own steps.
* `Buttons`: weak fairness of each SecondCorePoll, of Task and of the clock.  None of the pins.
* `Outputs` states no fairness: that its deadlines are met is said by counting time.

### Disagreements with documents and comments

Each is a run with `expect: violation`, and a finding:

1. `flashfile_readback`: the status of putting a dirty sector back is ignored; when it fails
   the save reports success and nothing can be read.
2. `restart_factory`: the request to restart in Factory Mode is accepted and dropped.
3. `i2c_reinit`: after a bus clear a PCA9555 has all its ports as inputs, while the driver still
   records them as outputs, and never sends the direction again.

### Observed, without a run of its own

What the models do because the code does; the properties are stated so that they allow it.

* After a failed flush CloseWrite still writes a header, with the CRC of what is in flash: a
  truncated file opens as good (`FlashStorage.cpp:1153`).
* A flush that timed out leaves the write offset where it was, which in append mode can be the
  start of the sector with the end of the previous copy.  CloseWrite takes that for a stream that
  ends on the sector boundary and erases the sector (`FlashStorage.cpp:1138`): the save reports
  its failure, and the last good copy is gone as well.  AppendSparesExisting is violated so with
  pages of 4 words, 2 pages a sector, contents of 1 and 7 words and one timeout, without a crash.
* A failed write of a new directory entry uses up a sequence number, and the next mount formats
  the store (`FlashStorage.cpp:1033`).
* PutConfig returns OK for a file that is not stored in three cases, which PutOkStored names.  The put-back
  that OpenWrite does not check has failed: pages and CRC are written behind an erased header, and
  every later write reports success (finding 1 as the host sees it).  The debug mode of
  `VendorIfc.cpp:1315` is on.  The text is empty: only START OF FILE is sent
  (`PinscapeVendorInterface.cpp:983-1062`), and the file keeps its old text.
* With the debug mode switched on or off within a transfer (`Main.cpp:1231`) later pages could go to a
  handle that an abandoned transfer left open, for another file even; the model does not switch it
  then.
* A factory reset leaves Config's read cache, so that EXISTS and GET answer as before
  (`Config.cpp:424`).
* The first page of one configuration file completes an abandoned transfer of the other
  (`Config.cpp:331`).
* A hard fault in Safe Mode boots into Safe Mode again (`FaultHandler.cpp:233`).
* A reset that the TV-ON lock puts off has its boot mode stored at once (`Reset.cpp:85`), over the Safe
  Mode that startup had stored.  If the session hangs before the lock goes, the next one has the
  mode that was asked for: after a request for Normal Mode, the configuration that hung.
  HungConfigNotReloaded states it so.
* A suspension can start, or set again, the pulse of a falling edge on a pool port that its
  loop has passed (`Outputs.cpp:932`, `2498`); and when it ends, levels that were set
  meanwhile on ports without a source are not applied (`Outputs.cpp:949-957`).
* The infrared thread ends at a command whose protocol it does not know, and the commands
  behind it wait for the next one that is queued (`IRTransmitter.cpp:320`).
* The repetitions of an infrared code are counted in eight bits, and TV-ON's configuration takes any
  count (`TVON.cpp:202`): with more than 256 the code is repeated for ever (with 256 as well when
  its protocol only counts, as repeatPhase is back at 0 then, below TxMinReps).
* Two logical buttons on one pin, one for each state of the shift button, may both act on one
  press, when shift changes between their polls: MatchShiftState looks at it anew for each.

## 4. What is proved

Eight `*_proofs` modules prove every safety property of the passing runs, invariants and action
properties alike, and the refinement `ImplementsStoredFile`, for every value of the constants
that satisfies the named assumptions of the model (`FlashAssumption`, `CallerAssumption`,
`DirectoryAssumption`, `TransferAssumption`, `SectionsAssumption`, `OutputsAssumption`,
`I2CAssumption`, `IRAssumption`, `ButtonsAssumption`).  These only say that sizes and times are
numbers of the right range and that names differ; where one excludes something the code
accepts, it is named below.  The theorems of `FlashFile` beyond its types have hypotheses of
their own.

### FlashFile

| theorem | states | under |
|---|---|---|
| `TypeInvariant` | TypeOK | |
| `AppendedCopyFits` | NoOverrun | `Undeclared = 0` |
| `AppendKeepsOldCopies` | AppendSparesExisting | `MaxTimeouts = 0` |
| `GoodReadsWereSaved` | ReadableWasSaved | `MaxTimeouts = 0` |
| `ErasedWordsAreProgrammed` | ProgramsErasedOnly | `MaxTimeouts = 0` |
| `ReadersGetTheLastSave` | Durable | `MaxTimeouts = 0` |
| `BlockIsAStoredFile` | ImplementsStoredFile | `MaxTimeouts = 0` |
| `SuccessIsReadBack` | SuccessIsReadable | `MaxTimeouts = 0` |

`Undeclared = 0` says that callers declare the size of what they save, `MaxTimeouts = 0` that the
second core halts in time for every flash operation; any number of saves, removals and crashes
is left.  No theorem takes both.

`MaxTimeouts = 0` is needed for every theorem that assumes it; TLC finds each of the six violated on
small instances with timeouts.  A flush that timed out leaves the cursor behind, so that a later
erase hits the sector of older copies (see "observed" in section 3); and with a dirty sector that was
not put back a save succeeds that cannot be read, which is what `flashfile_readback` shows and
`SuccessIsReadBack` narrows down to timeouts.

`Undeclared = 0` is needed for NoOverrun: SaveConfig's CRC word goes beyond what OpenWrite checked
the room for, so that the last flush can be refused.  The other theorems cover that case.
CloseWrite then writes a header whose size does not fit in the block, and the file cannot be
read: the save fails and takes the old content with it, which to `StoredFile` is a crash.

The argument has four layers, each inductive with those before it.

1. *Room.*  NoOverrun is not inductive.  `RoomOK`: what remains to be written of an appended copy
   fits; OpenWrite's check establishes it, and each word moves from the job to the buffer to flash.
   `CursorOK`: where the buffer stands relative to the header, and that the words before the
   header in the buffer are erased ones, which program nothing.  `CloseOK`: the sector that
   CloseWrite erases lies behind the header.  No step then disturbs the words before the append
   point.  Where the size was not declared, `AlignedOK` takes RoomOK's place: a page that Flush
   refuses starts behind the block, because page and block ends coincide.
2. *The scan.*  The chain of headers is a recursive function on addresses.  It exists
   (`ScanExists`), ends in the block (`ScanEnd`), goes on from a header as from the block's start
   (`ScanFollows`), and gives the same on two blocks that agree up to where it ends
   (`ChainStable`).  These are inductions on the distance to the end of the block.  The library's
   induction theorems are no use here, because they take an operator; the least counterexample
   does the same work (`LeastExists`, from the well-foundedness of the naturals).
3. *The copy.*  `CopyInv`: what is in flash, in the buffer and still to be written is, one after the
   other, the content being saved, and the words beyond it in the sector are erased; or a page was
   refused, and the block is full up to its end.  `WrittenOK`: the words behind the header when
   it is programmed are the whole content (`Whole`), or the size in the header does not fit
   (`Refused`).  `SoundOK`: a CRC behind a size that fits is the CRC of a content some save meant, also
   in a dirty sector whose RAM copy is put back and after any cut of an erase or a program
   operation.  Such a cut only weakens words (`Weaker`): it makes no size fit that did not.
   Together `SaveInv`: a good CRC means a whole copy.
4. *The reader.*  `ReadOK`: whoever reads between two saves gets what is owed, and so does a reader
   during an append; while a dirty sector is put back, flash together with the words in RAM makes
   up what is owed.  The refinement takes the same invariant: one lemma for each kind of step says
   that it is a stutter of `StoredFile` or its step.

### FlashDirectory

`TypeInvariant`; `NamesAreUnique`; `BlocksNeverOverlap` (BlocksDisjoint); `SavedFilesAreFound`
(KeptReadable), for any number of saves, crashes, failed operations and factory resets.

1. `Basic` (`DirectoryIsSound`): what entries a program can have left behind, also after a cut, that
   no two of them have one name, and what the operation under way knows of its entry.
2. `SpaceOK` (`SpaceInvariant`), unless a directory write was cut or a format failed: entries are in
   a row, their blocks apart, no block lies under the low-water mark, and the sector map covers
   all blocks *as long as an entry is free*.  The last condition came out of the proof: a rebuild
   that fails has cleared the sectors of entries that are still there.
3. `Kept` (`KeptInvariant`): until a directory write fails the directory is `WellFormed`, as Mount
   demands, and the next sequence number is the next entry; where a mount may format, nothing
   is owed; and what is owed to a name is in its block.

That a failed format is an excuse of its own (`unformatted`) was found by the proof of
layer 2: the store stays mounted over the old entries with a cleared sector map.

### ConfigTransfer

`TypeInvariant`; `ValidFilesWereSent` (ValidWasSent); `GoodPutIsStored` (PutOkStored);
`OtherFilesAreKept` (OtherFilesKept).  The device tells transfers apart by the next page number
alone, and it is the pipe's order that makes this enough.  `Inv` says: of the requests in the
queue only the last is awaited, and a page is preceded by nothing but pages of its own file
(`OrderOK`); the queue is at most one longer than the faults so far; while the host sends pages, the queue
holds only attempts for the current page (`MatchOK`), because the reply to START OF FILE means that
all before it has been processed; and the checksum is over what the open handle has written, of the file the
host is sending, unless the debug mode is on (`DataOK`).  GoodPutIsStored needs one more part of
DataOK, `Storing`: the handle will store what it is given, or it is lost and `unsaved` says so.
Each change of the queue has a lemma of its own (`QueueSend`, `QueueTake`, `QueueDrop` and
others).  TransferAssumption admits empty texts.

### Restart and TVOn

`TypeInvariant`; `HungConfigurationLeftBehind`, by `BootInv`: the register
holds the next degree while a session is neither stable nor asked to reset,
and at the start of a session after a hang it holds the next degree of the mode that hung, or the mode
of the reset that was being put off.  `RelayOnce`, by `FiredInv`: once
the relay has gone on, the latch stays set while there is power, and both the live state and
the stashed one are past the countdown, or the boot state, which the latch sends past it.
`SequenceUninterrupted`, by `LockInv`: after the first call of a session the lock is set
in every state but the two stable ones.  All hold for any assignment of sections
to boot modes (`SectionsAssumption`), which is why a state restored into another
mode's configuration is covered.  The condition `first` in `SequenceNotInterrupted` is
the code's: between the restart and TV-ON's first call no lock is set, though a
restored sequence may be under way.

### Outputs

From OutputsAssumption the proofs need that a pool port is a port and no group port, and that a
group port has no time limit.  `TypeInvariant`
shows `Sound`: TypeOK, and for each port `PortOK`, that the flipper logic fits the level: a port
with a time limit that is Ready has a logical level within the power limit, the time left is at most the
limit, and the device was told no more than the logical level.
`SetLevelOK` and `PortTaskOK` say what SetLogicalLevel and Port::Task do to one port, once,
as the relation `Effect`; `PassedOK` and `PortStepOK` carry it over to a step in which a group port
reaches into a pool port.

* `CoolingTimeKept` (DutyLimited) adds `Rested`: what is left of the
  cooling-off time and the time the port has been below the limit make up CoolingTime.
* `TimeLimitKept` (PowerLimited) needs two more: `Awake`, that Suspend sets its flag only
  after its loops, and `InTime`, that the time a port has been above its limit is at most
  `Allowance`, the time limit less the time left, plus the time since the last turn once
  the timer is over.  `Waiting` is the part of a turn in which the loop has not come to the port yet:
  there the timer may be over and the port still on, and no time passes.
* `ClaimsKept` (ClaimsAgree) needs `PoolIsSet`: the level of a pool port comes from its group port
  alone, never from the LedWiz.  `Steady` collects Sound, Awake and PoolIsSet for what follows.
* `NightIsSilent` (NightSilences) and `SuspensionIsDark` (SuspendedIsOff) are about a loop over the ports
  that another port's step reaches into: `SilentSoFar` and `OffSoFar` say that no step turns a port
  on again that the loop has passed, but for the pulse of a falling edge (`Off`).
* `PulsesEnd` (PulseEnds) adds `PulseOK`: a running pulse has taken, with what is left of it, no more than its
  duration, and one that is over waits for its turn of the main loop at most.

### I2CBus

`TypeInvariant`; `TaskIsToldItsOwn` (CompletionsAreOwn); `ChannelsAreFree` (DmaNotReprogrammed);
`QuietBusIsSet` (QuietMeansSet).  One invariant, `BusInv`, for all three: at each look the task
knows the state rightly (`TaskKnowsState`), a STOP seen without an abort is that of the transfer
under way (`StopIsOwn`), the channels are idle when the bus is ready or a transfer has completed
(`DmaIdle`), and while no transfer has failed a chip holds what was recorded as sent, but for the
registers of the transfer under way (`ChipsFollow`).  It holds until the first late STOP that is
taken for another transfer's (`fault = "mixed"`), which the properties allow for.

### IRTransmit

`TypeInvariant`, and `OneThreadRuns`: OneThread is inductive as it stands
with the types, because TXStart's look at txRunning is followed by its assignment in the same
step (the interrupt does not set it to TRUE when it is FALSE).  `CommandsInOrder` (TakenInOrder) by
`RingInv`: the slots between the indexes hold consecutive numbers from the one that is due.
`TVWaitsForItsOwn` (TVSentItsOwn) by `TVInv`: TV-ON's command is alone in the ring until it is taken,
and then the one being sent.  `CommandSentAsOften` (SentAsOften) by `RepsInv`: repeatPhase is a function of repeatNumber and the
count, another one for each kind of protocol (`PhaseAt`), with which the two conditions of TxEnd
end at the same number of sends; of a command that follows a button, only the cycle of
the phase is known, and it is enough for the last pair or sequence to be whole.  IRAssumption has
counts fit the counter, which the code does not check (see the observations above): without that
the last one is false.

### Buttons

`TypeInvariant`; `ActionsAlternateAlways` by `AlternateInv`: the actions that
are on by what they were told are those that the button's own state says are on (`Follows`): the
logical state, or a pulse that is under way, depending on the type.  One lemma for each
Poll; the other buttons are `OthersFollow`.  `ShiftPressHasOneFunction` (ShiftOrNotBoth) by
`ShiftInv`: a shift button whose present press has shifted another button is marked as used, because
whoever takes a press under shift marks every shift button (`TakesMarks`).

### Only model-checked

Liveness is out of the prover's reach, and stays with TLC: `SaveEnds`, `TransferEnds`, `PendingEnds`,
`TurnComes`, `WedgeEnds`, `QueueMoves`, `NothingStuck`, `SettlesOnPin`.  The type invariants of the
modules whose runs do not list TypeOK are proved only.

## 5. Limits of the models

* Data of files is opaque; CRC-32 has no collisions.
* `FlashFile` has one file, `FlashDirectory` no words; that the two fit
  together rests on BlocksDisjoint (no step of one file touches another's block).
* `FlashFile` compares positions without the 32-bit wrap of `streamp + hdr->fileSize`
  (`FlashStorage.cpp:653`): the size word of a torn header that is so large is taken for one beyond the block.
* The other users of the one write handle (plunger and nudge settings) and a handle that
  is open over a format are not modelled.
* Time is abstract in `TVOn` and `Restart`; the restored countdown's missing delay and a
  list of commands that is shorter than the restored index assumes are visible in the model as
  immediate steps, but no property is stated about them.
* The watchdog extenders and the second core's start are not modelled.
* The manual relay and the console's simulation of the latch are not modelled.
* The end of the safe time stores Normal as next boot mode, also over the mode of a reset
  that is waiting for the lock (`Main.cpp:770`).  The model does the same.
* `Outputs`: what lies behind a device (PWM, shift registers, the I2C chips), the direct access to
  device ports in test mode, a port in several share groups with its pool index, the calculation
  of data sources (a source gives any level), gamma and inversion, which the devices apply.
  Ports of a share group are given no LedWiz commands by an assumption (`LedWizPorts`), where the code
  returns early (`Outputs.cpp:1271`, `1288`).
* `I2CBus`: that a bus clear may leave SDA low (`I2C.cpp:317-366`; `BusClear` always ends the wedge, so
  WedgeEnds shows that the clear is reached); the console's ad hoc requests and its bus scan, the input side of PCA9555, EnableOutputs,
  the retry of setting up the DMA channels.  An output transfer that failed is not sent again,
  which the code says (`I2C.h:157-160`); QuietMeansSet is therefore about a bus without failures.
* `IRTransmit`: the virtual remote control (PushButton, ProgramButton), which nothing calls; the
  pulses of a code; a timer that has no alarm left.
* `Buttons`: on/off buttons, sources other than debounced pins (infrared, plunger, nudge, clock), separate
  off actions, remote wake, the event log, and with it ClearEventLog's walk over the logs.
* Other hardware, text handling (JSON, console commands), numerical filters (nudge, plunger
  sensors) and the Windows tools are in no module; `PROJECT.json` says why for each.

## 6. Plan

What is left, in this order; each new module comes with its run and, where marked (P), with a proof.

1. `PlungerFiring` with `ZBLaunch`: firing states, launch button, mode off in any state.  (P) one
   launch per pull.
2. `FlashStore`: directory, files and the one write handle together, with the plunger, nudge and
   configuration as users; abstract map from names to contents.
3. `USBReports`, `FeedbackController`: queues of reports and replies, suspend and resume.
4. `LogBuffer`: the ring with several readers.  `PWMWorker`: registers behind I2C.  `ClockSync`.
5. `TimeRange` and other pure algorithms as operators against a definition by enumeration.
6. `IRTransmit` as the refinement of what `TVOn` assumes of the transmitter.

Theorems left for the present modules: what of Durable is left with timeouts (that the last good copy
survives a timeout of the append's own flushes as long as no later erase of the save goes
through); an abstract transmitter that `IRTransmit` implements and `TVOn`
assumes (point 6), as `StoredFile` is for `FlashFile`; an abstract map from names to contents that
`FlashDirectory` implements outside of `excused`, which point 2 needs.
