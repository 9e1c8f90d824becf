# TLA+ specifications of amlogic-update

`update` is a command line tool that talks to the boot stages of an Amlogic board
over USB: it finds the board, copies memory, burns partition images, sends text
commands and serves the second boot stage. The specifications here follow the
code as `CMakeLists.txt` builds it, with `BUGFIX` and the libusb-1.0 layer of
`usbcompat.h`. Line numbers below are those of the files in `src/`.

The program is sequential. What makes it hard is on the other side of the cable:
a transfer can move less than it was asked to, nothing, or part of it before an
error; a command that failed for the host may have reached the device; an answer
may come after the deadline at which the host stopped waiting; a board may be
unplugged, and another plugged in, between two steps. These are the choices the
models leave open.

## Inventory

| Part | Code | State | Operations | Correct means | Module |
|---|---|---|---|---|---|
| large memory transfer | `UsbRomDrv.cpp:42-310`, handlers in `AmlLibusb.cpp`, bulk calls in `usbcompat.h` | buffer, offset, remain, retries, sequence numbers; device memory and open transfer | `AmlUsbWriteLargeMem`, `AmlUsbReadLargeMem` | counted bytes are in place, 0 means all, nothing else is touched, the call returns | `LargeMem`, `Transfer` |
| write, cwr, dump, read | `update.cpp:800-980` | file position, address, rest, dump file | `update_sub_cmd_read_write` | the range named arrives, a dump is a prefix of the range | `MemCmd` |
| burn | `UsbRomDrv.cpp:414-479, 769-793` | chunk, bytes burned; frames the board got | `AmlUsbburn`, `AmlUsbBurnWrite` | nothing behind the first chunk is touched | `Burn` |
| mwrite, partition | `update.cpp:235-302, 458-576`, `UsbRomDrv.cpp:566-649, 701-751` | chunk, attempt, polls; the device's request, partition and unread messages | `do_cmd_mwrtie`, `WriteMediaFile`, `AmlWriteMedia`, `AmlUsbBulkCmd` | success means burned, also with late answers | `MediaDevice`, `MediaWrite`, `Mwrite`, `BurnImage` |
| mread, bulkcmd | `update.cpp:305-346, 1139-1172, 1515-1536`, `UsbRomDrv.cpp:652-751` | rest, polls, file; the device's upload and the packets nobody has read | `update_sub_cmd_mread`, `ReadMediaFile`, `AmlReadMedia`, `AmlUsbBulkCmd` | 0 means the file is the upload | `Mread` |
| bl2_boot, bl2_test | `AmlLibusb.cpp:606-1018` | request, offset, file position, checksum | command block, CMD4, data, status words | the range asked for arrives, with its checksum | `Bl2` |
| checksums | `checksum.h` | none | `checksum_add`, `checksum_64K` | equal to their definitions | `Checksum` |
| finding the board | `update.cpp:389-455`, `AmlUsbScanX3.cpp`, `usbcompat.h:360-862` | lists of busses and devices, names, handle | `update_scan`, `usb_find_busses`, `usb_find_devices`, `OpenUsbDevice` | the handle is the unit the user chose | `Scan` |
| control endpoint memory | `UsbRomDrv.cpp:132-158, 313-359`, `AmlLibusb.cpp:51-101, 511-549`, `update.cpp:579-673` | offset, piece, packet; memory and file | rreg, wreg, `AmlUsbReadMemCtr`, `AmlUsbWriteMemCtr` | success means copied, only the range changes | `CtrlMem` |
| text commands, serial numbers | `update.cpp:1109-1136`, `UsbRomDrv.cpp:396-411, 482-515`, `scan.cpp` | reply, retries, which of two commands; the device's unfinished commands and its fuse | tplcmd, tplstat, skgsn, skssn | a reply belongs to its command, the fuse is written once | `TplCmd` |
| chip commands | `update.cpp:676-797, 983-1106`, `UsbRomDrv.cpp:362-393, 518-533`, `AmlLibusb.cpp:552-603` | version and stage as understood, passwords sent, range | identify, chipid, chipinfo, password, run, reset | what is shown or reported is so | `ChipCmd` |
| command line | `update.cpp:1175-1605` | arguments left, board, status | `main` | the board named and no other, a status that tells what was done, where the commands allow it | `UpdateMain` |
| dispatch, descriptors, sparse images, log, clock | rest of `AmlLibusb.cpp`, `usbcompat.h`, `Amldbglog.cpp`, `gettime.h` | none of interest | | | not modelled |

The parts call one another directly: `main` finds a device with `update_scan` and
hands it to one command; the command opens and closes it for every operation of
`UsbRomDrv.cpp`; that layer builds a request and passes it to a handler of
`AmlLibusb.cpp`; the handler makes one libusb call. State that outlives a call is
rare and is where the hazards are: the sequence numbers, the lists of devices,
the messages the device has not been asked for yet.

## Modules

* **`Transfer`** is what one large memory call promises: bytes are copied in order
  and each to its place, the count never includes a byte that was not copied,
  and 0 means all of them.
* **`LargeMem`** is the code. `pc = "command"` and `"bulk"` are the two places of
  the loop where libusb is called; `i`, `offset`, `remain`, `retry` are the locals
  of the same names, `sizeTo` is `sizeToSend` and `sizeToRead`, `seqNum` the two
  statics. The two functions are one machine with a direction, because they
  differ only in the sizes they ask for and in when the sequence number advances.
  `mem` and `dev` are the device: the memory, and the transfer the last command
  opened. The device is external and only does what the two sides of a bulk
  transfer imply.
* **`MemCmd`** extends `LargeMem` with the command loop around it. `write`, `dump`
  and `read` make calls of `LargeMem` (`cpc = "driver"` while one is under way);
  `cwr` uses a control transfer per chunk.
* **`MediaDevice`** is the boot loader as the host sees it: one request at a time,
  busy messages, one final message. A message does not say which request it
  answers. `keeps` chooses between a device that finishes and answers every
  request however late, and one where a new command discards the old one.
* **`MediaWrite`** is `WriteMediaFile` with `AmlWriteMedia`: `chunk`, `command`,
  `data` and `poll` are its places. **`Mwrite`** adds `do_cmd_mwrtie` and
  `AmlUsbBulkCmd`.
* **`BurnImage`** is what `mwrite` promises, without messages, polls or verdicts: chunks go
  to their own places one at a time, in order on a device that forgets unfinished
  requests; the image is reported as burned once, when all of it is in place, and
  nothing of it is touched afterwards. `Mwrite` maps `success` and its last place
  to `outcome`.
* **`Bl2`** is `bl2_boot` and `bl2_test` in one machine (`mode`). A byte of the
  image is its position, so any misplaced byte shows; `cksum` holds the bytes
  summed so far rather than their sum.
* **`Scan`** is `update_scan` with its two scans over the lists kept by
  `usbcompat.h`. `Plug` and `Unplug` may happen between any two steps. A node of
  the list remembers the unit it was made for, as `libusb_device` does. A call in which
  libusb cannot list the devices leaves the lists as they were.
* **`Checksum`** evaluates the two sums over all buffers up to a length; `MCBl2` runs
  it beside `Bl2`, whose download ends with such a sum.
* **`Burn`** extends `MemCmd` with the command `burn`: `cpc = "chunk"`, `"driver"` and
  `"frame"` are the loop of `AmlUsbburn` and the two halves of `AmlUsbBurnWrite`.
  `transferSize`, `nBytes` and `bulkSize` stand for its `fileSize`, `offset` and
  `transferSize`.
* **`Mread`** is `update_sub_cmd_mread` with `ReadMediaFile` and `AmlReadMedia`, and
  `AmlUsbBulkCmd` alone for `bulkcmd`. `pipe` is the IN endpoint: replies and packets
  of the upload come out of it in one order, and the host tells them apart only by
  what it is waiting for. `pc = "poll"`, `"chunk"` and `"read"` are its transfers.
* **`CtrlCmd`** is what the commands over the control endpoint share: the command, its
  place, its result, and whether a transfer came up short unnoticed.
  * **`TplCmd`**: tplcmd, tplstat and the serial number commands. `queue` is what
    the board has accepted and not finished, `answer` its last reply. `keeps` and
    `early` choose between boards that drop a command when the next one comes or
    work on both, and that are silent or repeat their last reply while at work.
    `step` is which of the two commands of `aml_get_sn` and `aml_set_sn` is under
    way, `retry` the local of `aml_send_command`.
  * **`ChipCmd`**: identify, chipid, chipinfo, password, run and reset. A buffer that a
    transfer left unset may hold any value the code tells apart.
  * **`CtrlMem`**: rreg (a loop over pieces of 1 MiB, each a loop over packets of
    64 bytes), wreg, and the two functions of `UsbRomDrv.cpp` with the same loop,
    `AmlUsbReadMemCtr` and `AmlUsbWriteMemCtr`. `UsbRomDrv.h` declares these two, but no
    command of `update` calls them: the parts of the properties that concern them
    alone (`CountCoversRead`) are about that interface, not about the program.
* **`CtrlCommands`** composes the three: the program is started for one command,
  runs it and exits, so a step is a step of that command, or of the board, and
  everything else stays at rest. It has the fairness and the liveness property.
* **`UpdateMain`** is `main`: `pc = "start"` the device argument, `"find"` the search,
  `"command"` the dispatch. A command is one step with the results that the other
  modules or the code give it; which positions of `argv` it reads, which board it
  works on and what becomes of its result is what the module keeps. `Lossy` are the
  commands that return 0 also after a failure (listed below), and `Bad` has that 0 among
  their results; boot and write2 are a step of their own, that does nothing and returns 0.
* **`LargeMem_proofs`**, **`Burn_proofs`** (on `MemCmd` and `Burn`), **`CtrlCommands_proofs`** (on
  `TplCmd`, `ChipCmd`, `CtrlMem` and the composition), **`Mwrite_proofs`**, **`Bl2_proofs`** (on `Bl2` and `Checksum`),
  **`Mread_proofs`**, **`UpdateMain_proofs`** and **`Scan_proofs`** hold the theorems. **`Progress`** defines the
  order in which their measures fall.

Each `MC...` module, with the `.cfg` of the same name, is a small instance. A
definition named after another with a suffix (`BulkMoveWhole` before `BulkMove`)
is that definition with a plausible mistake in it; none is used by the
specifications. It documents which mistake a property would catch.

## What the runs show

| Run | Result | Bounds |
|---|---|---|
| `large_mem` | calls in both directions keep the counted bytes in place, stay inside the declared length and the range, use fresh sequence numbers, return, and implement `Transfer` | 3 bytes of memory of two values, bulk 2 of total 3, 2 attempts, 1 empty transfer tolerated, sequence numbers to 2 |
| `mem_cmd` | a write that returns 0 delivered its range; a dump is a prefix of its range; only the range changes; burn stops at its first frame; every command ends | 6 bytes of memory, a file of 5, chunks of 3 (large), 2 (bulk and control) and 1 |
| `mwrite` | "mwrite success" means every chunk is in its place and no answer was mistaken; a host that falls behind never catches up; the command ends; it implements `BurnImage` | 2 chunks, 3 attempts, 2 polls |
| `bl2` | the range asked for arrives with the checksum over exactly those bytes, and nothing unannounced; a download ends; two foldings give the end-around-carry sum, and the sum of a download is the sum of its data | image of 7, ranges to 5, chunks of 2, 2 requests, offsets that wrap beyond the largest range; buffers of up to 10 one-bit bytes |
| `scan` | the handle is the unit the user chose, at the address shown; names are distinct | 3 boards and a mouse, 2 busses of 2 addresses, 2 names, 2 hot plug events |
| `ctrl_cmds` | replies belong to their commands, the fuse is written at most once and success means burned; what chip commands show is so; memory commands that succeed have copied their range and change nothing else; a short packet leaves only bytes of its place; every command ends | 2 and 3 retries, commands to 6 of 3 sent and 5 allowed; 7 versions, 3 stages, pages of 4, passwords of 2, an int of -21 to 20; 8 bytes of memory, packets of 2, pieces of 4 |
| `mread` | 0 means the file is the upload; the packets of an upload keep their order; with a device that forgets, the reply is that to this command; the command ends | uploads to 5 packets, chunks of 2, 2 polls |
| `update_main` | the board named or none; of write, cwr, wreg, password and bulkcmd status 0 exactly if they did their work; of the other commands 0 never in place of an error code, a missing board or a missing argument; counted arguments lie behind the device | 8 arguments, boards to 16, numbers 0 to 17 at the limits |
| `mem_cmd_dump` | finding: a dump cut short by `fwrite` returns 0 | as `mem_cmd` |
| `mwrite_exit` | finding: exit status 0 although nothing was burned | as `mwrite` |
| `bl2_boot` | finding: 0 when the boot stage reported an error | as `bl2` |
| `scan_open` | finding: `OpenUsbDevice` returns 1 without a handle | as `scan` |

Why the bounds are enough:

* `large_mem`: with a memory of 3 and bulk transfers of 2, a call needs more than
  one transfer, the last is shorter than the largest, and a short transfer
  leaves a rest of either kind. Two attempts exercise the outer loop once, two
  empty transfers the retry limit. Sequence numbers up to 2 let at least two
  calls follow each other in both directions. The theorems remove the bounds.
* `mem_cmd`: sizes run through 0 to 6, so a dump meets each of its three chunk
  sizes and the switch between them, a write its full and its last chunk, and a
  skip every position up to one behind the end of the file. All bytes differ, so
  one initial state shows a byte in a wrong place. Only one command runs, so
  sequence numbers are in effect unbounded.
* `mwrite`: two chunks are needed for an answer to be taken for that of another
  chunk; three attempts is the code's number. Two polls give a chunk answered at
  once, after a busy message, and not before the deadline.
* `bl2`: ranges of 0 to 5 with chunks of 2 have up to three chunks, the last full or
  short; requests may reach behind the end of the image.
* `scan`: two events are enough for a board to leave its address and another to take
  it between the two scans, which is what the lookup by device number has to
  survive; the three boards exceed the number of names.
* `bl2`, sums: with a base of 2 the 16 bit word is two bits, and both carries of
  the folding occur within ten bytes; a chunk of 4 bytes gives three chunks and
  a last one that ends inside a word.
* `mem_cmd`, burn: files of 0 to 5 bytes have up to two chunks, so that a second one would
  show; a frame has another length than the handler takes, as in the code.
* `ctrl_cmds`: 3 status reads of `aml_send_command` leave a first, a middle and a last
  one (the code has 50), and the board may finish its command before, between and
  after any of them; lengths go one beyond the frame and the buffer. The versions are those
  at the borders of the comparisons in `chipid`, numbers of `chipinfo` those around
  the page and at the largest int. Ranges of up to 6 bytes have two pieces of two
  packets, the last one short, at every address; two bytes behind every range show
  a transfer past its end. Transfers end early after every number of bytes.
* `mread`: 5 packets in chunks of 2 are two whole chunks and a rest, so a reply that
  is taken for data shifts it within and across chunks.
* `update_main`: the longest list a command reads has six words; numbers cover both
  sides of 10 (a second digit), of 8 (boards of the serial number commands) and of 16.

A state with `pc = "exit"` or `"end"` is a program that has stopped, and `LargeMem`
and `Checksum` stop at their bounds, so deadlock is not checked.

### Fairness

`LargeMem`, `MemCmd` with `Burn`, `Mwrite`, `Mread`, `Bl2` and `CtrlCommands` assume weak
fairness of the program's own steps once an operation is under way and nothing of the
device: every libusb call has a timeout (30 s and 50 s for bulk transfers, 3 to 60 s for
control transfers), so the program always goes on with one outcome or another. The
polling loops end at a deadline of the wall clock; the models bound the number of
polls (`MaxPolls`) because each poll takes at least half a second, or three. No
assumption says that a device ever answers; `aml_send_command` and tplcmd end by their
retries alone. `Scan` and `UpdateMain` have no liveness property: their loops run over
finite lists.

### Environment assumptions

* Reachability of states: device memory ranges that callers ask for exist, and no
  caller passes more than 0x10000 bytes to a large memory call
  (`CallAssumption`; the chunk loops of `update.cpp` never do). Their chunk sizes are
  ordered as its constants are: 0x1000 and 0x200 bytes are no longer than the buffer of
  0x10000, the length of a bulk transfer no longer than that of a call (`ChunkAssumption`).
* Files and the memory are shorter than 2^32 bytes (`MemCmdAssumption`): sizes and addresses
  are `unsigned int`, and of a longer file the code sees the remainder.
* The frame of burn has another length than the handler of tplcmd takes
  (`BurnAssumption`): 88 and 68 bytes, `UsbRomDrv.cpp:787` and `AmlLibusb.cpp:200`.
* A download chunk is a whole number of sectors: 64 KiB and 512 bytes (`Bl2Assumption`).
* The device stores bulk data in the order in which it arrives.
* A BL2 range is shorter than 32 MiB (`FipAssumption`): `dataOffset >> 9` is sent in
  16 bits and would wrap. A FIP image is one or two MiB.
* Busses and devices have numbers, and there are finitely many of them (`ScanAssumption`).
* A buffer is short enough for two foldings of its 16 bit sum, 128 KiB in the code's numbers
  (`FoldAssumption`); `checksum_add` is called on at most 64 KiB.
* At most one message of an interrupted earlier run is waiting when `mwrite` or `mread`
  starts (`DevInit`). This is an assumption, and a device that keeps its requests (`keeps`) can break it:
  a host that has given up waiting twice ends with two final messages unread, of its last
  chunk and of get_status ("OK!!", "success"), and nothing in the code empties the pipe before
  the next run. `SuccessMeansBurned` then fails for an image of one chunk, up to 64 KiB: the
  next run takes "OK!!" for the answer to its chunk and "success" for that to get_status, and
  prints "mwrite success" while the device may still be at work. An image needs one more
  good message than it has chunks, in this order, to be reported too early; with one
  message none can be, whatever its length, and that is what the property and its theorem say.
  One is what a run leaves that is killed while it waits for an answer (busy messages in
  front of it are polled past).
* `Reliable` in `TplCmd`: a board that does not answer a status request while it is at
  work, and no status read of no bytes. Without either, aml_get_sn can take the
  reply to its first command for that to its second, and nothing in the code
  prevents it; the properties say what holds with it.
* `unseen` in `CtrlMem` and `Mread`: short packets, short `fwrite`s and the reply of an
  earlier run are mishaps the code does not look at. The properties hold without
  them, and `FileByteOrigin`, `DataInOrder` and `AnsweredForItself` say what is left.

## Proofs

All theorems are for every value of the constants that the ASSUMEs of the modules
admit; TLC checks the same ASSUMEs in the runs.

**Large memory calls.** `LargeMem_proofs` proves, for every memory size, buffer length,
transfer limit and number of attempts:

* `TypeCorrect`, `CountedInPlace`, `StaysWithinDeclared`: the three invariants of the run;
  `CountedInPlace` includes that 0 means all bytes;
* `NothingElseTouched`, `NumbersAreFresh`: its two action properties;
* `Refinement`: every behaviour implements `Transfer`.

None of the invariants is inductive. Whether counted bytes stay in place depends
on an implication the code nowhere states: the outer loop resets `remain` and
leaves `offset` alone, so a second pass would be wrong after any byte had moved.
The inductive invariant `IInv` says why there is none. `LoopInv` records that at
`pc = "command"` the offset is 0 and no command has succeeded, and that at
`pc = "bulk"` offset and rest add up to the length, the device stands at
`address + offset` and has the rest left; the only way back from `"bulk"` is
through the end of the call. `SeqInv` orders the sequence number of the device's
transfer and those of the host. With `CountedBytesInPlace` and the types these
are preserved by each action (`NextInv`, one step per action); `MoveExtends` is the
lemma about the bytes of one bulk transfer, `MoveIsCopy` the one that makes it
the abstract copy.

**Commands over the control endpoint.** Each of `TplCmd`, `ChipCmd` and `CtrlMem` has an
inductive invariant of its own, and `CtrlCommands_proofs` lifts all three to the program.

* `TplIInv`: what makes a reply one's own is that the newest command of the board's
  queue is the one the program waits for, or the queue is empty and the reply is that
  to it (`QueueInv`): commands are finished in order, so a board that is silent while at
  work has nothing to say before. `FuseInv` ties a good reply to "write" to the fuse, and
  `BurnInv` says that the write command goes out in the second step alone, which no
  failure leads back to.
* `ChipIInv`: `IdInv` carries what the board said in full from one transfer of chipid
  to the next, `PasswordInv` counts the passwords, `RangeInPage` is the arithmetic
  of chipinfo.
* `MemIInv`: `CallInv` keeps the piece inside the range and says that a call is left
  without a failure only at its end; `BytesInv` holds of the piece under way and, for
  rreg, of the file before it; `FreshInv` of the buffer behind what was read. `MoveBytes` is
  the lemma about one packet.
* `OriginInv`, on top of it, is for the runs in which packets come up short. All pieces of
  rreg but the last are as long as the buffer, so a place of the buffer that a short
  packet leaves alone holds a byte of the same place of an earlier piece
  (`OriginNextPiece`); `BytesHaveOrigin` says so of the file.
* `CommandsCompose`: a step of the program is a step of the one command it runs
  (`StepIsOfOneCommand`), and the others stay at rest; from it `CommandTypeCorrect`,
  `RepliesAreOwn`, `SuccessIsBurned`, `ReportIsSo`, `SuccessIsCopied`, `BytesHaveOrigin` and
  `OnlyRangeWritten`, the invariants and the action property of `ctrl_cmds`.

**write, cwr, dump, read and burn.** `Burn_proofs` proves the invariants and the action property
of `mem_cmd` (`CmdTypeCorrect`, `WriteDelivered`, `DumpInOrder`, `BurnStops`, `NothingOutside`) for
every memory, file, range and chunk size. `CmdInv` contains the invariant of `LargeMem`, whose
lemmas are used again for each call of the driver: a call that returns 0 has copied its chunk
(`CountedBytesInPlace`, `LoopInv`), one that fails has stayed inside it. Around it,
`WriteInv` ties address, file position and bytes written together, and says that of a write
memory is equal to the file so far, `FileInPlace(nBytes)`; `DumpInv` ties the address to the
length of the dump file. The width of the counters matters in one place: a
`skip` behind the end of the file makes the size wrap to nearly 2^32 (`SizeToWrite`), and what
then prevents success is that the first `fread` fails. `BurnInv` says that burn never leaves its
first chunk, since its frame is refused.

**mwrite.** `Mwrite_proofs` proves `TypeCorrect`, `SuccessIsBurned`, `WrittenIsStored` and
`CatchesUpNever` for every number of chunks, attempts and polls. A message does not say which
request it answers, so the argument is about the order of the pipe. `Ordered` and `Complete`
(`PipeInv`): the messages are in the order of the requests, one final message to each,
and with one final message that of every later request is there or still to come.
A host that gives up waiting while the device keeps its answers *lags* (`Lags`): from then on
every answer it reads is to an earlier request, and nothing it does makes up for it. `KindInv`
says that the answers to chunks are not "success", so a host that lags reads one of these
where get_status expects another word, and fails. A host that does not lag has every chunk
before `addr` in its place (`MediaInv`). Both together make "mwrite success" true. `CatchesUpNever`
counts the final messages of the pipe (`FinalsAppend`, `FinalsTail`) over every kind of step.

`BurnsImage` is the refinement of `BurnImage`. Its steps that touch the partition are those in which
the device works on a chunk (`MediaSteps`). A device that keeps its requests may do so
at any time before success, for `MediaInv` leaves it nothing to do then; on one that forgets them
`OrderInv`, a second inductive invariant, says that every place before `addr` is right and every place
behind it untouched, and the same of the place of a request under way, so that a chunk
sent again is always the last one begun.

**Second boot stage.** `Bl2_proofs` proves `TypeCorrect` and `Delivered` for every image, chunk,
sector and range. `DownloadInv` follows the download through its transfers: what the stage
holds (`Holds`) and what has been summed (`Summed`) agree with `dataOffset`, and the buffer is
the chunk that CMD4 has announced (`ChunkReady`). The offset is sent in sectors of 512 bytes, so it
has to stay a multiple of one (`NextOffset`) and below the width of `wValue` (`FipAssumption`).

**Checksums.** `SumsAreRight`, in the same module, proves `ChecksumsAreSums` for every buffer. The sums
fold over the data, and induction over data is out of the prover's reach; but a
behaviour of `Checksum` builds its buffer byte by byte, so an invariant of the behaviour is the
induction. `SumInv` has what one more byte needs. That the recursive functions are defined by
their equations is part of it (`Determined`, `LeadDetermined`), carried from each buffer to the next by
`SumAppend` and `LeadNext`. `ShortInv` bounds the 16 bit sum by its words (`WordsBound`), which keeps it below
2^32, where two foldings are the end-around carry sum (`TwoFolds`). `LongInv` says that the
chunks added up so far and the chunk in the making (`Lead`, `Rest`) are together the sum of the
whole: a chunk is a whole number of words, so a byte weighs the same in its chunk
as in the whole (`WeightInChunk`), and completing a chunk adds nothing (`LongKept`).

**mread and bulkcmd.** `Mread_proofs` proves `SuccessIsRead`, `DataStaysInOrder` and `AnswerIsOwn` for every
size and number of polls. The invariants of the run are kept by one about file and pipe
together, for the host cannot tell replies from data: `out \o pipe` holds the packets of the
upload in order with nothing missing, whatever replies lie between them (`StreamInv`), and nothing
but them when the reply that let mread go on was its own (`CleanInv`). `ReplyInv` says when it is.

**Command line.** `UpdateMain_proofs` proves `NamedBoard`, `StatusCanBeRead` and `ArgumentsCounted` for argument
lists of every length and every number of boards. `FindInv` follows the number the user gave
(`Named`) through the search, `CommandInv` the position of the arguments that are left;
`CodesShow` is about the low byte of the results, which is all that an exit status keeps, and
`BadTells` about which failures are left with 0: those of the lossy commands. `StatusCanBeRead` therefore
gives an equivalence for the five commands that report every failure, and for the others only
that 0 is no error code cut to eight bits and no path that ended before the board or the
arguments were there. That a command reports what its module says is taken over from
`MemCmd`, `CtrlMem`, `ChipCmd`, `Mwrite`, `Mread` and `Bl2`, not composed with them.

**Finding the board.** `Scan_proofs` proves `TypeCorrect` and `ChosenIsOpened` for every number of units,
busses, device numbers and names, however often units come and go. `HandleIsChosenUnit` is not
inductive: it does not say why the name the user chose still stands for the same unit when
the lists have been rebuilt, a device being known by its number alone. `ChosenKept` does. From
the end of the first scan the name has an entry, of the chosen unit. `usb_find_busses` keeps its
bus or drops it with its list, and a bus that is dropped is not added again by the same call;
`usb_find_devices` keeps the entry as it is while the number is in use, by whichever unit, or
drops it, and adds none with a number that was known when the call began. So a unit that has taken
over the address of the chosen one is not found under its name: the stale entry is, and opening it
fails, or nothing is. `PluggedApart`, `BussesApart` and `NumsApart` keep the entries apart;
`PickedKeeps`, `BusList` and `DeviceListOfBus` are the lemmas about the lists, `OrderLists` the one about
the order libusb chooses. The lists are written without recursion for this: what is left of a
list, and the boards of all lists, are the ascending enumerations (`Sorted`) of sets of places.

**That everything ends.** `CallProgress` (large memory calls), `DownloadProgress` (bl2) and the four theorems
`CommandProgress` (control endpoint, mwrite, mread and bulkcmd, the commands of `Burn`) prove the safety
half of the liveness properties: a measure of what is left to do, a tuple of natural
numbers (`Remaining`, `CmdRemaining`), falls in lexicographic order (`Below`) with every step of the program
and is never raised by a step of the device. In front stands the phase of the command, then
the bytes or chunks left, then the attempts, then the place in the loop, and last the empty
transfers, packets or polls before the next of these. The tuple says why a loop nested in another
cannot go round for ever: an inner counter that is set back pays with an outer one that falls.
`PollsInv` and `PieceInv` are what the inner loops need in addition. The polls that the models
allow before a deadline (`MaxPolls`) stand for the clock.

**Only model-checked**: liveness itself (`CallReturns`, `CommandEnds`, `DownloadEnds`). What the measures leave
open is that a step is possible until the end is reached, which is a statement about ENABLED, and
that the program takes it, which is fairness; both are out of the prover's reach. The four findings
are counterexamples, not theorems.

## Where the code and its texts differ

Four of these are runs that TLC finds violated (`mem_cmd_dump`, `mwrite_exit`, `bl2_boot`,
`scan_open`). The others came up while modelling; the models follow the code.

* `AmlLibusb.cpp:529-536`: every result of a control transfer that is not negative
  counts for a whole packet, and `update.cpp:657` does not look at `fwrite`: rreg may
  return 0 with a file that is not the range. `FileByteOrigin` says what is in it.
* `update.cpp:329`: nor does mread look at `fwrite`, and it returns 0 for "save as a file"
  (`update.cpp:356`) with an incomplete one.
* `scan.cpp:160-167`: the result of `sscanf` is not looked at in `aml_set_sn`, so that a
  board that answers success without a value in parentheses has burned the number, and
  `update.cpp:1477` says that writing it failed.
* `scan.cpp:59-60`: commands of up to 125 bytes pass ("cmd too long: %zu"), but
  `AmlLibusb.cpp:204-207` sends the first 64: a long number is burned in part.
* `update.cpp:1065-1069`: after "Fail in get chipinfo, want %d, actual %d" chipid prints
  a chip id from a buffer nobody filled, and returns 0.
* `AmlLibusb.cpp:140-144`: the handler of run drops the result of its transfer, so
  that "ERR: Run cmd failed" (`update.cpp:613`) is never printed for it.
* `update.cpp:794`: the bytes of chipinfo leave stdio in `fclose`, whose result is
  dropped; the check of `fwrite` before it never sees a full disk.
* `update.cpp:737`: `startOffset + nBytes` may overflow; then the range check of line 739
  may pass. `ReportedIsSo` is about sums that do not.
* `update.cpp:1398`: reset, identify, tplcmd, tplstat and burn leave `ret` at -1020:
  "reset succesful" exits like a failure.
* `update.cpp:1558` and `1364`: `update_scan` returns 0 for success, which is taken for
  "can not find device": down, msdev, msget and msset never get any further.
* `update.cpp:1498-1506`, `1475`: partition, mwrite, password, tplcmd, bulkcmd and skssn count
  or take arguments without the device in mind: "skssn dev0" burns the text dev0.
* `update.cpp:1268`: four of the five characters of "path-" are compared; a file
  called pathname is taken for a device.
* `update.cpp:1444`: the serial number commands read one digit: "skgsn dev10" reads
  board 1.
* `update.cpp:965-967`: boot and write2 are accepted (`update.cpp:1321`), want two arguments
  and an address, leave the board alone and return 0.
* `AmlLibusb.cpp:877` and the same lines of bl2_test: "check sum FAIL" is printed, and 0 returned.
* `update.cpp:769`: chipinfo on the terminal returns the 64 bytes it has shown, so its success
  exits with 64.
* Together: run, rreg, read, dump, chipinfo, chipid, mwrite, partition, mread, bl2_test and bl2_boot
  may exit with 0 after a failure (`Lossy`), at the lines given here and in the four findings. Status 0
  can be relied on for write, cwr, wreg, password and bulkcmd (`StatusTells`); what the
  reply behind the success of bulkcmd is worth is said by `AnsweredForItself`.
* `UsbRomDrv.cpp:787`: burn sends a frame of 88 bytes through a handler that takes 68
  (`AmlLibusb.cpp:200`), so it always fails at its first chunk, after that chunk has been
  written to memory.
* `PROTOCOL.md` gives endpoint 0x03 and big-endian words for Read Large Mem, where
  the code reads from 0x81 and writes little-endian words.

## Not modelled, and why

* Dispatch by control code: a switch without state. Its handlers are part of the
  actions of the commands that call them.
* Descriptors, claiming and strings of `usbcompat.h`: copies without a decision.
* Sparse image detection: it reads one header and picks one of two words.
* Progress display, memory view, log and clock: output, or a deadline that is a
  nondeterministic choice.
* The mass storage commands behind their scan, and down: never reached (see above).
  The `mass storage` branch of the scan returns before it does anything.
* The 16 bit checksum inside a memory command is not in `LargeMem`: no step of the host
  depends on it, and what the device does with it is not in this repository.
* The image of `mwrite` is measured, closed and opened again (`update.cpp:520`); the model
  has one image, and nothing in the code is meant to notice a change.
* The status word behind the checksum block of a download is printed only
  (`AmlLibusb.cpp:877`), and `wValue` carries `dataOffset >> 9` in 16 bits (`AmlLibusb.cpp:818`):
  no line of the repository promises more, so no property is about them.
* `initialize_device` may fail for a device, which then is not listed: a choice in
  `Scan`.

## What could come next

1. An abstract `Serve` for `Bl2`, of ranges of the image that are asked for and delivered.
2. The `path-` argument of the command line, with which the device is looked up by the name
   that a scan has shown (`AmlGetDeviceHandle`).
