# Retimer firmware update and read-back: TLA+ models, checks and proofs

The repository holds the BMC programs that look after the PCIe retimers of an
HGX baseboard. The retimers' EEPROMs are not reached directly: an FPGA (I2C
slave 0x62) holds a DPRAM and a few registers, and programs or reads an EEPROM
on request. The programs' own logic is therefore a protocol with a device that
works on its own, answers by polling and may fail in any stage. That protocol,
and the parser of the images that go through it, is what this directory models.

## Inventory

| Part | State | Operations | Talks to | What makes it correct |
|---|---|---|---|---|
| `updateRetimerFw` UPDATE (`updateRetimerMain.c`) | target bitmap, array of update operations, `retimerNotUpdated`, `ret`, `updateFirstErrRet` | check arguments, open bus, map and parse image, cut bitmaps down, loop over operations, log, exit | parser, copy and start functions (calls), message registry (D-Bus) | what is logged and returned is true of the EEPROMs; only targeted retimers are touched; the session ends |
| Update sequence (`copyImageFromMemToFpga`, `startRetimerFwUpdate`) | page loop, retry and poll counters, read buffer | write pages, size, checksum; trigger; poll; judge four status bytes; retry | FPGA over I2C | the DPRAM describes the operation's image when the FPGA reads it; retries touch failed retimers only |
| Parser (`parseCompositeImage`) | next offset, covered bitmap, operations | check header, components, coverage, image data | mapped file | reads inside the file, images apart, no retimer twice |
| Read sequence (`copyImageFromFileToFpga`, `readRetimerfw`, `copyImageFromFpga`) | file, buffer, loops | clear the DPRAM, trigger, poll, copy back, write | FPGA, a file in /tmp | the file is the EEPROM's content or the failure is known |
| Hash service (`dbus-service-retimer.c`) | digest per retimer, temporary file | GetHash, compute, announce; kill and restart | clients over D-Bus, read sequence | a digest is of the right retimer; a failure is announced empty; every call is followed by a signal |
| `updateRetimerFw` READ | `/tmp/Dummyfile`, which outlives the process | as the read sequence | FPGA | exit status 0 means the file is the EEPROM's content; an earlier result is not spoilt by a run that fails |
| Extended error register | none | read and print | second I2C slave | its failure is an error of the attempt |
| Message registry | none | one D-Bus call per retimer of a bitmap | logging service | output only |
| `nvidia-retimer-app` | two signal matches | start-up scan, callbacks that set SoftwareId and SKU | object mapper, inventory, GPU manager (D-Bus) | an object whose appearance or change is signalled gets its property in the end |
| Inventory (`inventory/`) | list of retimer objects | one pass over a JSON file, four commands per entry | `aries-info`, D-Bus | one object per retimer, the one its entry describes; the service comes to serve |

What is hard in this code: an I2C transaction can fail anywhere, after or
before it took effect; the FPGA goes on while the program has stopped looking;
the poll loops time out; status is per retimer and retried per retimer; state
of one operation (`retimerNotUpdated`, the DPRAM) is there when the next one
begins; a D-Bus call fails and nothing repeats it; a session or a service may be killed and another one finds the FPGA and
its files as they were left; two programs use one FPGA without a lock. The
complete list, each at its line, is under `hazards` in `PROJECT.json`.

## Modules

| Module | Models |
|---|---|
| `FpgaDevice` | the programming side of the FPGA (environment) |
| `UpdateFw` | one UPDATE session: `main()`, copy and start functions, composed with `FpgaDevice` |
| `UpdateSession` | what a session promises: the abstract specification |
| `UpdateFwRefinement` | the mapping under which `UpdateFw` implements it |
| `UpdateFwProofs` | theorems about `UpdateFw`, the last of them that it implements `UpdateSession` |
| `CompositeImage` | `parseCompositeImage()` |
| `CompositeImageProofs` | theorems about it |
| `FpgaReader` | the reading side of the FPGA (environment) |
| `ReadFw` | the read sequence, as actions a caller composes |
| `ReadFwProofs` | lemmas about the sequence, for the proofs of its two callers |
| `ComputeHash` | the hash service, composed with `ReadFw` and `FpgaReader` |
| `ComputeHashProofs` | theorems about it |
| `ReadCli` | the READ command, run after run, composed with `ReadFw` and `FpgaReader` |
| `ReadCliProofs` | theorems about it |
| `SharedFpga` | a session and the hash service on one FPGA: `UpdateFw` composed with `ComputeHash` |
| `SharedFpgaProofs` | theorems about both together, from those about each |
| `RetimerApp` | `nvidia-retimer-app`, with the owner of the objects and the object mapper |
| `RetimerAppProofs` | theorems about it |
| `RtManager` | the start of the inventory service |
| `RtManagerProofs` | theorems about it |
| `MC...` | instances for TLC |

Definitions whose comment begins with "Mutant:" are deliberately wrong
variants of the definition that follows them. They are no part of any
specification; each is put in its original's place to see that a property
notices.

### How the FPGA is modelled

The FPGA is not in the repository; `FpgaDevice` and `FpgaReader` are its
behaviour as the code uses it. A content (an image, the pages of another one,
a half-programmed EEPROM) is a value; page `p` of the DPRAM holds "page `p` of
content `c`". The engine finishes a busy retimer with an image only if DPRAM,
size and checksum all describe it, and with one of the three reported failures
otherwise or whenever it likes. A trigger that arrives while the FPGA is busy
is taken (what is outside the new bitmap is broken off) or dropped, since
nothing in the code tells which. Both start in any state of their types.

### `UpdateFw` and the code

`pc` is the place in `main()` or in the function it calls:

| `pc` | Code | Actions |
|---|---|---|
| `setup` | Main.c 97-156 | `SetupFails`, `SetupDone` |
| `load` | Main.c 167-254 | `LoadFails`, `ParseFails`, `ParseDone` |
| `next_op` | Main.c 256-290, 347 | `SkipOp`, `RefuseImage`, `BeginTransfer`, `AllDone` |
| `copy`, `read_size`, `write_crc`, `read_crc` | `copyImageFromMemToFpga` | `CopyPage`, `WriteSize`, `ReadSize`, `WriteCrc`, `ReadCrc`, `CopyFails` |
| `trigger`, `poll` | `startRetimerFwUpdate` 1364-1434 | `Trigger`, `TriggerFails`, `Poll`, `PollFails`, `PollTimesOut` |
| `check` | `startRetimerFwUpdate` 1436-1503 and Main.c 297-345 | `CheckClean`, `CheckExtendedFails`, `CheckRetry` |

The variables have the names of the code's or say in their comment which one
they are. `ret` is the name of the error code; `Code` and `ExitStatus` give
what the parent process sees of it. `log` is the set of what `main()` logs of
image, transfer and result. Left out of it are TargetDetermined and
AwaitToActivate, which accompany other messages, and the messages
`startRetimerFwUpdate()` logs of a single attempt, so that properties about
`log` are about `main()`'s conclusions. The parser is the choice of a sequence
`CompositeImage` accepts (`ParsedOps` is what its `AcceptedOps` proves of it)
or of an error. The check that the array is there when the count is not 0
(Main.c 221) cannot fail after a successful parse and has no action.

Three history variables carry what the properties need. `adrift` collects the
retimers the FPGA may still be programming although no one polls for them: those
it is busy with when the session starts, and those left after a failed trigger
or poll or after a timeout. `stale` are the retimers that show an error bit when
the session finds the FPGA busy (`StaleBits`): if it drops the session's trigger
these bits stay, and the retry takes them for its own. They are not being
programmed, and are kept apart from `adrift` for that reason. `erred` collects the operations that ended in a transport error, after which
`retimerNotUpdated` is not that of the operation.

### `CompositeImage` and the code

The parser reads a field once, so its value is chosen when it is read and every
file is covered without being represented. The checks come in the code's order;
`HeaderFault` is that order for the header. Lengths and offsets are `size_t`:
`Add` wraps at `SizeMod`. `verified` counts the images whose CRC was compared.

### `ReadFw`, `ComputeHash` and the code

`rpc` is the place in the sequence; a caller sets it to `open` and continues
from `done` or `failed`. The retimer, its file and its descriptor are the
caller's. `ComputeHash` adds GetHash, the hash, the signal, and the process'
life: `Stop` at any moment, `Restart` with systemd's ExecStopPost, which
usually, not always, removes the file. The digest of a file is its content.
GetHash calls that are refused change nothing and have no action. `sound` and
`genuine` (history) remember which digest was computed from a read the FPGA did
begin and that met neither NACK, timeout nor short write; `leftover` remembers
a file that could not be removed.

### `UpdateSession` and its refinement

`UpdateSession` has no pages, polls or attempts. A session plans, and then
takes its operations in order: the transfer fails, or it succeeds and some
EEPROMs of the operation change until it is concluded, with one conclusion per
retimer that no later step revises. While an image is copied no EEPROM changes,
a conclusion without transport error is true, and the exit status agrees with
the conclusions. All that is under one condition, `stray`: retimers the FPGA
may be programming while nobody watches are excepted, and as long as there are
any a conclusion says nothing about EEPROMs.

With a stray retimer around, `Program` may also touch the retimers of the
operations before. The code needs that, and it takes three retimers to see why.
Operation 1 is for retimers 1 and 2; 1 fails, and the session loses 2 (a
timeout). Operation 2 is for 3, and the FPGA, busy with 2, drops its trigger.
The status register still shows the failure of 1, the check of operation 2
takes it for one of its own, and the retry programs 1 with operation 2's image.
The instance of the run has two retimers and does not show this; the proof does.

`UpdateFwRefinement` maps the
places of `pc` to four stages, the journal to the sequence of conclusions and
`adrift \cup stale` to `stray`; the operations, EEPROMs and `erred` are the session's own.
Every page, poll and retry is then a stutter or a `Program` step. The other
properties look at a state or a step; this one says that the whole behaviour is
one the journal's reader can rely on.

### `ReadCli` and the code

One run of the command after the other; `rpc` is `idle` between them. Whatever
the parser of the arguments lets through starts a run (`StartRun`), and
`Named` is the nibble `readRetimerfw()` makes of it. `NoDummyFile`, `StepFails`
and `StepDone` are the `goto exit`s of Main.c 352-398 around the read sequence;
`Exit` is the label. The file is never removed, so `Kill` and `Exit` leave it to
the next run. `excuse` (history) names what went wrong in a run without a trace
in `ret`, `genuine` the retimer whose firmware the file has held since a run
without excuse.

### `SharedFpga` and the code

The two processes share the DPRAM, the size and checksum registers and the
EEPROMs, each I2C transaction being a step of its own, and nothing else.
`ComputeHash` does not look at size and checksum, so its copy of the blank
image gets the two registers here. Histories: `disturbed`, the operations
during which the service or its read changed what the FPGA programs from;
`spoilt`, the retimers whose digest the update has made untrue. Nothing
orders the two programs in the code, and the model adds no order.

### `RetimerApp` and the code

A D-Bus round trip is a step: the two `Get`s of `getSKUId()`, each `Set`, each
of the two subscriptions, a dispatch. The same steps serve the scan of `main()`
and the two callbacks, told apart by whether a subscription exists
(`Scanning`). A call may find that the mapper does not know its object, or fail
for any other reason: a timeout, an owner that is gone, an error reply, a value
of the wrong type. Each of the four calls has its failing step
(`GetDeviceIdFails`, `GetVendorIdFails`, `SetSKUFails`, `SetSoftwareIdFails`);
the exception is caught wherever it is thrown and the update is lost, as the
code never retries. A `Set` is sent with `call_noreply()`, so that a refusal of
the owner is not even noticed; it is the same step. The failing steps may happen
any number of times. If the subscription throws (`ListenFails`) the application
stays in its loop with what it has. The owner creates and changes objects, which
sends signals, the mapper learns of them later.

Two histories name what the code cannot put right by itself. `unnoticed`
collects what happened without a signal the application could get. `lost`
collects the properties of which the latest look, or the setting after it, had a
failing call; the next look begins by taking its property out again.

### `RtManager` and the code

The JSON file is chosen once. `Refused` is the order of things as they are: a
bad field throws, the search in `rtInvs` finds nothing because `inventoryPath`
is never set, and the bus refuses a second object at a path. `Narrow` is the
conversion to `uint8_t`. Each `aries-info` may fail by itself. The command's
output is abstracted to whether it filled in the field.

## Runs

| Run | Shows |
|---|---|
| `update_session` | the properties of a session (below), that it implements `UpdateSession`, and that it ends although the FPGA need not; 1.4 million states |
| `composite_image` | the parser's four properties |
| `compute_hash` | the service's five properties, 0.9 million states |
| `read_cli` | the READ command: a result stays until the next complete one, exit status 0 means it is right but for five named excuses, every run ends; 73 thousand states |
| `shared_fpga` | an operation and a hash request interleaved, 1 million states |
| `retimer_app` | SKU and SoftwareId settle where no call failed, 1.5 million states |
| `inventory` | the inventory is that of the file, 1.9 million states |
| `update_timeout` | violated: `startRetimerFwUpdate()` returns 0 "if success" (I2C.c 1351) and also after a timeout without an error bit |
| `update_untargeted` | violated: the session's messages are about the retimers of the bitmap (Main.c 67), but after a transport error about all eight |
| `update_banner` | violated: "Retimer UPDATE SUCCESSFUL" (Main.c 434) after the image could not be opened |
| `read_returns_zero` | violated: `readRetimerfw()` returns 0 "if success" (I2C.c 1514) and also after the last NACK or timeout |
| `read_cli_blank` | violated: "dummy blank FILE ... to clear DPRAM" (Main.c 372), but the second READ passes the first one's result |

The session's properties: what `main()` reports of an operation without a
transport error agrees with the EEPROMs as long as nothing is adrift
(`ReportsAreReal`); each targeted retimer of each operation gets one conclusion,
not two and not none (`EveryTransferConcludes`); the DPRAM is the operation's
from trigger to check (`ProgramsRightImage`); a retry spares what is good
(`RetrySparesGood`); the counters stay in their loops (`TypeOK`). The condition
"nothing adrift" is needed: the violated runs show what happens without it, a
timeout or a lost poll makes the code report what it does not know.

Exit status 0 does not mean that the retimers are programmed. It is also the
status of a session whose image could not be opened, sized or mapped
(`update_banner`) and of one whose header is corrupt, since the low byte of -0x500
is 0. What does hold, with nothing adrift, is `ExitZeroMeansUpdated`: either the
journal has the failure of the image for every retimer of the command line, or
it has none and every retimer of every operation is programmed. So a reader of status and
journal together is not deceived, whatever operation failed on the way.

Nor are untargeted EEPROMs safe. An earlier session has left retimer 1 being
programmed and an error bit for 2; the new session is for 1, the FPGA drops its
trigger and finishes 1, and the poll shows the bit of 2, which
`startRetimerFwUpdate()` does not hold against its bitmap: the retry programs 2.
`UntargetedUntouched` says how far the harm goes: apart from the retimers the
FPGA is left programming, only those in `stale`, with an error bit set while the
FPGA is busy at the start, can be programmed without being on the command line.
Without `stale` in the formula TLC finds this behaviour.

What sharing the FPGA costs (`shared_fpga`): a hash request between the copy and
the trigger makes the FPGA program the service's blank image, and main() reports
success, because size and checksum belong to that image too. Even so a success
is one whole image, the operation's or the blank one (`SuccessIsWhole`): a
mixture ends in a checksum error. An operation in whose window the service
touched nothing is not affected by it at all (`UndisturbedIsReal`). A digest may
be of a DPRAM the update wrote into, or of an EEPROM it has programmed since,
and is right otherwise (`DigestUnlessSpoilt`). Dropping `Blank` or `spoilt` from
these formulas makes TLC find the race.

`FileGenuine` says that failing or dying runs never spoil a file, which is so
because only the last `write()` changes it, though it is opened for writing
first. `ExitZeroMeansRead` has the excuses the code leaves without an error
code: an argument above 15, a file that cannot be opened or sized, a last attempt
that met a NACK or a timeout, a trigger the FPGA dropped, a short `write()`. Each
is needed; TLC finds the false success when it is not excused.

`SkuSettles` and `SoftwareIdSettles` say what an idle application guarantees,
`EventuallySettles` that it comes to be idle: a SKU that mixes two readings, and
signals that arrive in the middle of a callback, are put right by the next
dispatch. What is in `unnoticed` or in `lost` is not: such a SKU stays wrong, or a
SoftwareId missing, until the application next looks at that retimer, which
without a signal is at a restart. The properties say that nothing else goes
wrong, that a failed call costs no other retimer and no other property, and that
one look in which nothing fails is enough. `InventoryOfFile` is
about which of several entries for an index wins (the first good one),
`OnlyFailedFieldsEmpty` about a failing command not costing other fields, and
`Serves` about bad entries not keeping the service from its loop. A list
without `RT` does: it ends, and systemd starts it again until its start limit
is reached.

### Bounds

- Session: two retimers (so that one may fail and the other not), two
  operations (so that one finds what the other left), images of one, two and
  three pages for a DPRAM of two (so that a short one follows a long one and one
  does not fit), two polls per attempt (a timeout, and a poll that is not the
  last), two attempts (the code's own number). `update_timeout`, `update_untargeted`
  and `update_banner` begin with an idle FPGA, so that the counterexample is this
  session's own. `update_session` begins also with one that holds an image an earlier session left, is still programming
  some of the retimers with it and shows a checksum error of others. Contents
  nobody knows, with bits set, are left to the proofs, which start from every
  state of the FPGA.
- Parser: two retimers and one bit that is none, up to three components, a
  `size_t` of four bits, header sizes 2 and 1. Sums wrap, tables and images can
  exceed the file, three components distinguish "previous" from "earlier".
- Hash service: two retimers with different content, a DPRAM of two pages (a
  half-read image exists), two polls, two attempts. The number of calls, kills
  and restarts is not bounded. The DPRAM is blank at the start; that it may
  hold anything is part of the proofs, and of the run from the second
  computation on.

- READ command: two retimers with different firmware, the argument 16, which is
  retimer 0 after the cut, a DPRAM of two pages, two polls, two attempts; runs
  and kills are not bounded.
- Shared FPGA: one retimer, one operation of a one-page image, a blank image of
  two pages (so that a mixture and a partial overwrite exist), one poll, two
  attempts, one hash request; the session starts behind its parser. A second
  request does to the FPGA what the first did.
- Application: two retimers (the first is scanned while the second changes),
  one with all its objects at the start and one without, two ids, one change
  of an id, one restart, and failing calls without a bound. A change between the
  two readings makes the mixed SKU, its signal is the repair. The
  run says CHECK_DEADLOCK FALSE: an application in its event loop waits for
  signals, for ever if the bounded environment sends no more.
- Inventory: every file of up to three entries over two indexes, a number that
  fits a byte, one that does not and a bad one: a bad entry, a good one and a
  second good one of the same index is the longest case the code distinguishes.

### Fairness

Only the program's steps are fair (weakly, as one action), and of those only
the ones in which nothing fails: the process is scheduled and its system calls
return, but no call has to fail, so that a loop that would end only by an error
does not count as ending. The FPGA's engine has no fairness, so termination does
not rest on it. Neither calling nor killing the service is fair. The READ command is
fair in the same sense (`StepDone` or `Exit`), and nobody has to start it. Of
`RetimerApp` only the application's own steps are fair: nothing is assumed of
the owner and the mapper, and no call has to fail. `RtManager` is one process with a command that comes
to an end, and is fair as a whole; a restart is systemd's, which the unit asks
for. `SharedFpga` has no fairness and no liveness property.

## Proofs

Checked with TLAPS for every set of retimers and images, number of pages,
operations, polls and attempts, width of `size_t`, sizes of headers, length of
the inventory's list, number of ids, changes and restarts. The assumptions are
the named ones of the modules: the numbers are naturals (at least one poll and
one attempt), the marker values differ from the real ones, the header table
fits `size_t`, an empty id is not one of the ids. Every safety property that a
passing run checks is a theorem, and so is the refinement.

`UpdateFw`. `TypeInv` adds to `TypeOK` that an operation under way exists and
its image fits, and that nothing has happened before the operations are known.
`CopyInv` says how much of the image is already in the DPRAM and registers at
each `pc`; `ProgramsRightImage` is its last case. `TargetInv` says that the
operations' bitmaps lie within the target, and `todo`, what is busy and the
error bits an attempt may still read within the target, what is adrift and what
is stale; with it a step of the engine can touch no one else. `LogInv` ties the journal to
`uo`: of the operation under way only the beginning, of those that are over one
conclusion for each retimer (`Concludes`). `Disjoint` keeps the bitmaps of the
operations apart, so that a later operation does not undo what was reported of
an earlier one. `StartInv`, which needs that nothing is adrift, relates `todo`,
the status register and the EEPROMs within an attempt: a retimer of the
operation that is neither busy nor marked as failed holds the image.
`OutcomeInv` carries this over to the journal and to `updateFirstErrRet`
(`ReportsTrue`); `CodeInv` says that the loop returns no code but 0 with a low
byte of 0, and `ImageInv` that the journal, once the session has ended, has the
failure of the image for every target or for none; with `OutcomeInv` they give
`ExitZero`. `RetrySpares` is an action
property and follows from the same invariants. `StartInv(G)` and
`OutcomeInv(G)` take what an EEPROM programmed by each operation may hold as a
parameter: of a session alone that is the operation's image (`Own`).

The refinement (`Implements`). `InitMapped` and one lemma for each kind of step
show that the initial states are `UpdateSession`'s and every step one of its
steps or a stutter. Two invariants more are needed. `StrayInv` says which
retimers a step of the engine may touch when something is adrift: those adrift,
the stale ones and those of the operations so far, among which are all whose error bits are
set or which are left to do. `FailInv` says that `updateFirstErrRet` is an error
exactly if a conclusion is a failure, transport errors and retimers adrift
excepted, which is what the exit status of the abstract session needs. `outcome`, which reads the conclusions off
the journal, is shown to change only where a conclusion is appended
(`SameOutcome`, `NextOutcome`, from `LogInv`).

`CompositeImage`. One inductive invariant: offsets inside the file and in
ascending order while the table is walked, bitmaps disjoint and within
`covered`. That a sum that does not wrap below its first term is the true sum
is `AddInBounds`.

The read sequence has two callers, and what they share is proved once, in
`ReadFwProofs`. `ReadCourse` is the order of a read: a taken trigger and a sound
read are this sequence's own, and a clear status is an answer to a poll and not
the cleared buffer of a timeout. `ReadContent` says that, if the FPGA took this
sequence's trigger, what it has filled so far, and the buffer copied from it,
is that retimer's content. Each step of the sequence and of the engine keeps
both, whatever the caller does with its own variables.

`ComputeHash`. `FileInv` says that without a leftover the file is absent outside
a computation and blank before the copy; `DigestInv` that a digest is genuine or
empty or not vouched for. `Genuine`, `BlankRead` and `FailureEmpty` follow.

`ReadCli`. `ExcuseInv` says what a run that is still without excuse has got by
when: the retimer it was asked for, the taken trigger, the sound read. With
`ReadContent` that gives `ExitZeroRead`, and, since only a last `write()`
changes the file (`FileChanges`), `FileStaysGenuine`.

`SharedFpga`. The invariant has a part for each program. `ServiceInv` is that of
`ComputeHashProofs` with `ReadContent` weakened to reads that are not spoilt;
the instance `H` makes its lemmas available once a step of the service is shown
to be one it could do alone (`ServiceIsHash`). `SessionInv` is that of
`UpdateFwProofs` with `CopyInv` for undisturbed operations only and with `Fine`
in place of `Own`: a programmed EEPROM of an undisturbed operation holds its image,
of a disturbed one its image or the blank one. `RegisterInv` is what is left of
`CopyInv` for a disturbed one: behind the copy the size register names its
image, the blank one or neither, so that the FPGA programs one of the two or
reports a failure (`FineImage`). Each program is then shown to keep its part, and not to
break the other's but where `disturbed` or `spoilt` says so.

`RetimerApp`. `Accounted` says of each retimer that its SKU is right, or is
being made right from what has been read and has not changed since, or that
there is a reason for the application to look again (a signal queued, the scan
still ahead), or that nothing could have told it, or that a call failed. That the SKU is right is not
inductive for an application that is between its first and its last call for
this retimer (`Busy`), since it may set what it read before a change: then one
of the others must hold, and the change's signal is the one that does.
`SkuNeverStale` and `SoftwareIdNeverMissing` are `Accounted` of an idle
application.

`RtManager`. `ObjectsInv` says that the objects are those of the good entries
before `k`, each described by the first good entry of its index; `FieldsInv`
that each field so far is filled in unless its command failed. The duplicate
check that never strikes is no part of the argument, the refusal of the bus is.

Only model-checked, because they are liveness under fairness: `Termination`,
`EveryCallSignalled`, `RunEnds`, `EventuallySettles` and `Serves`. The five
violated statements are shown by TLC.

## Not modelled

- The bytes: CRC32, the digits of the hash, the splitting of addresses. A
  checksum is equality of contents. `hashValue` has no room for its NUL; no
  module represents a stack frame.
- A writer of the image file while it is mapped: the parser's checks and the
  copy see the same bytes.
- The contents of log messages, the extended error register's printout, and
  what the logging service does with either.
- The messages `startRetimerFwUpdate()` logs of a single attempt. As state they
  multiply the session's journal by the events of every attempt, which no
  instance with two operations and two attempts survives. That the bitmap
  behind them accumulates over the three status bytes is listed as a hazard.
- In `ReadFw`: a `read()` of the file that returns fewer bytes than its size
  (I2C.c 935), which the code takes for all of it.
- In `ComputeHash`: a signal that `sd_bus_emit_properties_changed()` fails to send.
- When the owner of an object handles a `Set`: `RetimerApp` lets it do so at
  once, the code does not wait for it.
- In `ReadCli` and `RetimerApp`: arguments whose nibble is no retimer of the
  platform, ids shorter than the "0x" that `substr(2)` skips, objects that are
  removed, two switches of one retimer.
- In `SharedFpga`: kill and restart of the service and a temporary file that
  cannot be removed, which `ComputeHash` has; two sessions, or a READ command,
  at once, which do to each other what the service does.
- In `ComputeHash`: calls that are refused, and the registration of objects.
- The tests and build files, which have no behaviour of their own.

## Plan

Done: every module of the table above, the refinement, and a theorem for every
safety property of a passing run.

Next: the abstract side of the other components. A service whose digest is that
of a whole read or empty, which `ComputeHash` implements, and a reader's view of
the file of `ReadCli`, stated as specifications of their own, would say of them
what `UpdateSession` says of a session.
