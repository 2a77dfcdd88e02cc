# TLA+ models of WindowsDriver

The repository is a collection of Windows kernel drivers and the user-mode
programs that exercise them: **vmulti**, a virtual multi-collection HID device
(a KMDF minidriver below the HIDCLASS shim `hidkmdf`, and a client library that
feeds it with reports), a set of NT-style teaching drivers written from one
skeleton, a WDM driver, and the program that loads and unloads the NT-style
ones. Most sources are GBK-encoded; comments quoted below are translated.

What makes these programs hard is not their algorithms but their concurrency:
dispatch routines run in parallel on one device extension, requests are parked
and completed by somebody else, IRPs are cancelled while they are being served,
several processes compete for the same handles, device names and services. The
models keep that control completely, and abstract the data: a report is named
by the write that sent it, a byte by the write that stored it.

## 1. Inventory

| Part | Source | State | Operations | Talks to |
|---|---|---|---|---|
| vmulti minidriver | `vmulti/sys/vmulti.c`, `vmulti.h`, `inc/vmulticommon.h` | `ReportQueue` (manual WDFQUEUE of parked reads), `DeviceMode` | internal device controls: read, write, get/set feature, descriptors, strings, activate/deactivate; `IRP_MN_QUERY_ID` | HIDCLASS through `hidkmdf`; the framework cancels and purges parked reads |
| client library: connection | `vmulti/client/client.c` 81-129, 393-594 | `hControl`, `hMessage` | alloc, free, connect, disconnect | SetupDi/HidD/HidP and `CreateFile`, with every other process that opens HID interfaces |
| client library: reports | `vmulti/client/client.c` 131-374, 596-626 | one `controlReport` buffer per client | `vmulti_update_*`, `vmulti_write_message`, `vmulti_read_message` | the minidriver's control and message collections |
| `hidkmdf` | `vmulti/hidmapper/hidkmdf.c` | the device HIDCLASS makes for it | `HidKmdfAddDevice`, passing IRPs on, starting the next power IRP | HIDCLASS above, the minidriver below |
| serialised reads | `SpecialStartIOTest/Driver.cpp` | `KDEVICE_QUEUE`, per-IRP cancel routine | `HelloDDKRead`, `MyStartIo`, `OnCancelIRP` | applications, the I/O manager's cancellation |
| simulated file | `WDMBasicFunction/Driver.cpp` | `buffer`, `file_length` of the device extension | read, write, query information | applications |
| NT driver skeleton | `NTDriver1`, `SpecialStartIOTest`, `WDMBasicFunction`, `BasicFunction` | device and symbolic-link names | `DriverEntry`, `CreateDevice`, `HelloDDKUnload` | the I/O manager's name space |
| loader | `LoadNTDriver/main.cpp` | `hServiceDDK`, `bRet` | `LoadNTDriver`, `TestDriver`, `UnloadNTDriver`, `main` | service control manager, drivers |
| exercises | `BasicFunction/{LinkList,Lookaside,DString,DFile,DRegedit}.cpp` | handles, pool blocks, lists | list, pool, string, file, registry routines | kernel routines; keys and files other processes share |
| HelloWDM | `HelloWDM/HelloWDM.cpp` | FDO, lower device, name | `AddDevice`, `HelloWDMPnp`, remove | PnP manager, the bus driver below |
| KMDF skeletons | `KMDFCapter1`, `KMDFDriver1` | none | `DriverEntry` | - |
| `DispatchTest` | `DispatchTest/*.cpp` | local | sequential Win32 calls | drivers |

Hard behaviours, and what correctness means for each part:

* **Minidriver.** The default queue is parallel: several write handlers take
  reads out of the `ReportQueue`, while other handlers park reads and the
  framework cancels or purges them. No read may be worked on by two of them,
  every request is completed exactly once, a report reaches exactly one read,
  byte counts agree on both sides, a client that waits for its writes sees them
  arrive in order, `DeviceMode` is never answered out of date.
* **Client, connection.** Handles exclude each other (no `FILE_SHARE_WRITE`),
  a search opens every interface to look at it, and failures occur with one or
  two handles open. No handle may leak or be closed by anyone but its owner.
* **Client, reports.** All reports share one buffer that is never cleared, and
  a touch list goes out as several reports any of which can be refused. No
  stale byte and no memory behind the caller's array may be sent, and a consumer
  must never assemble a frame from two lists.
* **Serialised reads.** Callers race to become the one that runs `MyStartIo`;
  cancellation races both the queue and the server. One server at a time, first
  come first served, every read completed, and completed once.
* **Simulated file.** No lock at all: `memcpy` and the update of `file_length`
  of concurrent calls interleave.
* **Drivers and loader.** All drivers use the same names; loads, failed loads
  and unloads of several programs interleave. Links lead to devices, drivers
  that are gone own nothing, nobody unloads somebody else's driver, deleted
  services disappear.
* **Device stacks.** An IRP passes several drivers, each of which may complete
  it, pass it on, or wait for it to come back; adding a device fails half-way
  and removal has to undo however far it got. Every IRP is completed once and
  comes back, power IRPs do not block the next ones, and a removal leaves
  nothing of its stack behind and takes nothing else away.
* **Exercises.** Straight lines of kernel calls whose results are hardly looked
  at, over keys and files that others change meanwhile. Handles and blocks are
  given back on every path, and nothing undefined is used as long as all goes well.

`PROJECT.json` lists the individual hazards with their lines.

## 2. Modules

Each component has a module with one action per operation, or per step of an
operation where another thread or process can be seen in between. An `MC`
module gives the constants for TLC; a `Proofs` module holds theorems. The
definitions with a suffix (`DeliverReport_IgnoresStatus`) are plausible bugs of
the operation they are named after; no specification uses them, they serve to
confirm that each property can fail.

### VMulti (abstract: ReportPipe; proofs: VMultiProofs)

`pc[r]` follows the handler of request `r` through `VMultiEvtInternalDeviceControl`.
`Dispatch` is the framework handing over a request. A read is parked by
`VMultiReadReport` (`WdfRequestForwardToIoQueue`). A write is checked by
`VMultiWriteReport`, takes the oldest parked read in `RetrieveNextRequest`
(`WdfIoQueueRetrieveNextRequest`), and in `DeliverReport` tests the read's
buffer, copies the report and completes the read; `CompleteRequest` is the
common end of every handler. A read is `"taken"` between the last two: out of
the queue, no longer cancellable, known to its write only (`reqRead`).
`VMultiSetFeature`/`VMultiGetFeature` work on `DeviceMode`; `AnswerConstant`
and `VMultiGetString` are the descriptor and string requests. `CancelQueued`
and `PurgeQueues` are external: what the framework does to a queue on
cancellation and device removal. The writer's bytes and the reader's are one
number each, taken from `reportLength`, a byte of the report itself. Four
history variables (`earlier`, `parked`, `arrived`, `delivered`) are read by
properties only.

`ReportPipe` is what the driver promises its clients: a rendezvous, in which a
write and a waiting read meet in one atomic step, or the write is refused and
leaves nothing behind. `ImplementsPipe` maps the handlers' steps to it: a write
is new until it has delivered; a taken read still waits.

### StartIo (abstract: SerialDevice; proofs: StartIoProofs)

`pc[c]` follows the call `HelloDDKRead(c)`; `MarkPending`, `InsertDeviceQueue`
(`KeInsertDeviceQueue`), then, for the caller that finds the queue idle, the
loop of `MyStartIo`: `CompleteIrp` (the three-second wait ends, `IoCompleteRequest`)
and `RemoveDeviceQueue` (`KeRemoveDeviceQueue`). `IoCancelIrp` and
`OnCancelIRP` are the cancel path; it runs beside all of these. Completing an
IRP a second time is a bug check: the model counts it and
nothing happens after it (`Running`), which is why `EveryReadCompletes` speaks
of reads as long as the system runs. `SerialDevice` serves a backlog one item at a
time in order of arrival; whose call runs the loop is invisible in it.

### SimFile (proofs: SimFileProofs)

`pc[c]` follows one dispatch routine: bounds check, `memcpy` byte by byte
(`CopyByte`), the comparison with `file_length` and the assignment to it as two
steps (`CompareLength`, `StoreLength`), completion. ULONG arithmetic is modulo
`Word` (2^32 in the code), so an offset of `Word` is truncated to 0 as the cast does.

### ClientConnect (proofs: ClientConnectProofs)

Several processes; each system call is a step and may fail. A search goes through
`Interfaces` with `OpenDeviceInterface` (skips what someone else holds, or what
`malloc` or SetupDi fail for) and `CheckIfOurDevice`. `FreeTwice` is the path on
which the detail buffer is freed a second time: the system goes on or stops the
process, whose handles the system then closes. `hControl`/`hMessage` start as `"GARBAGE"`
since `malloc` does not clear them. Callers disconnect what they have connected,
as the library's test program does. `CloseControl`/`CloseMessage` are the two
`CloseHandle` calls of `vmulti_disconnect`.

### ClientReports (proofs: ClientReportsProofs)

One client. A byte is a pair of the call that wrote it and the touch or
constant it carries, so stale contents are visible: `Fill` writes some bytes `Over`
the buffer and leaves the others. `Update` fills and sends
the six single-report functions; `SendTouches` is one turn of the loop of
`vmulti_update_multitouch`. What readers find in a report is what
`DefaultReportDescriptor` declares: its bit fields, translated from
`vmulti.h`, decide the length a report must have and which of its bytes are
data. The touch consumer is the standard one for touch reports with
`ActualCount` only in the first, and a full input buffer of the message
collection drops its oldest message (both external). `vmulti_read_message`
takes messages out at any time, as a second thread may.

The model needs one thing of the driver, that a report is passed on whole or
refused; that is what `ReportPipe` promises and `VMulti` is checked to keep, so
the two are not multiplied into one state space.

### DriverLoader (proofs: DriverLoaderProofs)

Several processes run `main`. The service control manager (`service`, `marked`,
`handle`) and the I/O manager's name space (`device`, `link`, `opened`) are
external state, modelled from how the code uses them; `DriverEntry` runs inside
`StartService` and `HelloDDKUnload` after `ControlService` when the last handle
to its devices is closed. A device that a failing `DriverEntry` leaves behind
becomes an `"orphan"`: its name is taken for good. `buffer` and `lost` follow the
pool buffer of `WDMBasicFunction`, which a failing symbolic link loses. `main` has the
driver's name compiled in (`main.cpp:235`), so each driver comes with a loader and a
service name of its own; two programs of the same driver share theirs.

### PnpStack (proofs: PnpStackProofs)

Two kinds of stacks: HelloWDM's functional device over its PDO, and hidkmdf's
functional device over the minidriver's filter device over a PDO. `next` is
what a device is attached to. `HelloWDMAddDevice`, `VMultiEvtDeviceAdd` and
`HidKmdfAddDevice` add one device, each with its failures. An IRP carries its
stack locations in `path` (`IoSkipCurrentIrpStackLocation` reuses the last,
`IoCopyCurrentIrpStackLocationToNext` adds one), and in `calls` the drivers
that wait for it to come back: removal continues there, in
`HandleRemoveDevice` and `RemoveOwnDevice`. `powerBusy` is what
`PoStartNextPowerIrp` clears. The PnP manager, HIDCLASS, the bus driver and the
framework are external; they send one IRP at a time.
Two branches that one would expect are not there because the code cannot take
them: the symbolic link of HelloWDM has the name of the device itself, so
`AddDevice` always fails; and the location above the minidriver's is always
that of hidkmdf's device, so a query is always answered as the child's.

### Exercises (proofs: ExercisesProofs)

Each exercise is a table of the kernel calls it makes, in their order, with its
loops as segments that repeat; the actions are the kinds of calls. Every call
may be refused. What a refused call should have delivered is unspecified, a
handle that was never opened or is already closed may lead anywhere, and
touching a NULL pointer stops the system; a query or a read that is given a NULL
block may also fail instead. Keys, values and files belong to
everybody: `OthersChange` alters them between any two calls. `disturbed`
remembers that a call was refused or somebody interfered, `undefined` what kind of
undefined thing was used. A size of 0 stands for an object that is not there, so an empty
file is not told from an absent one. `DriverEntry` calls only `RegTest`, which calls only
`SetRegTest`; the other exercises are enabled by removing comment marks, and
all of them are checked.

## 3. Runs and bounds

| Run | Instance | What it shows |
|---|---|---|
| `VMultiMatching` | 4 requests, reads and writes of lengths 1 and 2 (594k states) | `ReadOwnership`, `CompletedOnce`, `ReportsMatchReads`, `BytesAgree`, `SerialWritesInOrder`, `RefusedOnlyWhenEmpty`, `OldestReadFirst`, refinement of `ReportPipe` |
| `VMultiChecks` | 3 requests: any two of 21 packets, one per check of a handler, and a feature request (803k) | `TypeOK`, every handler replies, `FeatureIsFresh` |
| `VMultiStranded` | 3 requests | **violated**: `DeferredUntilMatched` (finding 1) |
| `StartIoReads` | 5 reads, 2 of them cancellable (192k) | `TypeOK`, `OneServer`, refinement of `SerialDevice`, `TwiceOnlyWhenCancelled`, `EveryReadCompletes` |
| `StartIoCancelled` | 2 reads | **violated**: `CancelledStaysCancelled` (finding 2) |
| `SimFileRaces` | 3 calls, 9 parameters, buffer of 3 bytes, word of 8 (82k) | `LengthFollowsWrites`, `ReadIsRegular`, `QueryIsFresh` |
| `ConnectHandles` | 3 processes, 3 interfaces, one held by the system (945k) | `HandlesAccounted`, `ConnectedHolds`, `FailsOnlyWithReason` |
| `ClientReports` | 4 calls, up to 5 touches, 2 input buffers (427k) | `NothingStale`, `MessagesInOrder`, `FramesAreWhole`, `TrueMeansWholeFrame` |
| `Loader` | 3 programs, 2 drivers, endless (171k) | `LinkLeadsToDevice`, `UnloadedOwnsNothing`, `StaysLoaded`, `DeletedServiceGoes` |
| `PnpStack` | 2 stacks of each kind, endless (12k) | `RemovedLeavesNothing`, `EveryIrpCompletes` |
| `PnpRemove` | 1 stack of each kind | **violated**: `RemoveDetaches` (finding 3) |
| `Exercises` | all 21 exercises; sizes to 2, 2 entries, 4 elements (43k) | `EverythingReturned`, `DefinedUnlessDisturbed` |

Why the bounds are enough:

* *VMulti.* Two reads and two writes are the smallest instance in which two
  writers race for reads, overtake each other between taking and completing, or
  meet an empty queue while another read is being parked; with sizes 1 and 2 a
  report fits one read and not the other. A request is used once: an IRP that
  HIDCLASS recycles is a new request. Requests are interchangeable, hence the
  symmetry in safety runs; runs with liveness use none.
* *StartIo.* Five reads fill the queue behind a server and let a late caller
  insert just before, during and just after the queue runs empty.
* *SimFile.* With three bytes, the writes overlap in one byte, end exactly at
  the end, one byte beyond, or are empty; three calls are two racing writers and
  an observer.
* *ClientConnect.* Two competitors and a third that only looks; the foreign
  interface lies between the two collections, so that it is met in both searches.
* *ClientReports.* Five touches are two full reports and an odd one; four calls
  let a partial list be followed by another list and by other reports, and
  write more messages than the two input buffers (ten in the code) hold.
* *Loader.* Two programs share one service, the third brings a driver whose
  second device can be missing while its first one is in the way.
* *PnpStack.* Two HelloWDM devices compete for the one name; two HID stacks show
  that one's removal or power IRPs leave the other alone.
* *Exercises.* Two sizes and two entries are enough for a value that grows, and
  a key that loses or gains entries, between two calls. Four list elements
  stand for the 10 and the 50 of the code: the loops treat all alike.

`MaxCalls`, `MaxTouches`, `InputBuffers`, `MaxSize`, `MaxEntries` and `Elements`
are all the bounds on counters and sizes in the project.

Runs without deadlock checking (`CHECK_DEADLOCK FALSE`) are those in which a finite
set of requests or calls is used up, or an exercise ends. `ConnectHandles`,
`Loader` and `PnpStack` go on for ever and are checked for deadlock.

### Fairness

* `VMulti!Fairness`: weak fairness of each dispatched handler. Handlers take no
  lock and wait for nothing. Sending and cancelling are not fair: nobody has to.
* `StartIo!Fairness`: weak fairness of a call that has entered `HelloDDKRead`;
  its waits end after three seconds. Entering is the application's choice.
* `DriverLoader!Fairness`: weak fairness of each running program and each
  running unload routine. `main` waits for keys, so this includes a user who
  presses them; starting a program again is not fair.
* `PnpStack!Spec`: weak fairness of `Dispatch`: a driver whose dispatch routine
  has been called returns, and the drivers that wait for it go on. Sending
  IRPs and adding devices are not fair.

### Findings

1. **A read that is too short for the report is lost** (`vmulti.c:857`). If the
   oldest parked read cannot hold the report, `VMultiProcessVendorReport`
   returns an error for the write and forgets the read it has already removed
   from the queue. The read is never completed, requeued or cancellable, although
   the comment at `vmulti.c:888` says it is deferred until a write matches it. Short
   reads are what `IOCTL_HID_GET_INPUT_REPORT` queues.
2. **A cancelled read is completed twice** (`SpecialStartIOTest/Driver.cpp:28`).
   `OnCancelIRP` completes the IRP but leaves it in the device queue, and
   `MyStartIo` completes it again without looking at `Irp->Cancel` or clearing
   the cancel routine. The comment at line 232 says the status becomes
   `STATUS_CANCELLED`.
3. **Removal deletes the device below** (`HelloWDM/HelloWDM.cpp:133`).
   `HandleRemoveDevice` is meant to detach its device, says the comment two
   lines above, but calls `IoDeleteDevice` on the device it is attached to, which
   belongs to the bus driver.

Known consequences of the code that no run asserts the opposite of:

* overlapping writes can leave the smaller length, and a write that ends at the
  last byte makes `file_length` equal to `MAX_FILE_LENGTH`, where the comment at
  `WDMBasicFunction/Driver.h:32` says less than (the bound check is the sensible
  one: the comment is off by one);
* `GET_STRING` answers as many bytes as the caller has room for, not as long as
  the string is;
* `main` of the loader never prints its unload error since it tests the result
  of the load again;
* a search passes over a collection another process is only looking at;
* `IRP_MN_QUERY_ID` for the parent is answered with the child's ids: the test at
  `vmulti.c:208` compares the previous location with the minidriver's own
  device, which hidkmdf, always in between, keeps it from ever being;
* HelloWDM's `AddDevice` cannot succeed, and the device it leaves stays attached
  until the removal;
* `IOCTL_HID_DEACTIVATE_DEVICE` leaves parked reads parked, although the comment
  at `vmulti.c:388` speaks of terminating outstanding I/O;
* `StringCompareTest` compares a string it has not initialised (the other one is
  initialised twice), `StringInitTest` writes to a literal, `QueryRegTest` never
  frees the block of its second value, and the exercises go on with handles
  that were not opened.

## 4. Proofs

All theorems hold for arbitrary constants that satisfy the named assumptions of
the modules: any number of requests, clients, interfaces, programs, devices and
calls, any packets and sizes. The assumptions say no more than what the constants are:

| Assumption | What it asks |
|---|---|
| `VMultiAssumption` | packets are records of requests, sizes of structures are positive, a control report has room for its header (which the descriptor fixes) |
| `StartIoAssumption` | cancellable IRPs are IRPs |
| `SimFileAssumption` | lengths of requests fit a ULONG (`Word`), and so does the buffer |
| `ClientConnectAssumption` | the interface list is a sequence of interfaces with usages; names are distinct |
| `ClientReportsAssumption` | `actualCount` is a byte, there is at least one input buffer, calls are counted up to a bound |
| `DriverLoaderAssumption` | a program loads one of the four drivers |
| `PnpStackAssumption` | a device is of one kind only, `None` is neither a device nor an IRP |
| `ExercisesAssumption` | things have sizes, a list has at least one element, a key may have no entries |

Each invariant that a passing run checks is a theorem, and so are
both refinements. Hardly any of them is inductive alone; each was
checked by TLC in its strengthened form before it was proved. Everywhere there is one
lemma per action (or per group of actions that touch the same variables), with one
step per conjunct that it disturbs.

**VMultiProofs**: `TypeCorrect`, `ReadOwnershipAlways`, `CompletedOnceAlways`.
`ReadOwnership` needs that a handler about to retrieve or deliver is a *write* (so
that it is not itself the read someone parks), that a taken read is not also in the
queue, and that the completion counter follows the program counter: `OwnershipInv ==
TypeOK /\ ReadOwnership /\ CompletedOnce /\ Roles`. The hard steps are retrieving and
cancelling, which remove an element from the middle of the queue:
`WithoutIndexFacts` says what remains.

What becomes of the reports follows in the same module, in three layers on top of
`OwnershipInv`.
* `AnswerInv` says where the contents of every answered buffer come from
  (`FilledBy`), that no report is in two of them and that success means one
  is filled: `ReportsMatchReadsAlways`, `BytesAgreeAlways`.
* `HistoryInv` and `OrderInv` add what the history variables mean (whoever was
  finished at a dispatch stays finished; a read seen parked has entered and, once
  gone, does not come back; `DeviceMode` is that of a set request that no other
  followed): `SerialWritesInOrderAlways`, `RefusedOnlyWhenEmptyAlways`,
  `FeatureIsFreshAlways`.
* `ArrivalInv` ties the queue to the order of parking: whatever has been handed out was
  parked before everything still queued. Without this, a write overtaking
  another between taking and completing would break `OldestReadFirst`:
  `OldestReadFirstAlways`.

`RefinesReportPipe` is the refinement of `ReportPipe`, each handler step mapped to a
step of the pipe or a stutter. It needs `OwnershipInv` (that the read a write
holds still waits, so that both change hands at once) and the types of the answers.

**StartIoProofs**: `OneServerAlways` and `TypeCorrect` for every set of
cancellable IRPs, from `ServerInv`, which ties `busy` and the queue to the call
that runs the loop. `PlaceInv` says where an IRP is (before its insertion, once in
the queue, in the server's hands, or finished), so that the loop finishes none
twice. `CountInv` adds who has completed it: `TwiceOnlyWhenCancelledAlways`, that a
second completion takes both the loop and a cancel routine, and
`CompletedAtMostOnceAlways` under `Cancellable = {}`. `NoneLostAlways` is the safe part
of `EveryReadCompletes`: a read that was handed to the queue is completed, or in the
hands of the server, or waits while there is a server (`LostInv`, with `OneServer`), so
that only the server's progress, the fairness, is left to TLC. `RefinesSerialDevice` is the
refinement of `SerialDevice` with `Backlog` evaluated under `ServerInv`
(`BacklogValue`). (It holds with cancellation as well: cancelling disturbs
neither the queue nor the server, which is finding 2 seen from the other side.)

**SimFileProofs**: `TypeCorrect`, `LengthFollowsWritesAlways`,
`QueryIsFreshAlways`, `ReadIsRegularAlways`. `ProgressInv` is what is known of a call
from where its routine stands (in particular that an accepted copy stays in the
buffer). `LengthInv` separates the two cases: always, `file_length` is the end of an
accepted write; and as long as no two writes have overlapped there is one
writer, the length is that of the longest write, and a length about to be stored is
larger. `BytesInv` follows each byte to the write that stored it and says that
no write that began after it had returned is already over it.

**ClientConnectProofs**: `TypeCorrect`, `HandlesAccountedAlways`,
`ConnectedHoldsAlways`, `FailsOnlyWithReasonAlways`. The invariant `ClientInv`
reads off from a client's position which handles it owns (`OwnsControl`,
`OwnsMessage`), that those and the one it is looking at are *all* it has open,
and that a search without an excuse has looked at everything it has passed.

**ClientReportsProofs**: `TypeCorrect`, `NothingStaleAlways`,
`MessagesInOrderAlways`, `FramesAreWholeAlways`, `TrueMeansWholeFrameAlways`, for
any number of touches that fits a byte. `NothingStale` rests on `DescriptorFacts`:
for each kind of report the descriptor declares the length of the packed
structure, and every byte with data in it is one the function assigns. (The bit
positions are a recursive sum; it is evaluated field by field by exhibiting the
function that satisfies the recursion, `SumFacts` and the `Layout` lemmas. Of a
keyboard report the unassigned second byte is padding.) The invariant `ReportsInv`
adds `Touching` (while a list goes out, the header is in place and the consumer's
frame is that call's, with exactly the touches sent so far), `Completed` (no frame
of a list still unfinished is there yet) and `Messages` (what is unread is the
end of what was written, what was read came before it, and only what has that many
messages behind it is missing).

**DriverLoaderProofs**: `TypeCorrect`, `LinkLeadsToDeviceAlways`,
`UnloadedOwnsNothingAlways`, `StaysLoadedAlways`. `LoaderInv` says what a program's
position tells about its service, and that it is the only one that has started
its driver (`Alone`); `DeviceInv` what the progress of a `DriverEntry` tells about
each device and link, which is where a driver that fails half-way matters.

**PnpStackProofs**: `TypeCorrect`, `RemovedLeavesNothingAlways`. `StackInv` says what is attached to what, that only a
removal on its way back finds a stack without its middle, and that a removal
leaves no attached device whose driver is not still to return.

**ExercisesProofs**: `TypeCorrect`, `EverythingReturnedAlways`,
`DefinedUnlessDisturbedAlways`, `LoopsEnd`. An exercise is a program that the
source fixes, so the argument is Floyd's: an assertion before each of its calls
(`Reading`, `Enumerating`, `InArray` ...), which says where control may be, in which
positions a handle is open, what each pointer holds, and how many blocks are
outstanding; and that each call takes the assertion before it to the one after it or
leaves the exercise `Ended`, with everything returned. Most of it holds whatever is refused; what
holds only `~disturbed` (a handle *is* open, a size *was* delivered, `n` is the
number of entries) is kept apart, since `DefinedUnlessDisturbed` is about that part. `ExerciseInv`
is the assertion of the exercise at hand, or `Ended`, with the types. The lemmas come in
layers: the tables of calls (`ReadFileTestTable`), what a call of each kind
does (`Frees`), where control goes next (`NextCall`, `EnumerateNext`), and one lemma per exercise
that a step keeps its assertions (`ReadFileTestStep`); exercises that differ in
names only share one (`OneHandleStep`, `EnumeratingStep`). Three assertions are less than
obvious. `Listing` must tie the loop's bound `n` to the entries the key has *now*, or a
size could be asked of an entry that is gone. In `InArray` it is `Backed`: allocations
may fail in any pattern and a freed `NULL` stops the system, so what matters is that the
array has a block outstanding for each element before its first `NULL`. And `Querying`
counts the block of the second value, which nobody frees.

`LoopsEnd` is termination, stated as safety: `CallsLeft`, a bound on the calls an exercise
can still make, is a natural number, and every step but those of others lowers it. It
is built from what the condition of the running loop is about: `n - i`, `Elements - i`, or
the length of the list. So it needs that in the `entries` loops no call overwrites `n`
(`NextKeepsBound`), though the key's entries may change all the time, that each iteration of
`LinkListTest` takes an element off the list (`Unlinking`), and that inside a loop something
is left of it (`Measured`). That an exercise which can go on does so is fairness, and
not claimed.

**Only model-checked**: liveness (`HandlersReply`, `EveryReadCompletes`,
`DeletedServiceGoes`, `EveryIrpCompletes`), which is out of the prover's reach.
`CompletedAtMostOnce`, `NoneLost` and `LoopsEnd` are proved only: with nobody
cancelling the first needs no run of its own, the second is what `EveryReadCompletes`
rests on, and the third is what makes the bounds of `Exercises` finite.

## 5. Not modelled

* KMDF skeletons and `DispatchTest`: no state beyond local variables. The same
  holds for `StringUpcaseTest` and for the dispatch routines that complete
  their IRP at once (`HelloDDKDispatchRoutine`, `HelloWDMDispatchRoutine`).
* Interrupt levels: that `MyStartIo` waits for an event at `DISPATCH_LEVEL`
  breaks a rule of the kernel, which is not a state of this code. The wait is a
  step that ends.
* What becomes of a system after undefined behaviour: a second completion, a
  stop at a second free, a `NULL` pool buffer of the simulated file, a sum of
  offset and length that wraps around.
* A value of `RtlRegTest` whose type others have changed: `RTL_QUERY_REGISTRY_DIRECT` takes
  what it finds, and the exercise looks at the status only.
* `HidP_GetCaps` failing: `CheckIfOurDevice` tests its `NTSTATUS` with `!`
  (`client.c:573`), so that it would go on with uninitialised capabilities. It cannot
  fail with preparsed data just obtained.
* Two threads sending reports through one `vmulti_client`: the library makes no
  provision for it.
* What HIDCLASS does on deactivation, and what a touch reader makes of more
  contacts than the eight the descriptor declares (`MULTI_MAX_COUNT` answers 20).
* Several IRPs at once in one device stack, and surprise removal: no driver here
  has code for either.

## 6. Plan

Done: (1) VMulti with ReportPipe and its first proofs, (2) StartIo with
SerialDevice and its proofs, (3) SimFile, (4) ClientConnect and ClientReports,
(5) DriverLoader, (6) PnpStack, (7) Exercises. No component with state of its
own is left.

Proofs: everything the runs check, liveness apart, of all components. What is left
to do follows the code: a fix of one of the three findings turns its violated
property into an invariant to be proved, and drivers that get code for surprise removal
or for several readers of one device need new actions.
