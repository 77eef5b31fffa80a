# chip-spv in TLA+

CHIP-SPV runs HIP programs on Level Zero and OpenCL. This directory holds TLA+
models of its runtime library (`src/src`), the TLC configurations that check
them on small instances, and proofs, checked by TLAPS, of the properties that
matter most for any number of threads, queues, devices and sizes. Paths below
are relative to the repository; `CHIPBackend.cc:99` is short for
`src/src/CHIPBackend.cc:99`.

    tlc -workers 2 -config queue_sync.cfg MCLevel0Queue.tla
    tlapm Level0QueueProofs.tla

`PROJECT.json` lists the runs, the source lines behind every definition (`map`),
the hazards, and one faulty variant of the code for every property (`mutants`;
the variant stands before the definition it replaces and its comment begins
with "Slip:").

## 1. The system

One `CHIPBackend` object per process (`Backend`) owns contexts, devices and
queues. The HIP API (`CHIPBindings.cc`) is a thin layer that calls
`CHIPInitialize()` and then one method of these objects. The base classes
(`CHIPBackend.hh/.cc`) keep the state; `backend/Level0` and `backend/OpenCL`
override what talks to a driver. There is no thread of the runtime's own:
concurrency comes from the application's host threads and from the device.
Locks are scarce: a mutex in the backend (configuring a launch), one in the
context (allocating), one in the allocation tracker and one in each event.

| Component | State | Operations | What makes it correct |
|---|---|---|---|
| Level Zero queue (`Level0Backend.cc:79-115, 376-529`) | an immediate command list, one finish event, one shared buffer | asynchronous operations; `finish()` = append barrier, wait, reset; `memCopy` = append + `finish()` | a blocking call returns, and only after the work before it |
| Level Zero event (`Level0Backend.hh:217-367`) | `event_status`, a `ze_event`, a timestamp, a mutex | create, destroy, `recordStream` (four appends), `wait`, `isFinished`, `updateFinishStatus`, `getElapsedTime` | a finished event covers the work before its recording and has its own timestamp; nothing is written to a destroyed one |
| Device memory (`CHIPBackend.cc:15-63, 605-666`) | `total_mem_used`, `max_mem_used`, `dev_to_allocation_info` | `allocate`, `free`, `reset`, `getName` (!) | the tracker covers what the program has and stays within the device |
| Kernel launch (`CHIPBindings.cc:105-131, 1768-1906`, `CHIPBackend.cc:126-203, 769-790, 982`) | the process-wide `chip_execstack`; one kernel object per device and function | configure, set argument, launch; push, pop, `hipLaunchKernel` | a kernel runs with the grid, group size and arguments of its own launch, on its stream |
| Streams and active device (`CHIPBackend.cc:512-553, 588, 695-706, 916-931`) | `chip_queues` of every device and of the context, `active_dev`, `active_q` | create, destroy, find, `hipSetDevice` | a live stream is found, a destroyed one is not, device and queue go together |
| Fat binaries, modules, kernels (`CHIPBindings.cc:1922-2026`, `CHIPBackend.cc:113-124, 244-272, 484-510, 803-811`) | `binaries_loaded`, `modules_str`, `chip_modules`, host pointers of kernels | register/unregister binary, register function, compile, find by host pointer, `hipInitFromOutside` | a host function finds its own kernel on every device; the count is exact; no deleted string is used |
| Device selection (`CHIPBackend.cc:813-914`) | a loop | `findDeviceMatchingProps` | what is returned meets the request |
| Memory copy API (`CHIPBindings.cc:1261-1640`) | none | `hipMemcpy*`, `hipMemset*`, copies by rows | a blocking copy that returns is made |
| OpenCL queue and events (`CHIPBackendOpenCL.cc:228-333`) | a `cl::CommandQueue` | launch and copy; the rest, and all of its events, are stubs | as for Level Zero |
| Argument setup (`Level0Backend.cc:722-855`, `CHIPBackendOpenCL.cc:335-448`, `CHIPBackend.cc:184`) | the argument values of the kernel object; offsets and data of the launch | `hipSetupArgument`, `setupAllArgs` | each argument reaches the parameter it belongs to |
| SPIR-V table (`spirv.cc`) | tables of types and entry points while it reads | one turn per instruction | kernels and parameters as in the binary |
| SVM region (`SVMemoryRegion.cc`) | a map of pointers | allocate, free, look up | a pointer inside a block finds its block |
| Backend selection (`CHIPDriver.cc`) | `once_flag`s, environment | `CHIPInitialize`, `CHIPUninitialize` | one backend, built once |
| Textures, copy variants, attributes, HIPRTC, logging | none that outlives a call | - | - |

How they interact: a stream of the application (Streams) is a queue (Level0Queue)
that events are recorded in (Level0Event) and kernels launched on (KernelLaunch);
the kernel a launch needs was put on the device by registration (Modules), which
read its parameters from the binary (SpirvModule), by which the launch sets its
arguments (KernelArgs); a copy is a call on one or several queues (StreamWork); the
buffers it works on were reserved in the tracker (DeviceMemory).

What is hard: host threads inside the same object without a lock; steps of the
host and of the device interleaved; objects shared that look private (the
finish event and the buffer of a queue, the kernel object, the execution stack);
driver errors, which become exceptions, in the middle of a sequence; a lock
held while blocking; globals (`active_dev`, `active_q`) that other threads
change; constructors and destructors of shared objects in any order.
`PROJECT.json` lists each hazard at its line.

## 2. The modules

    StreamSync <-refines- Level0Queue            SpirvModule  KernelArgs
        ^                                              \       /
        |instance                                      Arguments
    StreamWork -extends-> Streams        Level0Event  KernelLaunch
    DeviceMemory          Modules        DeviceSelect

### StreamSync, Level0Queue, Level0QueueProofs

`StreamSync` is the promise of a stream, from `CHIPQueue` in `CHIPBackend.hh`:
operations are outstanding until the device completes them; a blocking call
(synchronising a stream or all of them, or a copy that waits) is owed the
operations outstanding when it was made and returns when they are done.

`Level0Queue` is the implementation. `pending` holds the commands in the
immediate lists with their positions, `signaled[q]` is the finish event.
`finish()` is three actions, one per driver call: `FinishAppend` (`:101`),
`FinishSync` (`:107`), `FinishReset` (`:111`); `FinishError` is the exception
any of them may throw (the constant `Faults` says which). `AsyncOperation`
stands for all the operations that append one command (`launch`, fills, 2D and
3D copies: they differ in the command only). `MemCopy` appends and goes into
`finish()`; `FinishAll` is `hipDeviceSynchronize`. `Complete` is the device: a
barrier completes after all before it and holds back all after it, other
commands complete in any order, which is what the Level Zero specification says
of an immediate list and all the queue may rely on. `owed[t]` is a history
variable: the work the call of `t` has still to wait for.

`Sync` is the refinement mapping: outstanding operations are the pending work
commands, barriers vanish, a thread inside `finish()` is a waiting one.

### Level0Event, Level0EventProofs

`recordStream` is `RecordBegin` (lock, reset if it was recorded), four appends
and `RecordPublish`, each an action; a refused append leaves by exception
(`RecordError`: the `lock_guard` unlocks, what was appended stays). The
four commands go through the list of a queue other calls may append to. The
copy command moves the queue's shared buffer into the event's timestamp and
signals the event. `wait` locks, blocks, sets `RECORDED`. `getElapsedTime` runs
`updateFinishStatus` on both events; `hipEventQuery` only reads `event_status`.
A timestamp is the number of the recording that wrote it, so that a timestamp
taken from another recording shows.

`Destroy` is `hipEventDestroy` and the next `hipEventCreate`, which may return the
same address: the handle in the driver is freed and what the command lists still
hold for it becomes an orphan (`Orphaned`). An orphaned copy would write its
timestamp into memory that is no longer the event's (`NoStrayWrite`).

### DeviceMemory, DeviceProofs

`allocate()` is `ReserveMem` under the mutex of the context, the driver's answer
(`DriverGrants`, `DriverRefuses` for `nullptr`, `DriverThrows` for an exception)
and the release of the reservation. The variable `backend` says which of the two
ways the driver refuses in. `reset()` reads the total without a lock and
releases it later (`Reset`, `ResetRelease`). `GetName` replaces the tracker by a
new one, since `getName()` calls `populateDeviceProperties()`. `Minus` is the
subtraction of `size_t`. `live` is what the driver has given out; `disturbed`
remembers that a reset or a name query has touched the tracker behind the back of
the allocations. `hipFree` is no action: `dev_to_allocation_info` is never filled,
so `free()` throws before it changes anything.

### KernelLaunch, KernelLaunchProofs

`chip_execstack` is one stack for all threads. `ConfigureCall` and
`SetupArgument` change it under the mutex; `Top` and `Pop` are two steps without
it, in `hipLaunchByPtr` and in `__hipPopCallConfiguration`. `LaunchKernel` is
`hipLaunchKernel`, which makes an item with the active queue. Then `FindKernel`,
`SetGroup`, `SetupAllArgs` and `AppendLaunch` work on the kernel object that all
launches of the function share; `LaunchFails` is an exception out of
the last two. Nobody reads the status of `zeKernelSetGroupSize` (`:467`, overwritten
at `:476`): `SetGroup` may be refused, and the launch goes on with the group an
earlier one left (`refused`). Grid, block and arguments are a ticket that names the launch they
were meant for; a launch is right if its four parts have its own ticket.
`Waiting(t)` are the launches of a thread that have a configuration on the stack;
under `Serial` a thread begins to configure when no other thread has any there.

### Streams, StreamsProofs

`chip_queues[x]` for every device and the context; a `push_back` is a read
(`Register`) and a store (`StoreVector`). `Construction` is the order of steps
in which a queue is made: on Level Zero the constructor registers with the
context and the device *before* it creates the finish event (`:430-458`), and
`addQueue` (`:345`) pushes it once more; on OpenCL the constructor registers
with the device only. `BuildFails` throws out of the constructor, before its
first registration or after, and leaves the registrations. `StreamDestroy` and
`RemoveQueue` read the active device each for itself. `SetDevice` and `SetQueue`
are the two writes of `setActiveDevice`. The backend is chosen in `Init`.

`thrown` remembers the queues whose constructor threw.

### StreamWork, StreamsProofs

Extends Streams by the calls that use streams. What a queue does is `StreamSync`,
as an instance `Sync`: Level0Queue is shown to implement it, so the composition
takes the promise and not the command lists. `Memcpy` is `hipMemcpy` and
`hipMemset`: one operation on the active queue, and `finish()` of it. `CopyRows`,
`Row`, `RowOnHost`, `RowFails`, `FinishRows` are the copies by rows: the active
queue is read when the call begins and handed on (`hipMemcpy2D`) or read row by
row (`hipMemcpy2DToArray`, `hipMemcpy3D`), looked up again in the active device by
each `hipMemcpyAsync`, and read once more for the final `finish()`.
`DeviceSynchronize` is the range-for of `finishAll` over the vector of the context:
its ends are fixed when it begins (`next`, `last`), and a queue pushed later is not
visited. A `push_back` may move the vector (`Manage`); the loop then reads freed
memory, which holds anything (`WalkReads`). A queue that is not built, not yet or
not any more, ends the process (`FinishDangling`); `Constructing` says whether a
stream was being made at that moment. `MemcpyOpenCL` is the copy of the
OpenCL queue, which returns without waiting. `mine` holds the operations a call
answers for that the device has not completed; `moved` remembers that, during the
call, the active queue changed (a copy) or the vector got other memory (a walk).

### SpirvModule, KernelArgs, Arguments, ArgumentsProofs

`SpirvModule` is the parser, one action per turn of `parseInstructionStream`. The
environment writes the binary as it is read, in the order the logical layout of
SPIR-V prescribes. `meaning` is what a type is by the SPIR-V and OpenCL
specifications, `typeMap` what `decodeType` makes of it. `Crash` is the use of
`typeMap[id]` where nothing was decoded.

`KernelArgs` is a kernel object and its launches, one after the other.
`Configure` begins one, `SetArg` is `hipSetupArgument`, `Check` what
`setupAllArgs` looks at before its loop, `SetFromArray` and `SetFromBuffer` a turn
of it in the new and the old way, `SharedMemLevel0` and `SharedMemOpenCL` the
end, `AppendKernel` the driver's own look at the slots. An argument is a sequence
of units that name where they come from, so that a mixture shows. `Stale` is a
value of an earlier launch.

Assertions are on, as the build leaves them: all but the new way of Level Zero
assert that a pointer parameter is as wide as a pointer of the host
(`OtherPointer`), which it is not in a module with 32-bit addresses.

`Sorted` is the set of the results `std::sort` may have: the pairs put in order
by offset, then size (`Less`).

`Arguments` composes them: `Compile` makes a kernel object of an entry of the
table, and the driver takes values by what the binary really says. The properties
of the two parts have their names there.

### Modules, ModulesProofs

`RegisterFatBinary`, `UnregisterFatBinary`, `RegisterFunction` are the calls the
compiler puts into constructors and destructors of a shared object, which the
dynamic loader runs one at a time. `RegisterOnDevice` is one turn of the loop
over the devices: it compiles a module, marks the kernel of that name with the
host pointer, or fails. `UnloadRefused` is an object whose registration gave no
handle. `InitFromOutside` is `hipInitFromOutside`: a new backend with one device,
which takes over the modules of the first old one; the old backend deletes the
strings of the binaries (`freed`), whose addresses the program holds as handles
(`handles`). A process that uses such a string (`misused`) has no behaviour left.
`findKernelByHostPtr` takes the first match in the order of the modules.

No constructor sets `host_f_ptr` (`CHIPBackend.hh:368`), and a module has all kernels
of its binary, of which one registration marks one. So a kernel begins with what
its memory held (`Fresh`, any of `Indeterminate`), `marked` says whether it was
ever set, and the answers of `findKernelByHostPtr` are a set.
`RegisterFunctionNull` is the registration the compiler's constructor still makes
for an object that was refused, with the null handle it got: it is read as a
string (`CHIPBackend.cc:95`), and the process goes down (`crashed`).

### SequenceLemmas

What erasing a value from a `std::list` or `std::vector` (`RemoveFirst`) does to
its length and elements, for the proofs of Streams and Modules; that the sum of
finitely many sizes is a number, for the sizes of `struct`s in Arguments.

### DeviceSelect, DeviceProofs

The loop of `findDeviceMatchingProps`, one device per step. The fourteen
properties it compares one by one and alike are a set.

## 3. The runs

| Run | Instance | What it shows |
|---|---|---|
| `queue_sync` | 2 threads, 2 queues; `t1` blocks on both, `t2` submits to both; appends may be refused; 3 commands per list | blocking calls drain (`ReturnsDrained`), `IInv` is an invariant, which includes that the event is never another `finish()`'s, the queue implements `StreamSync`, and `FinishReturns` |
| `queue_shared` (violation) | 2 threads in `finish()` of 1 queue | one leaves on the other's signal before its own work is done |
| `event_record` | 2 threads, 1 queue, 2 events, 2 recordings, 5 commands; appends may be refused, events are destroyed and made anew | the mutex is held exactly by the call inside, a finished event covers the work before it, timestamps are not mixed up, nothing is written to a destroyed event, `wait` returns |
| `event_poll` (violation) | 1 thread, 1 event | `hipEventQuery` never learns that an event completed |
| `memory` | 3 threads, 4 bytes, sizes 0 to 3, both ways to refuse; one resets, all ask for names | `IInv`: the counters stay within the device and cover what is out; the device is not overcommitted, a refusal costs nothing, `reset()` leaves only what was reserved meanwhile |
| `memory_names` (violation) | 1 thread | asking for the device name makes the tracker grant more than there is |
| `launch` | 2 threads, kernels of their own and an unknown one, 2 queues, nesting 2, all three ways | the stack matches the launches still to be made; each launch has its own configuration, but for a group size the driver refused; the old way respects its stream |
| `streams` | `MCStreamWork`: both backends, 2 devices, 2 streams besides the primary ones; one thread creates and destroys streams, the other sets and synchronises the device, both copy; constructors, rows and waits may fail | no device lists a stream of another, live streams are found, the context of Level Zero knows them all, active queue and device belong together; a copy that returns is made, `hipDeviceSynchronize` waits for all and finishes only queues that are built, with the exceptions of section 4 |
| `stream_destroy` (violation) | one thread | a destroyed stream is still accepted |
| `modules` | 3 binaries (one refused), 2 functions, 2 devices, 3 addresses, one of which the memory of a new kernel may hold, failures, 2 replacements of the backend | `binaries_loaded` is exact; a function at an address of its own finds a kernel everywhere, and none of another function, also after a replacement; no string is used after its deletion but those the replacement deleted |
| `arguments` | binaries of 2 functions and 5 types of all kinds, 2 members or parameters; launches in both ways on both backends, 2 arguments at offsets and in sizes 0 to 2 | the table is right; a launched kernel has its own arguments in place; a proper launch is refused or goes down only in the cases of section 4 |
| `select_devices` | 2 properties with values 0 to 2, up to 3 devices | the loop invariant, which includes that what is kept meets the request; the first match wins |

### Bounds, and why they are enough

- Queues: an interaction needs two threads, and two queues for
  `hipDeviceSynchronize` to be between them. Three commands per list give work
  before, between and behind the barrier. The proofs cover the rest. Positions
  start again at 0 when a list is empty; only their order matters.
- Events: two recordings are what can be mixed up; five positions in the list
  (`MaxTail`) let work stand before, between and after them.
- Memory: the device holds one large and one small block, or several small ones
  and a zero-sized one; three threads give a holder of the mutex, one waiting
  for it and one more. `MaxLive` stops histories in which, after a name query, the
  program has more than the device. `Word` lies
  above all sums.
- Launch: nesting 2 is a configuration inside another; four tickets are enough
  for two launches of either thread, since a ticket is retired when its launch
  ends (`Retired`) and what is left on a kernel object still differs from it.
- Streams: two streams besides the primary ones let one be created while another
  is left from a failed constructor or destroyed; a queue has one operation
  outstanding at a time, since only whether it is empty matters; a copy has up to
  two rows, so that the active queue may move before, between and behind them.
  The thread that synchronises is the one that does not create: a thread is in one
  call at a time, so a walk meets a stream in the making only from another thread.
- Arguments: five types are void, two scalars or a scalar and a pointer, a type
  made of them, and the function type; two arguments can overlap, be swapped,
  leave a gap or be missing. Sizes are in units of 4 bytes.
- Modules: three modules on a device allow a load, an unload and a load; three
  addresses, reuse and a fresh one; one of them is what uninitialised memory may
  hold, so a lookup of it and of the others are both there.
- Selection: with two properties a device can meet both, one or none; three
  devices have every order of these.

`select_devices` (the loop ends), `arguments` (a binary is refused, or the process
crashes) and `modules` (the process ends after the use of a deleted string or of a
null handle) may stop; in `streams` a crashed process stays as it is (`Down`); every other run checks for deadlock.

### Fairness

`FairSpec` of the queue and the event assumes that the device works off each
list as long as a command is ready, and that a host thread inside `finish()`,
`recordStream` or `wait` is scheduled when it can go on. The code gives the
second: there is no condition to wait for but the event and the mutex. Nothing
obliges a thread to make a call, and an append is never forced to fail or to
succeed. Weak fairness is enough: with one thread finishing a queue the signal
stays until that thread sees it. Polling (`event_poll`) is fair as well: the
application keeps asking, and the answer does not change.

## 4. What the program has to assume, and what breaks without it

Several properties hold because the application keeps to a discipline. The
constants say which; each assumption is there for a reason in the code, and
changing the constant gives a counterexample. Those marked * are runs.

| Assumption (constant) | Without it |
|---|---|
| No queue is finished by two threads (`Waits`, `Syncers`) | `ReturnsDrained` fails*; and `FinishReturns`: a thread resets the event before the other has seen it, which then waits for ever, however fairly it is scheduled (`Level0Backend.cc:111`) |
| Wait and reset of the finish event succeed (`Faults`) | an abandoned barrier signals the event for the next `finish()` |
| An event is recorded again, or destroyed, only when it was seen finished (`ReRecord`) | `FinishedCoversWork` fails: the reset is made only in state `RECORDED` (`Level0Backend.hh:256`). `NoStrayWrite` fails: `hipEventDestroy` frees the event while the copy into it is in a command list (`CHIPBindings.cc:869`) |
| No call works on an event that is destroyed (`Destroy`) | the mutex a thread holds or waits for is freed under it |
| One thread submits to a stream (`Uses` of Level0Event) | `TimestampIsOwn` fails: the mutex is the event's, the buffer the queue's |
| The program does not only poll | `PollReturns` fails* |
| The driver refuses with `nullptr` (`backend = "opencl"`) | `NoLeak` fails on Level Zero: the exception passes the release (`CHIPBackend.cc:622`) |
| Nobody resets or asks for the device name (`disturbed = {}`) | `NeverOvercommitted` fails*. The log lines of `findKernelByHostPtr` and `registerFunctionAsKernel` ask for the name too, so the accounting starts again from nothing with every kernel looked up; it is exact in between |
| One thread resets (`Resetters`), and a refusal is an exception (`backend = "level0"`) | `ResetReleases` fails: another reset, or the refusal of an allocation on OpenCL, lowers the total below what `reset()` has read, and `releaseMemReservation` then releases nothing (`CHIPBackend.cc:57`) |
| One thread at a time has configurations on the stack (`Serial`) | `LaunchAsConfigured` fails: `top()` and `pop()` are of one stack |
| Threads launch different kernels (`Uses` of KernelLaunch) | `LaunchAsConfigured` fails: group size and arguments are set on the shared object |
| The driver takes the group size (`refused`) | `LaunchAsConfigured` fails: the launch goes on with the group of an earlier one (`Level0Backend.cc:467`) |
| Streams are honoured for the old calls only (`api = "old"`) | `hipLaunchKernel` and `<<< >>>` append to the active queue whatever stream they name (`CHIPBackend.cc:985`) |
| One thread creates streams (`Creators`) | `StreamsAreFound` and `DeviceSyncDrains` fail: a `push_back` is lost |
| One thread sets the device (`Setters`) | `ActiveIsPrimary` fails: the two writes interleave |
| The active queue is not moved during a copy (`moved`) | `BlockingCopyDone` fails: `hipMemcpy2D` waits for another queue than the one it copied on (`CHIPBindings.cc:1450`, `:1454`) |
| The runtime is on Level Zero (`backend`) | `BlockingCopyDone` fails: the OpenCL queue enqueues with `CL_FALSE` and returns (`CHIPBackendOpenCL.cc:291`). `DeviceSyncDrains` fails: the OpenCL context knows no queue |
| No `push_back` moves the vector of the context during `hipDeviceSynchronize` (`moved`) | `DeviceSyncDrains` and `FinishesBuiltQueues` fail: the ends of the range-for point into freed memory (`CHIPBackend.cc:602`) |
| No stream is made when the walk comes to it (`Constructing`), and no constructor threw (`thrown`) | `FinishesBuiltQueues` fails: the walk meets a queue whose finish event does not exist (`Level0Backend.cc:431`) |
| No binary is registered when the backend is replaced (`orphaned`) | `StringsLive` fails: the next unregistration deletes the string again (`CHIPBindings.cc:2006`) |
| Types without arrays, vectors of three, padding and forward references (`exact`) | `TableIsRight` fails: `spirv.cc:163`, `:168`, `:175`, `:192` |
| Images and other opaque types are not parameters | the parser dereferences a null pointer (`spirv.cc:203`, `:214`): outcome `"crash"`; so the branch for images in `setupAllArgs` is never reached |
| Pointer parameters are as wide as the host's pointers (`Unserved`) | `RightlyRefused` fails: the parser accepts 32-bit addresses, and the assertion on the size fails (`CHIPBackendOpenCL.cc:376`, `:428`, `Level0Backend.cc:807`) |
| Shared memory is asked for, the old way has an argument, and Level Zero's status is good (`LocalLeftAsItWas`) | the size of the shared memory stays that of an earlier launch: the early return (`Level0Backend.cc:775`), `shared > 0` (`CHIPBackendOpenCL.cc:340`), the unchecked status (`Level0Backend.cc:845`) |
| The new way is not used for a kernel with shared memory, and none is asked for without parameters (`Unserved`) | `RightlyRefused` fails: `ArgsPointer` is read one past its end; `ArgTypeInfo.size() - 1` wraps (`CHIPBackendOpenCL.cc:342`) |
| The default stream is not destroyed (`StreamDestroy`) | `hipStreamDestroy(nullptr)` removes the primary queue of the device |
| No kernel that was never marked holds the address asked for (`marked`) | `LookupFindsOwn` fails: `host_f_ptr` is indeterminate (`CHIPBackend.hh:368`), and another kernel of the same or of an earlier module is found |
| No library is mapped where an unloaded one was (`reused`) | `LookupFindsOwn` fails: modules stay on the device and the old kernel is found first |

Read in the source, and not given a run:

- On OpenCL the context knows no queue (`CHIPBackendOpenCL.cc:278`), so
  `hipDeviceSynchronize` waits for nothing.
- On OpenCL `hipMemcpyAsync` returns `hipErrorUnknown` and `hipMemset` returns
  success without doing anything: the entries of its queue are stubs
  (`CHIPBackendOpenCL.cc:305-333`).
- A row of a copy that fails leaves the rows before it outstanding when the call
  reports the error (`CHIPBindings.cc:1434`); `RowFails` has it.
- `hipMemsetAsync` uses the stream it is given without looking it up
  (`CHIPBindings.cc:1387`), unlike every other call.
- `CHIPInitialize` after an exception makes a new backend and leaks the first;
  `CHIPUninitialize` reaches stubs only.
- A registration that fails on the second device leaves the first one's
  (`CHIPBackend.cc:803`).
- A library whose binary was refused registers its functions with a null handle,
  which is read as a string (`CHIPBindings.cc:2019`); `RegisterFunctionNull`.
- The module cache is asked for the host pointer and filled with the module
  string (`CHIPBackend.cc:494`): every function compiles its module again, which
  is how `Modules` has it.
- The assertion of `hipMemGetInfo` (`CHIPBindings.cc:1241`) fails when all of
  the device is reserved, which `reserveMem` permits.
- `CHIP_DEVICE=all` is never accepted on OpenCL: the `-1` that stands for all
  devices is compared with a `size_t` (`CHIPBackendOpenCL.cc:491`) and is out of
  range. `CHIP_DEVICE_TYPE` is read there and not used. On Level Zero the platform
  index is not checked, `CHIP_DEVICE` is not looked at, and the first device of
  the type is the only one (`Level0Backend.cc:42`, `:74`). So a process of this
  commit has one device; Streams and Modules keep several, as the code does.
- `findDeviceMatchingProps` returns an indeterminate pointer if no device has a
  positive count (`CHIPBackend.cc:815`), even for a request any device meets;
  `Garbage` in the model.

## 5. The proofs

All are for any value of the constants that the modules' `ASSUME`s allow. The
assumptions beyond them are defined in the specification or in the proof module,
and the constants of the corresponding run satisfy them.

**Level0QueueProofs**, assuming `SingleOwner`: no queue is finished by two
threads, though any number may submit to it, and waits and resets succeed.

- `Invariance`: `Spec => []IInv`
- `BlockingCallsDrain`: `Spec => []ReturnsDrained`
- `QueueImplementsSync`: `Spec => ImplementsStreamSync`

`ReturnsDrained` is not inductive: that a thread past `FinishSync` is owed
nothing depends on whose signal it saw. `IInv` adds that positions are fresh
(`PositionsOK`), that a thread keeps to its queues (`CallsOK`), that owed work
lies on queues the call has yet to finish (`OwedOK`), that a queue has at most one
barrier and no signal besides it (`OneBarrier`), that a pending barrier stands behind all its thread is owed, and that while the event is signalled the
thread that looks at it is owed nothing (`EventOK`). The heart is lemma
`FreshFinish`: a thread that enters `finish()` finds neither barrier nor signal,
because either would need another thread in `finish()` of the same queue. The
refinement maps each action to a step of `StreamSync` or to a stutter under
`IInv`; `PositionsOK` is there for the submissions, which must name a new
operation.

**DeviceProofs**, the tracker (DeviceMemory):

- `TrackerSound` (`StateOK`): without further assumptions the counters stay
  within the device, so that the unsigned differences do not wrap, for any mix of
  allocations, resets and name queries.
- `Accounting` (`IInv`), `DeviceNotOvercommitted` (`NotOvercommitted`) and
  `RefusalsAreFree` (`NoLeak`): the same, without further assumptions; what
  they say holds until the tracker is disturbed. The strengthening is
  `Serialised` (the mutex is held exactly by the thread in the driver),
  `CoversLive` and `Reserved` (after a name query the total is empty or still
  has the reservation of the call in the driver, so that giving it back does not
  take away another's).
- `ResetFrees` (`ResetReleases`), assuming that one thread resets: the total is
  at most what `reset()` read and what was reserved since.

**DeviceProofs**, the search (DeviceSelect), without further assumptions:

- `LoopInvariant` (`LoopInv`, which has `KeptMeets`: a device that is kept has every
  property asked for), `FirstMatchReturned` (`FirstMatch`). The code compares counts; lemma `Counts`
  shows from the theory of finite sets that equal counts mean that every
  property asked for is met, and that after one full match no count is greater.

**Level0EventProofs**, assuming that one thread submits to each queue (`OneUser`)
and that an event is recorded again or destroyed only when it was seen finished
(`~ ReRecord`), for any threads, queues, events, recordings and refused appends:

- `StateCorrect` (`StateOK`), `FinishedCorrect` (`FinishedCoversWork`),
  `TimestampCorrect` (`TimestampIsOwn`), `StrayCorrect` (`NoStrayWrite`).

A timestamp passes through a buffer the queue has once, in commands that may
stand in the list together with those of another recording. The invariant
therefore speaks about the lists: a copy that is left belongs to the recording
under way or published last and stands behind its work (`CopiesOK`); between a
command and a later use of the buffer stands a barrier (`Separated`), so that a
copy finds the value of its own recording (`Owned`); a call holds the mutex of
the event it names (`LockHeld`) and has left there what its program counter says
(`CallsOK`); `EventsOK` ties signal and timestamp of an event to what is left of
its latest recording.
`NoStrayWrite` follows since an event that was seen finished has no command left.

**KernelLaunchProofs**, assuming `Serial` and that threads launch different
kernels (`OneUser`), for any nesting and any number of threads:

- `StateCorrect` (`StateOK`), `ConfiguredCorrect` (`LaunchAsConfigured`),
  `OnStreamCorrect` (`LaunchOnStream`).

That the stack has the right height says nothing of whose configurations are on
it. The invariant adds that tickets are unique (`Unique`), that at most one thread
waits, with its own configurations in their order (`StackOK`), and that a thread
in the middle of a launch has its own item in hand and finds on the kernel object
what its steps have put there (`ThreadOK`): its arguments, and its group unless the
driver refused that, which `LaunchAsConfigured` excepts. Lemma `OthersAtEnd` is why a launch
that ends, well or by an exception, takes nothing from another.

**StreamsProofs**

- `StateCorrect` (`StateOK`): without further assumptions no vector of a device
  lists a stream of another device, on both backends.
- `ActiveCorrect` (`ActiveIsPrimary`), assuming that one thread sets the device
  (`OneSetter`).
- `FoundCorrect` (`StreamsAreFound`) and `ContextCorrect` (`ContextKnowsStreams`),
  assuming that one thread creates and destroys streams (`OneCreator`): a
  `push_back` reads the vector and stores it later, and the invariant says that
  what it has read is still what is there.

And of the calls that use the streams (StreamWork):

- `WorkImplementsStreams` (`WorkSpec => Spec`): copies and synchronisations change
  nothing of what Streams is about, so all of the above holds of `WorkSpec`.
- `WorkImplementsSync` (`WorkSpec => Sync!Spec`): the queues, used by all these
  calls, behave as `StreamSync` says. Together with `QueueImplementsSync` this is
  the chain from the API to the command lists: what is asked of a stream above is
  what the queue below provides.
- `BlockingCopyCorrect` (`BlockingCopyDone`), without further assumptions.
  `WorkInv` says what a call has left to do at each of its steps: before the last
  `finish()` the operations of a copy are all on the active queue, which is also
  the one its stream names; in it they are among those the queue owes.
- `DeviceSyncCorrect` (`DeviceSyncDrains`), assuming `OneCreator`, whoever
  synchronises. The loop goes to an end it has fixed while queues are created and
  pushed. `WalkOK`: what is left is on queues that stand between the place of the
  loop and its end; `OutstandingListed`: there is no operation on a queue the
  context does not list; and `ContextOnlyGrows`: no step takes a queue out of the
  vector or moves one in it, so that as long as the memory stays (`moved`) a place
  in it keeps its queue. With two creators one `push_back` overwrites another, and
  TLC finds work the walk does not see.
- `FinishesBuiltCorrect` (`FinishesBuiltQueues`), under the same assumption.
  `AccountedInv`: a queue in the vector, or in what a `push_back` has read of it, is
  built, or its constructor threw or runs. So a walk in memory that has stayed can
  only go wrong over a constructor that threw or is under way.

**ModulesProofs**, without further assumptions:

- `StateCorrect` (`StateOK`), `LookupCorrect` (`LookupFindsOwn`), `StringsCorrect`
  (`StringsLive`). The lookup takes the first kernel with the pointer, so the
  invariant says of a function whose address was never used by another that
  every kernel marked with it is its own (`OnlyOwn`), and that there is one on
  every device the registration has passed. Of the kernels that were never marked,
  whose pointers are indeterminate, nothing can be said, and `LookupFindsOwn`
  does not: what is found is the function's own kernel or such a one. `MarksMapped`
  ties the marks to the addresses in use; `Strings` says that what the runtime has
  registered is not deleted.

**ArgumentsProofs**, without further assumptions: for any binary in the logical
layout, any numbers of types and parameters, any sizes and offsets, on both
backends:

- `TableCorrect` (`TableIsRight`): what the parser answers. `ParserInvariant` has the invariant: every entry of the type
  table does justice to what the id means (`TypesRight`), a function type lists the
  entries of its parameters, none of them null (`FunctionsRight`), the entry points
  that have a body are exactly those whose function type is known, because the
  layout has all entry points before the first function (`EntriesRight`), and the
  table is filled exactly when the module is accepted (`AnswerRight`).
- `ArgumentsCorrect` (`ArgumentsInPlace`), `RefusalsCorrect` (`RightlyRefused`): what
  a launch puts into the slots. `LaunchInvariant` has the invariant: the buffer
  of the old way holds exactly the arguments set up (`BufferRight`), after the
  checks these are in order, apart and as many as the parameters (`Ordered`), and
  the slots the loop has passed are right (`SlotsRight`). That the argument in
  turn is the one meant for the parameter is a matter of its rank: in a strictly
  ordered sequence the k-th pair has k-1 pairs below it. That it comes out of the
  buffer whole needs `Ordered`, since arguments that overlap overwrite each other.
  That the table the kernel was made from agrees with the driver on which
  parameter is local (`KernelRight`) comes from `ParserInv`.
  The refusals leave out what the code does not serve (`Unserved`), pointers of
  another width than the host's among them.
- `SortableAlways`: `Setup!Sorted` is never empty, so that the model does not lose
  a behaviour by choosing from it. Some least pair of those that are left can
  always be put in front.
- `TypesCorrect` (`StateOK`).

Where a proof counts up (the sort, the sum of the sizes of a `struct`) it takes the
least number for which the claim fails (`LeastNat` of SequenceLemmas): the
library's induction theorems take an operator as a parameter, which no prover
here can instantiate.

What an invariant assumes about the application is in the constants of the run
that checks the same property, so that TLC looks at an instance in which the
assumption holds; section 4 says what happens without it.

Model-checked only: `FinishReturns` and `WaitReturns`. They are liveness under
fairness, which is out of the provers' reach. Every other property of a passing
run is a theorem, under the assumptions named above.

## 6. What is not modelled, and why

- The pointer map of the SVM region (`SVMemoryRegion.cc`): nothing of this commit
  reaches its lookups or its `free`, since `hipFree` throws first; `allocate` is
  the `nullptr` answer of DeviceMemory.
- The value of `getElapsedTime`: it is computed from a variable nothing assigns.
  What the call does to its two events is modelled.
- The events of OpenCL and the rest of its queue, textures, most array functions
  and HIPRTC: stubs in this commit. What the API makes of the stubs of the queue
  is in section 4.
- Pitch, extent and offset arithmetic of the 2D and 3D copies, device attributes,
  printing, logging and error macros: straight-line code without state that
  outlives a call.
- The choice of backend, platform and device from the environment: it runs once,
  under `call_once`, before anything else; its retry after an exception is in
  Modules, and what it accepts is listed in section 4.
- The passes over LLVM IR and the device bitcode: they run in the compiler. What
  their output looks like to the runtime is the binary of SpirvModule and the
  pointer parameter `FromHip` adds.

By far the most lines of the repository's implementation are not of this runtime:
the headers of OpenCL, Level Zero and HIP, and the logging library, are vendored
in `src/include` and `src/spdlog`. Of the runtime's own sources the models cover
the files with state, `CHIPBackend`, `CHIPBindings`, `spirv`, `backend/Level0`
and `backend/OpenCL`, in the parts named in section 2.
