------------------------------ MODULE Modules ------------------------------
(***************************************************************************)
(* Fat binaries, modules and kernels: from __hipRegisterFatBinary and      *)
(* __hipRegisterFunction to CHIPDevice::findKernelByHostPtr.               *)
(*                                                                         *)
(* The constructors of a shared object register its fat binary and then    *)
(* each of its functions; its destructor unregisters the binary.  The      *)
(* dynamic loader runs them one at a time.  For every function every       *)
(* device gets a compiled module, in which the kernel of that name is      *)
(* marked with the address of the host function.  The program may have the *)
(* backend replaced by one made from driver handles of its own.            *)
(***************************************************************************)
EXTENDS Integers, Sequences, FiniteSets, SequencesExt

CONSTANTS
  Binaries,      \* fat binaries the program may load and unload
  Names,         \* function names
  KernelsOf,     \* KernelsOf[b]: the kernels in b's SPIR-V
  Rejected,      \* binaries with no SPIR-V in them
  DeviceList,    \* the devices, in the order of the context
  Addresses,     \* addresses of host functions
  Null,
  Indeterminate, \* what the memory of a new kernel may hold for a host pointer
  MayFail,       \* whether initialisation and compilation may fail
  MaxModules,    \* bound: functions are registered while a device has fewer
  MaxOutside     \* bound: replacements of the backend

ASSUME ModulesAssumption ==
  /\ KernelsOf \in [Binaries -> SUBSET Names]
  /\ Rejected \subseteq Binaries
  /\ DeviceList \in Seq(ToSet(DeviceList))
  /\ DeviceList # <<>> /\ IsInjective(DeviceList)
  /\ Null \notin Addresses /\ Indeterminate \subseteq Addresses \cup {Null}
  /\ MayFail \in BOOLEAN
  /\ MaxModules \in Nat /\ MaxOutside \in Nat

VARIABLES
  initialized,     \* the once_flag of CHIPInitialize
  uninitialized,   \* the once_flag of CHIPUninitialize
  binaries_loaded,
  modules_str,     \* Backend->modules_str: the registered binaries
  loaded,          \* binaries in the address space
  handles,         \* those that were given a handle, which is a string's address
  freed,           \* those of them whose string is deleted
  chip_devices,    \* Backend->chip_devices
  chip_modules,    \* chip_modules[d]: the modules of device d
  job,             \* the registration under way
  registered,      \* history: functions whose registration returned normally
  mapped,          \* history: addresses some function was registered at
  reused,          \* history: those used by more than one registration
  orphaned,        \* history: binaries whose string a replaced backend deleted
  misused,         \* history: binaries whose string was used when deleted
  outside,         \* history: replacements of the backend so far
  crashed          \* the process went down

strings == <<handles, freed, orphaned, misused>>
host == <<registered, mapped, reused>>
device == <<chip_devices, chip_modules, outside>>
vars == <<initialized, uninitialized, binaries_loaded, modules_str, loaded,
          strings, device, job, host, crashed>>

Devices == ToSet(DeviceList)
Function == [bin : Binaries, name : Names, ptr : Addresses]

(* marked: setHostPtr has been called. *)
Kernel == [name : Names, ptr : Addresses \cup {Null}, marked : BOOLEAN]
NoJob == <<>>

Init ==
  /\ initialized = FALSE /\ uninitialized = FALSE
  /\ binaries_loaded = 0
  /\ modules_str = <<>>
  /\ loaded = {}
  /\ handles = {} /\ freed = {}
  /\ chip_devices = DeviceList
  /\ chip_modules = [d \in Devices |-> <<>>]
  /\ job = NoJob
  /\ registered = {}
  /\ mapped = {} /\ reused = {}
  /\ orphaned = {} /\ misused = {} /\ outside = 0
  /\ crashed = FALSE

-----------------------------------------------------------------------------
(* CHIPInitialize, made by every call: an exception leaves the once_flag   *)
(* unset and the next call tries again.                                    *)
Initialized == initialized' = TRUE
InitFails == MayFail /\ ~initialized

(* A process that has used a deleted string, or is down, has no behaviour  *)
(* left.                                                                   *)
Calling == job = NoJob /\ misused = {} /\ ~crashed

(* std::string of a binary: made and put into modules_str. *)
registerModuleStr(b) ==
  /\ modules_str' = Append(modules_str, b)
  /\ handles' = handles \cup {b}
  /\ freed' = freed \ {b} /\ orphaned' = orphaned \ {b}

(* Slip: a binary is counted before it is looked at. *)
RegisterFatBinaryCountsFirst(b) ==
  /\ Calling /\ b \notin loaded
  /\ binaries_loaded' = binaries_loaded + 1
  /\ loaded' = loaded \cup {b}
  /\ IF b \in Rejected THEN UNCHANGED <<modules_str, handles, freed, orphaned>>
                       ELSE registerModuleStr(b)
  /\ Initialized
  /\ UNCHANGED <<uninitialized, misused, device, job, host, crashed>>

RegisterFatBinary(b) ==
  /\ Calling /\ b \notin loaded
  /\ loaded' = loaded \cup {b}
  /\ \/ /\ InitFails
        /\ UNCHANGED <<initialized, binaries_loaded, modules_str, handles, freed,
                       orphaned>>
     \/ /\ b \in Rejected
        /\ Initialized
        /\ UNCHANGED <<binaries_loaded, modules_str, handles, freed, orphaned>>
     \/ /\ b \notin Rejected
        /\ Initialized
        /\ registerModuleStr(b)
        /\ binaries_loaded' = binaries_loaded + 1
  /\ UNCHANGED <<uninitialized, misused, device, job, host, crashed>>

(* Use of the string of b. *)
Use(b) == misused' = misused \cup ({b} \cap freed)

(* Slip: the string is deleted and stays in modules_str.                   *)
unregisterModuleStrKeeps(b) == UNCHANGED modules_str

(* A string that is not there is a warning. *)
unregisterModuleStr(b) == modules_str' = RemoveFirst(modules_str, b)

(* The destructor of the object, if it has a handle to give back: the      *)
(* string is deleted.  The modules of the devices stay.                    *)
UnregisterFatBinary(b) ==
  /\ Calling /\ b \in handles
  /\ unregisterModuleStr(b)
  /\ Use(b) /\ freed' = freed \cup {b}
  /\ handles' = handles \ {b}
  /\ binaries_loaded' = binaries_loaded - 1
  /\ uninitialized' = (uninitialized \/ binaries_loaded = 1)
  /\ loaded' = loaded \ {b}
  /\ registered' = { f \in registered : f.bin # b }
  /\ UNCHANGED <<initialized, orphaned, device, job, mapped, reused, crashed>>

(* An object that was refused has no handle, and its destructor makes no   *)
(* call.                                                                   *)
UnloadRefused(b) ==
  /\ Calling /\ b \in loaded \ handles
  /\ loaded' = loaded \ {b}
  /\ UNCHANGED <<initialized, uninitialized, binaries_loaded, modules_str,
                 strings, device, job, host, crashed>>

-----------------------------------------------------------------------------
(* Slip: the new device starts without the modules of the old one.         *)
ModulesLeftBehind == [chip_modules EXCEPT ![Head(chip_devices)] = <<>>]

(* The new device gets the modules of the old backend's first device, and  *)
(* takes that one's place here.                                            *)
ModulesTaken == chip_modules

(* hipInitFromOutside, of a runtime that is initialised: the old backend   *)
(* deletes the strings of all binaries, the new one has one device.        *)
InitFromOutside ==
  /\ Calling /\ initialized /\ outside < MaxOutside
  /\ outside' = outside + 1
  /\ misused' = misused \cup (ToSet(modules_str) \cap freed)
  /\ orphaned' = orphaned \cup (ToSet(modules_str) \ freed)
  /\ freed' = freed \cup ToSet(modules_str)
  /\ modules_str' = <<>>
  /\ chip_devices' = <<Head(chip_devices)>>
  /\ chip_modules' = ModulesTaken
  /\ UNCHANGED <<initialized, uninitialized, binaries_loaded, loaded, handles,
                 job, host, crashed>>

-----------------------------------------------------------------------------
(* __hipRegisterFunction: the loader has put function n of b somewhere.    *)
RegisterFunction(b, n, p) ==
  /\ Calling /\ b \in handles
  /\ \A f \in registered : f.ptr # p /\ <<f.bin, f.name>> # <<b, n>>
  /\ \A d \in ToSet(chip_devices) : Len(chip_modules[d]) < MaxModules
  /\ Use(b)
  /\ job' = << [function |-> [bin |-> b, name |-> n, ptr |-> p],
                todo |-> chip_devices] >>
  /\ mapped' = mapped \cup {p}
  /\ reused' = IF p \in mapped THEN reused \cup {p} ELSE reused
  /\ UNCHANGED <<initialized, uninitialized, binaries_loaded, modules_str,
                 loaded, handles, freed, orphaned, device, registered, crashed>>

(* The same of an object that was refused, with the null handle it got: it *)
(* is read as a string.  Where CHIPInitialize throws, nothing happens.     *)
RegisterFunctionNull(b) ==
  /\ Calling /\ b \in loaded \ handles
  /\ Initialized
  /\ crashed' = TRUE
  /\ UNCHANGED <<uninitialized, binaries_loaded, modules_str, loaded, strings, device,
                 job, host>>

(* A compiled module.  No constructor sets the host pointer of a kernel:   *)
(* it is what the memory held, ptrs[n] for kernel n.                       *)
Fresh(b, ptrs) ==
  [src |-> b,
   kernels |-> { [name |-> n, ptr |-> ptrs[n], marked |-> FALSE] : n \in KernelsOf[b] }]

(* getKernel(name), setHostPtr. *)
Mark(m, n, p) ==
  [m EXCEPT !.kernels =
     { IF k.name = n THEN [k EXCEPT !.ptr = p, !.marked = TRUE] ELSE k : k \in @ }]

Done(f) == registered' = registered \cup {f} /\ job' = NoJob

(* CHIPDevice::registerFunctionAsKernel on the next device.  The map is    *)
(* asked for the host pointer and filled with the module string, so it     *)
(* never has the answer, and every function makes a module of its own.     *)
RegisterOnDevice ==
  /\ job # NoJob /\ misused = {}
  /\ LET f == job[1].function
         d == Head(job[1].todo)
         rest == Tail(job[1].todo)
     IN \E ptrs \in [KernelsOf[f.bin] -> Indeterminate] :
     \/ (* compiled, and the kernel is there *)
        /\ f.name \in KernelsOf[f.bin]
        /\ chip_modules' = [chip_modules EXCEPT ![d] =
             Append(@, Mark(Fresh(f.bin, ptrs), f.name, f.ptr))]
        /\ IF rest = <<>> THEN Done(f)
           ELSE job' = <<[function |-> f, todo |-> rest]>> /\ UNCHANGED registered
     \/ (* compiled, but getKernel throws *)
        /\ f.name \notin KernelsOf[f.bin]
        /\ chip_modules' = [chip_modules EXCEPT ![d] = Append(@, Fresh(f.bin, ptrs))]
        /\ job' = NoJob
        /\ UNCHANGED registered
     \/ (* compile throws: the module stays, empty *)
        /\ MayFail
        /\ chip_modules' = [chip_modules EXCEPT ![d] =
             Append(@, [src |-> f.bin, kernels |-> {}])]
        /\ job' = NoJob
        /\ UNCHANGED registered
  /\ UNCHANGED <<initialized, uninitialized, binaries_loaded, modules_str,
                 loaded, strings, chip_devices, outside, mapped, reused, crashed>>

-----------------------------------------------------------------------------
Next ==
  \/ \E b \in Binaries : \/ RegisterFatBinary(b) \/ UnregisterFatBinary(b)
                        \/ UnloadRefused(b) \/ RegisterFunctionNull(b)
  \/ \E b \in Binaries, n \in Names, p \in Addresses : RegisterFunction(b, n, p)
  \/ RegisterOnDevice
  \/ InitFromOutside

Spec == Init /\ [][Next]_vars

-----------------------------------------------------------------------------
(* findKernelByHostPtr: the first kernel with that host pointer, in the    *)
(* order of the modules; in a module any of them, for the order there is   *)
(* the binary's.                                                           *)
Matches(d, p) ==
  { i \in DOMAIN chip_modules[d] :
      \E k \in chip_modules[d][i].kernels : k.ptr = p }

findKernelByHostPtr(d, p) ==
  LET first == { i \in Matches(d, p) : \A j \in Matches(d, p) : i <= j }
  IN  UNION { { [bin |-> chip_modules[d][i].src, kernel |-> k] :
                  k \in { x \in chip_modules[d][i].kernels : x.ptr = p } } : i \in first }

TypeOK ==
  /\ initialized \in BOOLEAN /\ uninitialized \in BOOLEAN
  /\ binaries_loaded \in Nat
  /\ modules_str \in Seq(Binaries)
  /\ handles \subseteq loaded /\ loaded \subseteq Binaries
  /\ registered \subseteq Function
  /\ \A d \in Devices : \A i \in DOMAIN chip_modules[d] :
       chip_modules[d][i].src \in Binaries /\ chip_modules[d][i].kernels \subseteq Kernel

(* The counter that decides when to uninitialise counts the binaries that  *)
(* can still be unregistered, so it neither reaches 0 early nor wraps,     *)
(* whatever loads failed or were refused on the way.                       *)
CountsBinaries == binaries_loaded = Cardinality(handles)

StateOK == TypeOK /\ CountsBinaries

(* A launch finds "a kernel whose name matches host function name"         *)
(* (CHIPBackend.hh, registerFunctionAsKernel), from the binary the         *)
(* function is in, on every device, whatever was loaded, unloaded or       *)
(* failed before.  Excepted are functions at an address that an earlier    *)
(* registration used (modules are never taken off a device, and a kernel   *)
(* of the earlier one is found first), and a kernel no function was ever   *)
(* registered for, whose pointer is indeterminate: if it happens to be the *)
(* address asked for, that kernel may be found.                            *)
LookupFindsOwn ==
  \A f \in registered, d \in ToSet(chip_devices) :
    f.ptr \notin reused =>
      LET found == findKernelByHostPtr(d, f.ptr) IN
      /\ found # {}
      /\ \A r \in found : r.kernel.marked => r.bin = f.bin /\ r.kernel.name = f.name

(* No string of a binary is deleted twice, or compiled after it was        *)
(* deleted, but that of a binary which was registered when the backend was *)
(* replaced: the program still holds its handle.                           *)
StringsLive == misused \subseteq orphaned
=============================================================================
