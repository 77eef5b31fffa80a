---------------------------- MODULE ModulesProofs ----------------------------
(* What Modules guarantees for any binaries, functions, devices and        *)
(* addresses, whatever fails on the way.                                   *)
EXTENDS Modules, SequenceLemmas, FiniteSetTheorems

Module == [src : Binaries, kernels : SUBSET Kernel]

Job == { <<[function |-> f, todo |-> t]>> :
           f \in Function, t \in Seq(Devices) \ {<<>>} }

Typed ==
  /\ binaries_loaded \in Nat
  /\ initialized \in BOOLEAN /\ uninitialized \in BOOLEAN
  /\ modules_str \in Seq(Binaries)
  /\ handles \subseteq loaded /\ loaded \subseteq Binaries
  /\ chip_devices \in Seq(Devices) \ {<<>>}
  /\ chip_modules \in [Devices -> Seq(Module)]
  /\ job \in Job \cup {NoJob}
  /\ registered \subseteq Function

Counted == IsFiniteSet(handles) /\ binaries_loaded = Cardinality(handles)

(* A string is in modules_str until it is deleted, and only a replaced     *)
(* backend deletes one that the program has a handle to.                   *)
Strings ==
  /\ IsInjective(modules_str)
  /\ ToSet(modules_str) \subseteq handles \ freed
  /\ handles \cap freed \subseteq orphaned
  /\ misused \subseteq orphaned

(* Functions a kernel is or is being marked for. *)
Current == IF job = NoJob THEN registered ELSE registered \cup {job[1].function}

(* Every kernel that is marked with the address of f is the one f needs.   *)
OnlyOwn(f) ==
  \A d \in Devices : \A i \in DOMAIN chip_modules[d] :
    \A k \in chip_modules[d][i].kernels :
      k.marked /\ k.ptr = f.ptr => chip_modules[d][i].src = f.bin /\ k.name = f.name

MarksMapped ==
  \A d \in Devices : \A i \in DOMAIN chip_modules[d] :
    \A k \in chip_modules[d][i].kernels : k.marked => k.ptr \in mapped

Lookup ==
  /\ MarksMapped
  /\ \A f \in Current : f.ptr \in mapped /\ (f.ptr \notin reused => OnlyOwn(f))
  /\ job # NoJob => \A f \in registered : f.ptr # job[1].function.ptr
  /\ \A f \in Current, d \in ToSet(chip_devices) :
       f \in registered \/ d \notin ToSet(job[1].todo) => Matches(d, f.ptr) # {}

IInv == Typed /\ Counted /\ Strings /\ Lookup

-----------------------------------------------------------------------------
(* A compiled module has its kernels unmarked.                             *)
LEMMA FreshModule ==
  ASSUME NEW b \in Binaries, NEW ptrs \in [KernelsOf[b] -> Indeterminate]
  PROVE  /\ Fresh(b, ptrs) \in Module
         /\ \A k \in Fresh(b, ptrs).kernels : k \in Kernel /\ k.marked = FALSE
<1>. DEFINE K == { [name |-> n, ptr |-> ptrs[n], marked |-> FALSE] : n \in KernelsOf[b] }
<1>1. Fresh(b, ptrs) = [src |-> b, kernels |-> K] BY DEF Fresh
<1>2. ASSUME NEW n \in KernelsOf[b]
      PROVE  n \in Names /\ ptrs[n] \in Addresses \cup {Null}
  <2>1. KernelsOf[b] \subseteq Names /\ Indeterminate \subseteq Addresses \cup {Null}
    BY ModulesAssumption
  <2>2. ptrs[n] \in Indeterminate OBVIOUS
  <2>. QED BY <2>1, <2>2
<1>3. ASSUME NEW n \in Names, NEW a \in Addresses \cup {Null}
      PROVE  [name |-> n, ptr |-> a, marked |-> FALSE] \in Kernel
  BY DEF Kernel
<1>4. ASSUME NEW k \in K
      PROVE  k \in Kernel /\ k.marked = FALSE
  <2>1. PICK n \in KernelsOf[b] : k = [name |-> n, ptr |-> ptrs[n], marked |-> FALSE]
    OBVIOUS
  <2>2. n \in Names /\ ptrs[n] \in Addresses \cup {Null} BY <1>2
  <2>3. k \in Kernel BY <2>1, <2>2, <1>3
  <2>. QED BY <2>1, <2>3
<1>5. K \subseteq Kernel BY <1>4
<1>. HIDE DEF K
<1>6. [src |-> b, kernels |-> K] \in Module BY <1>5 DEF Module
<1>7. Fresh(b, ptrs).kernels = K BY <1>1
<1>8. \A k \in K : k \in Kernel /\ k.marked = FALSE BY <1>4
<1>9. Fresh(b, ptrs) \in Module BY <1>1, <1>6
<1>. QED BY <1>7, <1>8, <1>9

(* The module compiled for f marks the kernel of f and no other.           *)
LEMMA MarkedModule ==
  ASSUME NEW f \in Function, f.name \in KernelsOf[f.bin],
         NEW ptrs \in [KernelsOf[f.bin] -> Indeterminate]
  PROVE  LET m == Mark(Fresh(f.bin, ptrs), f.name, f.ptr)
         IN  /\ m \in Module /\ m.src = f.bin
             /\ \E k \in m.kernels : k.ptr = f.ptr
             /\ \A k \in m.kernels : k.marked => k.ptr = f.ptr /\ k.name = f.name
<1>. DEFINE K == Fresh(f.bin, ptrs).kernels
            mark(k) == IF k.name = f.name THEN [k EXCEPT !.ptr = f.ptr, !.marked = TRUE] ELSE k
            m == Mark(Fresh(f.bin, ptrs), f.name, f.ptr)
<1>1. f.bin \in Binaries /\ f.name \in Names /\ f.ptr \in Addresses
      /\ KernelsOf[f.bin] \subseteq Names
  BY ModulesAssumption DEF Function
<1>2. K = { [name |-> n, ptr |-> ptrs[n], marked |-> FALSE] : n \in KernelsOf[f.bin] }
  BY DEF Fresh
<1>3. m.src = f.bin /\ m.kernels = { mark(k) : k \in K }
      /\ m = [src |-> m.src, kernels |-> m.kernels]
  <2>1. m = [Fresh(f.bin, ptrs) EXCEPT !.kernels = { mark(k) : k \in K }]
    BY Zenon DEF Mark
  <2>. DEFINE S == { mark(k) : k \in K }
  <2>2. Fresh(f.bin, ptrs) = [src |-> f.bin, kernels |-> K] BY DEF Fresh
  <2>. HIDE DEF K, S, m
  <2>3. m = [[src |-> f.bin, kernels |-> K] EXCEPT !.kernels = S]
    BY <2>1, <2>2 DEF S
  <2>4. m = [src |-> f.bin, kernels |-> S] BY <2>3
  <2>. QED BY <2>4 DEF S
<1>4. \A k \in K : k \in Kernel /\ k.marked = FALSE
  BY <1>1, FreshModule
<1>5. ASSUME NEW k \in K
      PROVE  /\ mark(k) \in Kernel
             /\ mark(k).marked => mark(k).ptr = f.ptr /\ mark(k).name = f.name
  BY <1>1, <1>4 DEF Kernel
<1>6. \E k \in K : mark(k).ptr = f.ptr
  <2>. DEFINE k == [name |-> f.name, ptr |-> ptrs[f.name], marked |-> FALSE]
  <2>1. k \in K BY <1>2
  <2>2. mark(k).ptr = f.ptr OBVIOUS
  <2>. QED BY <2>1, <2>2
<1>. HIDE DEF K, mark, m
<1>. QED BY <1>1, <1>3, <1>5, <1>6 DEF Module, m

(* The next device of a registration gets the module m.                    *)
Adds(d, m) == chip_modules' = [chip_modules EXCEPT ![d] = Append(@, m)]

(* What the step of a registration leaves alone.                           *)
Kept == UNCHANGED <<initialized, uninitialized, binaries_loaded, modules_str, loaded,
                    handles, freed, orphaned, misused, chip_devices, mapped, reused>>

(* And how it goes on, when f has been registered on one more device.      *)
Advance(f, todo) ==
  IF Tail(todo) = <<>> THEN Done(f)
  ELSE job' = <<[function |-> f, todo |-> Tail(todo)]>> /\ UNCHANGED registered

LEMMA AddModule ==
  ASSUME Typed, NEW d \in Devices, NEW m \in Module, Adds(d, m)
  PROVE  /\ chip_modules' \in [Devices -> Seq(Module)]
         /\ \A e \in Devices : \A i \in DOMAIN chip_modules'[e] :
              \/ i \in DOMAIN chip_modules[e] /\ chip_modules'[e][i] = chip_modules[e][i]
              \/ e = d /\ chip_modules'[e][i] = m
         /\ \A p : \A e \in Devices : Matches(e, p) \subseteq Matches(e, p)'
         /\ \A p : (\E k \in m.kernels : k.ptr = p) => Matches(d, p)' # {}
<1>0. chip_modules \in [Devices -> Seq(Module)] BY DEF Typed
<1>1. chip_modules[d] \in Seq(Module) BY <1>0
<1>2. /\ chip_modules'[d] = Append(chip_modules[d], m)
      /\ \A e \in Devices \ {d} : chip_modules'[e] = chip_modules[e]
      /\ chip_modules' = [e \in Devices |-> chip_modules'[e]]
  BY <1>0 DEF Adds
<1>3. /\ Append(chip_modules[d], m) \in Seq(Module)
      /\ Len(Append(chip_modules[d], m)) = Len(chip_modules[d]) + 1
      /\ \A i \in 1..Len(chip_modules[d]) :
           Append(chip_modules[d], m)[i] = chip_modules[d][i]
      /\ Append(chip_modules[d], m)[Len(chip_modules[d]) + 1] = m
  BY <1>1, AppendProperties
<1>4. /\ DOMAIN chip_modules'[d] = 1..(Len(chip_modules[d]) + 1)
      /\ DOMAIN chip_modules[d] = 1..Len(chip_modules[d])
      /\ Len(chip_modules[d]) \in Nat
  BY <1>1, <1>2, <1>3
<1>5. chip_modules' \in [Devices -> Seq(Module)] BY <1>0, <1>2, <1>3
<1>6. ASSUME NEW e \in Devices, NEW i \in DOMAIN chip_modules'[e]
      PROVE  \/ i \in DOMAIN chip_modules[e] /\ chip_modules'[e][i] = chip_modules[e][i]
             \/ e = d /\ chip_modules'[e][i] = m
  <2>1. CASE e # d BY <2>1, <1>2, <1>6
  <2>2. CASE e = d /\ i \in 1..Len(chip_modules[d]) BY <2>2, <1>2, <1>3, <1>4
  <2>3. CASE e = d /\ i = Len(chip_modules[d]) + 1 BY <2>3, <1>2, <1>3
  <2>. QED BY <2>1, <2>2, <2>3, <1>4
<1>7. ASSUME NEW e \in Devices, NEW p, NEW i \in Matches(e, p)
      PROVE  i \in Matches(e, p)'
  <2>1. i \in DOMAIN chip_modules[e]
        /\ \E k \in chip_modules[e][i].kernels : k.ptr = p
    BY DEF Matches
  <2>2. i \in DOMAIN chip_modules'[e] /\ chip_modules'[e][i] = chip_modules[e][i]
    <3>1. CASE e # d BY <3>1, <2>1, <1>2
    <3>2. CASE e = d BY <3>2, <2>1, <1>2, <1>3, <1>4
    <3>. QED BY <3>1, <3>2
  <2>. QED BY <2>1, <2>2 DEF Matches
<1>8. ASSUME NEW p, \E k \in m.kernels : k.ptr = p
      PROVE  Matches(d, p)' # {}
  <2>1. Len(chip_modules[d]) + 1 \in Matches(d, p)'
    BY <1>2, <1>3, <1>4, <1>8 DEF Matches
  <2>. QED BY <2>1
<1>. QED BY <1>5, <1>6, <1>7, <1>8

-----------------------------------------------------------------------------
LEMMA InitOK == Init => IInv
<1>. SUFFICES ASSUME Init PROVE IInv
  OBVIOUS
<1>1. DeviceList \in Seq(Devices) /\ DeviceList # <<>>
  BY ModulesAssumption DEF Devices
<1>2. Typed
  <2>1. chip_modules \in [Devices -> Seq(Module)]
    <3>1. <<>> \in Seq(Module) OBVIOUS
    <3>. QED BY <3>1 DEF Init
  <2>2. modules_str \in Seq(Binaries) BY DEF Init
  <2>3. chip_devices \in Seq(Devices) \ {<<>>} BY <1>1 DEF Init
  <2>. QED BY <2>1, <2>2, <2>3 DEF Init, Typed
<1>3. Counted
  BY FS_EmptySet DEF Init, Counted
<1>4. Strings
  BY DEF Init, Strings, IsInjective, ToSet
<1>5. Lookup
  <2>1. \A d \in Devices : DOMAIN chip_modules[d] = {} BY DEF Init
  <2>. QED
    BY <2>1 DEF Init, Lookup, MarksMapped, Current, NoJob
<1>. QED BY <1>2, <1>3, <1>4, <1>5 DEF IInv

(* Steps that leave the modules and the registrations alone.               *)
LEMMA LookupKept ==
  ASSUME Lookup, UNCHANGED <<chip_devices, chip_modules, job, registered, mapped, reused>>
  PROVE  Lookup'
BY DEF Lookup, MarksMapped, Current, OnlyOwn, Matches

LEMMA RegisterFatBinaryOK ==
  ASSUME IInv, NEW b \in Binaries, RegisterFatBinary(b)
  PROVE  IInv'
<1>. USE DEF IInv, RegisterFatBinary, Calling
<1>1. Lookup' BY LookupKept DEF device, host
<1>2. Typed' /\ Counted' /\ Strings'
  <2>1. CASE UNCHANGED <<binaries_loaded, modules_str, handles, freed, orphaned>>
    BY <2>1 DEF device, host, Initialized, Typed, Counted, Strings
  <2>2. CASE /\ Initialized /\ registerModuleStr(b)
             /\ binaries_loaded' = binaries_loaded + 1
    <3>. USE DEF registerModuleStr
    <3>1. b \notin handles BY DEF Typed
    <3>2. /\ modules_str' \in Seq(Binaries)
          /\ ToSet(modules_str') = ToSet(modules_str) \cup {b}
          /\ b \notin ToSet(modules_str) => IsInjective(modules_str')
      BY <2>2, AppendSet DEF Typed, Strings
    <3>3. Typed' BY <2>2, <3>2 DEF Typed, device, host, Initialized
    <3>4. Counted' BY <2>2, <3>1, FS_AddElement DEF Counted
    <3>5. Strings' BY <2>2, <3>1, <3>2 DEF Strings
    <3>. QED BY <3>3, <3>4, <3>5
  <2>. QED BY <2>1, <2>2
<1>. QED BY <1>1, <1>2

LEMMA UnregisterFatBinaryOK ==
  ASSUME IInv, NEW b \in Binaries, UnregisterFatBinary(b)
  PROVE  IInv'
<1>. USE DEF IInv, UnregisterFatBinary, Calling
<1>1. /\ modules_str' \in Seq(Binaries)
      /\ ToSet(modules_str') \subseteq ToSet(modules_str) \ {b}
      /\ IsInjective(modules_str')
  BY RemoveFirstProperties DEF unregisterModuleStr, Typed, Strings
<1>2. Cardinality(handles') = Cardinality(handles) - 1 /\ IsFiniteSet(handles')
      /\ Cardinality(handles) \in Nat /\ Cardinality(handles') \in Nat
  BY FS_RemoveElement, FS_CardinalityType DEF Counted
<1>3. Counted' BY <1>2 DEF Counted
<1>4. Typed' BY <1>1, <1>2, <1>3 DEF Typed, Counted, device
<1>5. Strings' BY <1>1 DEF Strings, Use
<1>6. Lookup'
  BY DEF Lookup, MarksMapped, Current, OnlyOwn, Matches, device
<1>. QED BY <1>3, <1>4, <1>5, <1>6

LEMMA InitFromOutsideOK ==
  ASSUME IInv, InitFromOutside
  PROVE  IInv'
<1>. USE DEF IInv, InitFromOutside, Calling
<1>1. /\ chip_devices' \in Seq(Devices) \ {<<>>}
      /\ ToSet(chip_devices') \subseteq ToSet(chip_devices)
  <2>1. chip_devices \in Seq(Devices) /\ chip_devices # <<>> BY DEF Typed
  <2>2. Head(chip_devices) = chip_devices[1] /\ 1 \in DOMAIN chip_devices
        /\ Head(chip_devices) \in Devices
    BY <2>1
  <2>. HIDE DEF InitFromOutside
  <2>3. chip_devices' = <<Head(chip_devices)>> BY DEF InitFromOutside
  <2>. QED BY <2>2, <2>3 DEF ToSet
<1>2. Typed' BY <1>1 DEF Typed, host, ModulesTaken
<1>3. Counted' BY DEF Counted
<1>4. Strings' BY DEF Strings, IsInjective, ToSet
<1>5. Lookup'
  BY <1>1 DEF Lookup, MarksMapped, Current, OnlyOwn, Matches, host, ModulesTaken
<1>. QED BY <1>2, <1>3, <1>4, <1>5

(* A function at a new address has no kernel marked for it yet, and one at *)
(* a used address is excepted.                                             *)
LEMMA RegisterFunctionOK ==
  ASSUME IInv, NEW b \in Binaries, NEW n \in Names, NEW p \in Addresses,
         RegisterFunction(b, n, p)
  PROVE  IInv'
<1>. DEFINE f == [bin |-> b, name |-> n, ptr |-> p]
<1>. USE DEF IInv, RegisterFunction, Calling
<1>1. f \in Function /\ f.ptr = p /\ f.bin = b /\ f.name = n BY DEF Function
<1>. HIDE DEF f
<1>2. job' = <<[function |-> f, todo |-> chip_devices]>> BY DEF f
<1>3. /\ job' \in Job /\ job' # NoJob
      /\ job'[1].function = f /\ job'[1].todo = chip_devices
  BY <1>1, <1>2 DEF Job, NoJob, Typed
<1>4. Typed' BY <1>3 DEF Typed, device
<1>5. Counted' BY DEF Counted
<1>6. Strings' BY DEF Strings, Use
<1>7. Lookup'
  <2>1. UNCHANGED <<chip_devices, chip_modules, registered>> BY DEF device
  <2>2. mapped' = mapped \cup {p} /\ reused \subseteq reused'
        /\ (p \in mapped => p \in reused')
    OBVIOUS
  <2>3. MarksMapped' BY <2>1, <2>2 DEF Lookup, MarksMapped
  <2>4. ASSUME NEW g \in registered
        PROVE  g.ptr \in mapped' /\ (g.ptr \notin reused' => OnlyOwn(g)')
    BY <2>1, <2>2 DEF Lookup, Current, OnlyOwn
  <2>5. p \notin reused' => OnlyOwn(f)'
    BY <1>1, <2>1, <2>2, ModulesAssumption DEF Lookup, MarksMapped, OnlyOwn
  <2>6. Current' = registered \cup {f} BY <1>3, <2>1 DEF Current
  <2>7. \A g \in registered' : g.ptr # job'[1].function.ptr BY <1>1, <1>3, <2>1
  <2>8. \A g \in registered, d \in ToSet(chip_devices) : Matches(d, g.ptr)' # {}
    BY <2>1 DEF Lookup, Matches, Current
  <2>9. \A g \in Current', d \in ToSet(chip_devices') :
          g \in registered' \/ d \notin ToSet(job'[1].todo) => Matches(d, g.ptr)' # {}
    BY <1>3, <2>1, <2>6, <2>8
  <2>. QED BY <1>1, <2>2, <2>3, <2>4, <2>5, <2>6, <2>7, <2>8, <2>9 DEF Lookup
<1>. QED BY <1>4, <1>5, <1>6, <1>7

(* A registration that fails leaves a module in which nothing is marked.   *)
LEMMA RegisterOnDeviceFailsOK ==
  ASSUME IInv, NEW d \in Devices, NEW m \in Module,
         \A k \in m.kernels : ~ k.marked,
         Adds(d, m), job' = NoJob,
         UNCHANGED registered, Kept
  PROVE  IInv'
<1>. USE DEF IInv, Kept
<1>1. /\ chip_modules' \in [Devices -> Seq(Module)]
      /\ \A e \in Devices : \A i \in DOMAIN chip_modules'[e] :
           \/ i \in DOMAIN chip_modules[e] /\ chip_modules'[e][i] = chip_modules[e][i]
           \/ e = d /\ chip_modules'[e][i] = m
      /\ \A p : \A e \in Devices : Matches(e, p) \subseteq Matches(e, p)'
  BY AddModule
<1>2. Typed'
  <2>1. chip_modules' \in [Devices -> Seq(Module)] BY <1>1
  <2>2. job' \in Job \cup {NoJob} OBVIOUS
  <2>. QED BY <2>1, <2>2 DEF Typed
<1>3. Counted' /\ Strings' BY DEF Counted, Strings
<1>4. Lookup'
  <2>1. MarksMapped' BY <1>1 DEF Lookup, MarksMapped
  <2>2. ASSUME NEW f \in registered
        PROVE  f.ptr \in mapped /\ (f.ptr \notin reused => OnlyOwn(f)')
    <3>1. f.ptr \in Addresses BY DEF Typed, Function
    <3>2. f.ptr \in mapped /\ (f.ptr \notin reused => OnlyOwn(f))
      BY DEF Lookup, Current
    <3>3. ASSUME OnlyOwn(f), NEW e \in Devices, NEW i \in DOMAIN chip_modules'[e],
                 NEW k \in chip_modules'[e][i].kernels, k.marked, k.ptr = f.ptr
          PROVE  chip_modules'[e][i].src = f.bin /\ k.name = f.name
      <4>1. CASE i \in DOMAIN chip_modules[e] /\ chip_modules'[e][i] = chip_modules[e][i]
        BY <4>1, <3>3 DEF OnlyOwn
      <4>2. CASE chip_modules'[e][i] = m BY <4>2, <3>1, <3>3, ModulesAssumption
      <4>. QED BY <4>1, <4>2, <1>1
    <3>. QED BY <3>2, <3>3 DEF OnlyOwn
  <2>3. Current' = registered BY DEF Current
  <2>4. ToSet(chip_devices) \subseteq Devices BY DEF Typed, ToSet
  <2>5. \A f \in registered, e \in ToSet(chip_devices) : Matches(e, f.ptr)' # {}
    BY <1>1, <2>4 DEF Lookup, Current
  <2>. QED BY <2>1, <2>2, <2>3, <2>5 DEF Lookup
<1>. QED BY <1>2, <1>3, <1>4

(* The next device of a registration gets the kernel, and the last one     *)
(* ends it.                                                                *)
LEMMA RegisterOnDeviceDoneOK ==
  ASSUME IInv, NEW f \in Function, NEW todo \in Seq(Devices), todo # <<>>,
         job = <<[function |-> f, todo |-> todo]>>,
         f.name \in KernelsOf[f.bin],
         NEW ptrs \in [KernelsOf[f.bin] -> Indeterminate],
         Adds(Head(todo), Mark(Fresh(f.bin, ptrs), f.name, f.ptr)),
         Advance(f, todo), Kept
  PROVE  IInv'
<1>. DEFINE d == Head(todo)
            m == Mark(Fresh(f.bin, ptrs), f.name, f.ptr)
<1>. USE DEF IInv, Kept
<1>1. /\ m \in Module /\ m.src = f.bin
      /\ \E k \in m.kernels : k.ptr = f.ptr
      /\ \A k \in m.kernels : k.marked => k.ptr = f.ptr /\ k.name = f.name
  BY MarkedModule
<1>2. /\ d \in Devices /\ Tail(todo) \in Seq(Devices)
      /\ ToSet(todo) \subseteq {d} \cup ToSet(Tail(todo))
  BY HeadTailSet
<1>. HIDE DEF m, d
<1>3. /\ chip_modules' \in [Devices -> Seq(Module)]
      /\ \A e \in Devices : \A i \in DOMAIN chip_modules'[e] :
           \/ i \in DOMAIN chip_modules[e] /\ chip_modules'[e][i] = chip_modules[e][i]
           \/ e = d /\ chip_modules'[e][i] = m
      /\ \A p : \A e \in Devices : Matches(e, p) \subseteq Matches(e, p)'
      /\ Matches(d, f.ptr)' # {}
  <2>1. Adds(d, m) BY DEF d, m
  <2>. QED BY <1>1, <1>2, <2>1, AddModule
<1>4. /\ job # NoJob /\ job[1].function = f /\ job[1].todo = todo
      /\ Current = registered \cup {f}
  BY DEF NoJob, Current
<1>5. \/ job' = NoJob /\ registered' = registered \cup {f} /\ Tail(todo) = <<>>
      \/ /\ job' = <<[function |-> f, todo |-> Tail(todo)]>> /\ Tail(todo) # <<>>
         /\ registered' = registered
  BY DEF Advance, Done
<1>6. Typed'
  <2>. DEFINE rest == Tail(todo)
  <2>0. rest \in Seq(Devices) BY <1>2
  <2>1. job' \in Job \cup {NoJob}
    <3>1. CASE job' = NoJob BY <3>1
    <3>2. CASE job' = <<[function |-> f, todo |-> rest]>> /\ rest # <<>>
      <4>. HIDE DEF rest
      <4>1. rest \in Seq(Devices) \ {<<>>} BY <2>0, <3>2
      <4>. QED BY <4>1, <3>2 DEF Job
    <3>. QED BY <3>1, <3>2, <1>5
  <2>2. registered' \subseteq Function BY <1>5 DEF Typed
  <2>. QED BY <1>3, <2>1, <2>2 DEF Typed
<1>7. Counted' /\ Strings' BY DEF Counted, Strings
<1>8. Lookup'
  <2>1. f.ptr \in mapped /\ f.ptr \in Addresses
    BY <1>4 DEF Lookup, Function
  <2>2. MarksMapped' BY <1>1, <1>3, <2>1 DEF Lookup, MarksMapped
  <2>3. ASSUME NEW g \in registered \cup {f}
        PROVE  g.ptr \in mapped /\ (g.ptr \notin reused => OnlyOwn(g)')
    <3>1. g.ptr \in mapped /\ (g.ptr \notin reused => OnlyOwn(g))
      BY <1>4 DEF Lookup
    <3>2. g.ptr \in Addresses /\ (g = f \/ g.ptr # f.ptr)
      BY <1>4, <2>1 DEF Lookup, Typed, Function
    <3>3. ASSUME NEW k \in m.kernels, k.marked, k.ptr = g.ptr
          PROVE  m.src = g.bin /\ k.name = g.name
      BY <1>1, <3>2, <3>3, ModulesAssumption
    <3>4. ASSUME OnlyOwn(g), NEW e \in Devices, NEW i \in DOMAIN chip_modules'[e],
                 NEW k \in chip_modules'[e][i].kernels, k.marked, k.ptr = g.ptr
          PROVE  chip_modules'[e][i].src = g.bin /\ k.name = g.name
      <4>1. CASE i \in DOMAIN chip_modules[e] /\ chip_modules'[e][i] = chip_modules[e][i]
        BY <4>1, <3>4 DEF OnlyOwn
      <4>2. CASE chip_modules'[e][i] = m BY <4>2, <3>3, <3>4
      <4>. QED BY <4>1, <4>2, <1>3
    <3>. QED BY <3>1, <3>4 DEF OnlyOwn
  <2>4. Current' = registered \cup {f}
    <3>1. CASE job' = NoJob BY <3>1, <1>5 DEF Current, NoJob
    <3>2. CASE job' # NoJob BY <3>2, <1>5 DEF Current, NoJob
    <3>. QED BY <3>1, <3>2
  <2>5. ToSet(chip_devices) \subseteq Devices BY DEF Typed, ToSet
  <2>6. \A g \in registered, e \in ToSet(chip_devices) : Matches(e, g.ptr)' # {}
    BY <1>3, <1>4, <2>5 DEF Lookup
  <2>7. ASSUME NEW e \in ToSet(chip_devices) \ ToSet(Tail(todo))
        PROVE  Matches(e, f.ptr)' # {}
    <3>1. CASE e = d BY <3>1, <1>3
    <3>2. CASE e # d
      <4>1. e \notin ToSet(todo) BY <3>2, <1>2
      <4>2. Matches(e, f.ptr) # {} BY <4>1, <1>4 DEF Lookup
      <4>. QED BY <4>2, <1>3, <2>5
    <3>. QED BY <3>1, <3>2
  <2>8. ASSUME job' # NoJob
        PROVE  \A g \in registered' : g.ptr # job'[1].function.ptr
    <3>1. job'[1].function = f /\ registered' = registered
      BY <2>8, <1>5
    <3>. QED BY <3>1, <1>4 DEF Lookup
  <2>9. ASSUME NEW g \in Current', NEW e \in ToSet(chip_devices'),
               g \in registered' \/ e \notin ToSet(job'[1].todo)
        PROVE  Matches(e, g.ptr)' # {}
    <3>1. CASE registered' = registered /\ job' # NoJob
      <4>1. job'[1].todo = Tail(todo) BY <3>1, <1>5
      <4>. QED BY <3>1, <4>1, <2>4, <2>6, <2>7, <2>9
    <3>2. CASE registered' = registered \cup {f} /\ Tail(todo) = <<>>
      <4>1. ToSet(Tail(todo)) = {} BY <3>2 DEF ToSet
      <4>. QED BY <3>2, <4>1, <2>4, <2>6, <2>7
    <3>3. job' = NoJob => registered' = registered \cup {f} /\ Tail(todo) = <<>>
      BY <1>5 DEF NoJob
    <3>. QED BY <3>1, <3>2, <3>3, <1>5
  <2>. QED BY <2>2, <2>3, <2>4, <2>8, <2>9 DEF Lookup
<1>. QED BY <1>6, <1>7, <1>8

LEMMA RegisterOnDeviceOK ==
  ASSUME IInv, RegisterOnDevice
  PROVE  IInv'
<1>1. PICK f \in Function, todo \in Seq(Devices) \ {<<>>} :
        job = <<[function |-> f, todo |-> todo]>>
  <2>1. job \in Job BY DEF RegisterOnDevice, IInv, Typed
  <2>. QED BY <2>1 DEF Job
<1>2. job[1].function = f /\ job[1].todo = todo BY <1>1
<1>3. Head(todo) \in Devices BY HeadTailProperties
<1>4. f.bin \in Binaries /\ KernelsOf[f.bin] \subseteq Names
  BY ModulesAssumption DEF Function
<1>5. Kept
  BY DEF RegisterOnDevice, Kept, strings
<1>. SUFFICES ASSUME NEW ptrs \in [KernelsOf[f.bin] -> Indeterminate],
                     \/ /\ f.name \in KernelsOf[f.bin]
                        /\ Adds(Head(todo), Mark(Fresh(f.bin, ptrs), f.name, f.ptr))
                        /\ Advance(f, todo)
                     \/ /\ Adds(Head(todo), Fresh(f.bin, ptrs))
                        /\ job' = NoJob /\ UNCHANGED registered
                     \/ /\ Adds(Head(todo), [src |-> f.bin, kernels |-> {}])
                        /\ job' = NoJob /\ UNCHANGED registered
              PROVE  IInv'
  BY <1>2 DEF RegisterOnDevice, Adds, Advance
<1>6. CASE /\ f.name \in KernelsOf[f.bin]
           /\ Adds(Head(todo), Mark(Fresh(f.bin, ptrs), f.name, f.ptr))
           /\ Advance(f, todo)
  BY <1>1, <1>5, <1>6, RegisterOnDeviceDoneOK
<1>7. CASE /\ Adds(Head(todo), Fresh(f.bin, ptrs))
           /\ job' = NoJob /\ UNCHANGED registered
  <2>. DEFINE m == Fresh(f.bin, ptrs)
  <2>1. m \in Module /\ \A k \in m.kernels : ~ k.marked
    BY <1>4, FreshModule
  <2>. HIDE DEF m
  <2>2. Adds(Head(todo), m) BY <1>7 DEF m
  <2>. QED BY <1>3, <1>5, <1>7, <2>1, <2>2, RegisterOnDeviceFailsOK
<1>8. CASE /\ Adds(Head(todo), [src |-> f.bin, kernels |-> {}])
           /\ job' = NoJob /\ UNCHANGED registered
  <2>. DEFINE m == [src |-> f.bin, kernels |-> {}]
  <2>1. m \in Module /\ \A k \in m.kernels : ~ k.marked
    BY <1>4 DEF Module
  <2>. HIDE DEF m
  <2>2. Adds(Head(todo), m) BY <1>8 DEF m
  <2>. QED BY <1>3, <1>5, <1>8, <2>1, <2>2, RegisterOnDeviceFailsOK
<1>. QED BY <1>6, <1>7, <1>8

LEMMA StepOK == IInv /\ [Next]_vars => IInv'
<1>. SUFFICES ASSUME IInv, [Next]_vars PROVE IInv'
  OBVIOUS
<1>1. CASE UNCHANGED vars
  <2>1. Lookup' BY <1>1, LookupKept DEF IInv, vars, device, host
  <2>. QED
    BY <1>1, <2>1 DEF IInv, Typed, Counted, Strings, vars, strings, device, host
<1>2. ASSUME NEW b \in Binaries, UnloadRefused(b) PROVE IInv'
  <2>1. Lookup' BY <1>2, LookupKept DEF IInv, UnloadRefused, device, host
  <2>. QED
    BY <1>2, <2>1 DEF UnloadRefused, IInv, Typed, Counted, Strings, strings, device, host
<1>3. ASSUME NEW b \in Binaries, RegisterFunctionNull(b) PROVE IInv'
  <2>1. Lookup' BY <1>3, LookupKept DEF IInv, RegisterFunctionNull, device, host
  <2>. QED
    BY <1>3, <2>1 DEF RegisterFunctionNull, Initialized, IInv, Typed, Counted, Strings,
                      strings, device, host
<1>. QED
  BY <1>1, <1>2, <1>3, RegisterFatBinaryOK, UnregisterFatBinaryOK, RegisterFunctionOK,
     RegisterOnDeviceOK, InitFromOutsideOK DEF Next

LEMMA Invariant == Spec => []IInv
BY InitOK, StepOK, PTL DEF Spec

(* The counter of loaded binaries is the number of binaries that can still *)
(* be unregistered: __hipUnregisterFatBinary uninitialises on the last of  *)
(* them and on no other.                                                   *)
THEOREM StateCorrect == Spec => []StateOK
<1>1. IInv => StateOK
  <2>. SUFFICES ASSUME IInv PROVE StateOK
    OBVIOUS
  <2>1. ASSUME NEW d \in Devices, NEW i \in DOMAIN chip_modules[d]
        PROVE  chip_modules[d][i].src \in Binaries
               /\ chip_modules[d][i].kernels \subseteq Kernel
    <3>1. chip_modules[d] \in Seq(Module) BY DEF IInv, Typed
    <3>2. chip_modules[d][i] \in Module BY <3>1
    <3>. QED BY <3>2 DEF Module
  <2>. QED BY <2>1 DEF IInv, Typed, Counted, StateOK, TypeOK, CountsBinaries
<1>. QED BY <1>1, Invariant, PTL

(* A launch of a registered function finds a kernel on every device, and   *)
(* one that belongs to a function only if it is the kernel of its name in  *)
(* its own binary, unless its address was another function's before.       *)
THEOREM LookupCorrect == Spec => []LookupFindsOwn
<1>1. IInv => LookupFindsOwn
  <2>. SUFFICES ASSUME IInv, NEW f \in registered, NEW d \in ToSet(chip_devices),
                       f.ptr \notin reused
                PROVE  LET found == findKernelByHostPtr(d, f.ptr) IN
                       /\ found # {}
                       /\ \A r \in found : r.kernel.marked =>
                            r.bin = f.bin /\ r.kernel.name = f.name
    BY DEF LookupFindsOwn
  <2>. DEFINE M == Matches(d, f.ptr)
              first == { i \in M : \A j \in M : i <= j }
              answers(i) == { [bin |-> chip_modules[d][i].src, kernel |-> k] :
                                k \in { x \in chip_modules[d][i].kernels : x.ptr = f.ptr } }
  <2>1. d \in Devices BY DEF IInv, Typed, ToSet
  <2>2. M # {} /\ OnlyOwn(f) BY DEF IInv, Lookup, Current
  <2>3. M \subseteq DOMAIN chip_modules[d] BY DEF Matches
  <2>4. DOMAIN chip_modules[d] \subseteq Nat
    <3>1. chip_modules[d] \in Seq(Module) BY <2>1 DEF IInv, Typed
    <3>. QED BY <3>1
  <2>5. PICK i \in M : \A j \in M : i <= j
    BY <2>2, <2>3, <2>4, LeastNat
  <2>6. findKernelByHostPtr(d, f.ptr) = UNION { answers(j) : j \in first }
    BY Zenon DEF findKernelByHostPtr
  <2>7. PICK k \in chip_modules[d][i].kernels : k.ptr = f.ptr BY <2>5 DEF Matches
  <2>8. answers(i) # {} /\ i \in first BY <2>5, <2>7
  <2>9. ASSUME NEW j \in first, NEW r \in answers(j), r.kernel.marked
        PROVE  r.bin = f.bin /\ r.kernel.name = f.name
    <3>1. PICK x \in chip_modules[d][j].kernels :
            x.ptr = f.ptr /\ r = [bin |-> chip_modules[d][j].src, kernel |-> x]
      BY <2>9
    <3>2. j \in DOMAIN chip_modules[d] BY <2>3, <2>9
    <3>. QED BY <2>1, <2>2, <2>9, <3>1, <3>2 DEF OnlyOwn
  <2>. HIDE DEF answers, first
  <2>. QED BY <2>6, <2>8, <2>9
<1>. QED BY <1>1, Invariant, PTL

(* The string of a binary is neither deleted twice nor used after it was   *)
(* deleted, unless a replaced backend deleted it under the program.        *)
THEOREM StringsCorrect == Spec => []StringsLive
<1>1. IInv => StringsLive BY DEF IInv, Strings, StringsLive
<1>. QED BY <1>1, Invariant, PTL
=============================================================================
