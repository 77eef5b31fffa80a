----------------------------- MODULE KernelArgs -----------------------------
(***************************************************************************)
(* setupAllArgs of both backends: how the arguments of a launch get into   *)
(* the argument slots of the kernel object.                                *)
(*                                                                         *)
(* The new way (hipLaunchKernel) hands over an array with a pointer to     *)
(* each argument; the old way (hipSetupArgument) copies each to an offset  *)
(* of a buffer, in any order.  What the code knows of the parameters is    *)
(* `info`, from the SPIR-V binary; the driver knows them as they are       *)
(* (`truth`).  A parameter in local memory stands last, put there by the   *)
(* compiler for the dynamic shared memory; nobody passes it.               *)
(*                                                                         *)
(* The slots belong to the kernel object: what a launch does not set is    *)
(* what an earlier one left.  Sizes and offsets are in units of 4 bytes,   *)
(* and an argument consists of units <<a, 1>>, <<a, 2>> and so on, where a  *)
(* is its index (new way) or its offset (old way).  Assertions are on, as  *)
(* the build leaves them.                                                  *)
(***************************************************************************)
EXTENDS Integers, Sequences, FiniteSets, SequencesExt

CONSTANTS
  Backends,  \* which of "level0" and "opencl" the runtime is on
  ArgSizes,  \* bound: sizes given to hipSetupArgument
  Offsets,   \* bound: offsets given to hipSetupArgument
  MaxArgs,   \* bound: arguments set up for a launch
  Shared     \* bound: sizes of dynamic shared memory

VARIABLES
  backend,
  info,         \* FuncInfo->ArgTypeInfo
  truth,        \* the parameters of the kernel in the driver
  slots,        \* the argument values of the kernel object
  api,          \* "old", "new"
  shared,       \* shared_mem of the item
  offset_sizes, \* of the item
  arg_data,     \* of the item: offset -> the unit stored there
  pc,           \* "none" (no kernel yet), or the step the launch is at
  i,            \* the loop variable
  faulted       \* history: the driver failed for reasons of its own

launch == <<api, shared, offset_sizes, arg_data>>
vars == <<backend, info, truth, slots, launch, pc, i, faulted>>

Outcomes == {"launched", "refused", "crash"}
Unset == [kind |-> "unset", units |-> <<>>]
Stale == [kind |-> "stale", units |-> <<>>]
Value(units) == [kind |-> "value", units |-> units]
Local(size) == [kind |-> "local", units |-> [n \in 1..size |-> <<0, n>>]]

(* The units of an argument of this size. *)
Whole(k, size) == [n \in 1..size |-> <<k, n>>]

TypeOK ==
  /\ backend \in Backends \cup {"none"}
  /\ Len(slots) = Len(truth) /\ Len(info) = Len(truth)
  /\ \A j \in DOMAIN slots : slots[j].kind \in {"unset", "stale", "value", "local"}
  /\ api \in {"old", "new"}
  /\ \A k \in DOMAIN offset_sizes : offset_sizes[k] \in Offsets \X ArgSizes
  /\ pc \in {"none", "idle", "setup", "check", "set", "local", "append"} \cup Outcomes
  /\ i \in Nat

NoLaunch == api = "new" /\ shared = 0 /\ offset_sizes = <<>> /\ arg_data = <<>>

Init ==
  /\ backend = "none"
  /\ info = <<>> /\ truth = <<>> /\ slots = <<>>
  /\ NoLaunch
  /\ pc = "none" /\ i = 0 /\ faulted = FALSE

-----------------------------------------------------------------------------
NumLocals == Cardinality({ j \in DOMAIN info : info[j].space = "Local" })

(* compile: a kernel object with the parameters of the binary. *)
CreateKernel(b, infos, parameters) ==
  /\ pc = "none"
  /\ backend' = b /\ info' = infos /\ truth' = parameters
  /\ slots' = [j \in DOMAIN parameters |-> Unset]
  /\ pc' = "idle"
  /\ UNCHANGED <<launch, i, faulted>>

(* The next launch finds what this one has set. *)
Configure(a, size) ==
  /\ pc \in {"idle", "launched", "refused"}
  /\ pc' = IF a = "old" THEN "setup" ELSE "check"
  /\ api' = a /\ shared' = size
  /\ offset_sizes' = <<>> /\ arg_data' = <<>>
  /\ slots' = [j \in DOMAIN slots |-> IF slots[j] = Unset THEN Unset ELSE Stale]
  /\ i' = 0 /\ faulted' = FALSE
  /\ UNCHANGED <<backend, info, truth>>

(* CHIPExecItem::setArg.  The buffer is written over. *)
SetArg(offset, size) ==
  /\ pc = "setup" /\ Len(offset_sizes) < MaxArgs
  /\ offset_sizes' = Append(offset_sizes, <<offset, size>>)
  /\ LET covered == offset..(offset + size - 1)
     IN  arg_data' = [u \in DOMAIN arg_data \cup covered |->
           IF u \in covered THEN <<offset, u - offset + 1>> ELSE arg_data[u]]
  /\ UNCHANGED <<backend, info, truth, slots, api, shared, pc, i, faulted>>

Launch ==
  /\ pc = "setup" /\ pc' = "check"
  /\ UNCHANGED <<backend, info, truth, slots, launch, i, faulted>>

-----------------------------------------------------------------------------
(* Slip: the arguments are taken in the order they were set up in.         *)
AsSetUp == {offset_sizes}

(* std::sort of offset_sizes: the same pairs, none after one it is less    *)
(* than.                                                                   *)
Less(a, b) == a[1] < b[1] \/ (a[1] = b[1] /\ a[2] < b[2])
Sorted ==
  LET K == DOMAIN offset_sizes
      orders == { p \in Bijection(K, K) : \A k, m \in K :
                    k < m => ~Less(offset_sizes[p[m]], offset_sizes[p[k]]) }
  IN  { [k \in K |-> offset_sizes[p[k]]] : p \in orders }

(* Slip: only the first offset of each pair is compared.                   *)
InvalidOverlap(s) ==
  \/ s[1][1] # 0 \/ s[1][2] = 0
  \/ \E k \in 2..Len(s) : s[k][1] = 0 \/ s[k][2] = 0 \/ s[k - 1][1] > s[k][1]

(* "Invalid offset/size" *)
Invalid(s) ==
  \/ s[1][1] # 0 \/ s[1][2] = 0
  \/ \E k \in 2..Len(s) :
       s[k][1] = 0 \/ s[k][2] = 0 \/ s[k - 1][1] + s[k - 1][2] > s[k][1]

(* "Some arguments are still unset" *)
Incomplete == Len(offset_sizes) + NumLocals # Len(info)

Setup == UNCHANGED <<backend, info, truth, api, shared, arg_data>>

(* The checks before the loop.  Without arguments the old way returns here.*)
Check ==
  /\ pc = "check"
  /\ i' = 1
  /\ IF api = "new" THEN pc' = "set" /\ UNCHANGED offset_sizes
     ELSE IF Incomplete THEN pc' = "refused" /\ UNCHANGED offset_sizes
     ELSE IF offset_sizes = <<>> THEN pc' = "append" /\ UNCHANGED offset_sizes
     ELSE \E s \in Sorted :
            offset_sizes' = s /\ pc' = IF Invalid(s) THEN "refused" ELSE "set"
  /\ Setup /\ UNCHANGED <<slots, faulted>>

(* zeKernelSetArgumentValue, clSetKernelArg and clSetKernelArgSVMPointer:  *)
(* a value is taken if it has the size of the parameter.                   *)
DriverTakes(j, units) == truth[j].space # "Local" /\ truth[j].size = Len(units)

SetSlot(units) ==
  IF DriverTakes(i, units)
  THEN slots' = [slots EXCEPT ![i] = Value(units)] /\ i' = i + 1 /\ UNCHANGED pc
  ELSE pc' = "refused" /\ UNCHANGED <<slots, i>>

(* The size of a host pointer in the units used here, and a parameter that *)
(* is a pointer of another size, which an assertion forbids.               *)
HostPointer == 2
OtherPointer(j) == info[j].type = "Pointer" /\ info[j].size # HostPointer

InLoop == pc = "set" /\ i <= IF api = "new" THEN Len(info) ELSE Len(offset_sizes)

(* The new way: ArgsPointer[i], which is one past the array for the local  *)
(* parameter.  OpenCL reads what it points to; a driver may take garbage   *)
(* for the size of a local parameter, or refuse it.                        *)
SetFromArray ==
  /\ InLoop /\ api = "new"
  /\ IF backend = "opencl" /\ OtherPointer(i)
       THEN pc' = "crash" /\ UNCHANGED <<slots, i>>
     ELSE IF info[i].space # "Local" THEN SetSlot(Whole(i, info[i].size))
     ELSE \/ i' = i + 1 /\ slots' = [slots EXCEPT ![i] = Stale] /\ UNCHANGED pc
          \/ pc' = "refused" /\ UNCHANGED <<slots, i>>
          \/ backend = "opencl" /\ pc' = "crash" /\ UNCHANGED <<slots, i>>
  /\ Setup /\ UNCHANGED <<offset_sizes, faulted>>

(* The old way: the i-th by offset, out of the buffer. *)
SetFromBuffer ==
  /\ InLoop /\ api = "old"
  /\ LET offset == offset_sizes[i][1]
         size == offset_sizes[i][2]
     IN  IF info[i].type = "Pointer" /\ (OtherPointer(i) \/ size # info[i].size)
         THEN pc' = "crash" /\ UNCHANGED <<slots, i>>
         ELSE SetSlot([n \in 1..size |-> arg_data[offset + n - 1]])
  /\ Setup /\ UNCHANGED <<offset_sizes, faulted>>

LoopEnds ==
  /\ pc = "set" /\ ~InLoop
  /\ pc' = "local"
  /\ Setup /\ UNCHANGED <<slots, offset_sizes, i, faulted>>

(* The dynamic shared memory.  Level Zero sets it whenever there is a      *)
(* local parameter and does not look at the status; OpenCL if there is any *)
(* to set, at the last index, which is -1 for a kernel without parameters. *)
HasLocal == info # <<>> /\ Last(info).space = "Local"
SetLocal == slots' = [slots EXCEPT ![Len(slots)] = Local(shared)]
SharedMemLevel0 ==
  /\ pc = "local" /\ backend = "level0"
  /\ IF NumLocals = 1 THEN SetLocal \/ UNCHANGED slots ELSE UNCHANGED slots
  /\ faulted' = (NumLocals = 1 /\ slots' = slots)
  /\ pc' = "append"
  /\ Setup /\ UNCHANGED <<offset_sizes, i>>
SharedMemOpenCL ==
  /\ pc = "local" /\ backend = "opencl"
  /\ IF shared > 0 /\ HasLocal THEN SetLocal ELSE UNCHANGED slots
  /\ pc' \in IF shared > 0 /\ info = <<>> THEN {"append", "refused", "crash"}
             ELSE {"append"}
  /\ Setup /\ UNCHANGED <<offset_sizes, i, faulted>>

(* A driver call that fails. *)
DriverFails ==
  /\ \/ InLoop
     \/ pc = "local" /\ backend = "opencl" /\ shared > 0 /\ HasLocal
  /\ pc' = "refused" /\ faulted' = TRUE
  /\ Setup /\ UNCHANGED <<slots, offset_sizes, i>>

(* The kernel is handed to the queue, which wants every slot set.          *)
AppendKernel ==
  /\ pc = "append"
  /\ pc' = IF \E j \in DOMAIN slots : slots[j] = Unset THEN "refused" ELSE "launched"
  /\ Setup /\ UNCHANGED <<slots, offset_sizes, i, faulted>>

Next ==
  \/ \E a \in {"old", "new"}, size \in Shared : Configure(a, size)
  \/ \E offset \in Offsets, size \in ArgSizes : SetArg(offset, size)
  \/ Launch \/ Check \/ SetFromArray \/ SetFromBuffer \/ LoopEnds
  \/ SharedMemLevel0 \/ SharedMemOpenCL \/ DriverFails \/ AppendKernel

-----------------------------------------------------------------------------
(* Where the code leaves the size of the shared memory as it was: the old  *)
(* way without arguments, OpenCL without shared memory, and a status that  *)
(* Level Zero does not look at.                                            *)
LocalLeftAsItWas ==
  \/ api = "old" /\ offset_sizes = <<>>
  \/ backend = "opencl" /\ shared = 0
  \/ backend = "level0" /\ faulted

OffsetsSetUp == { offset_sizes[k][1] : k \in DOMAIN offset_sizes }
Rank(offset) ==
  Cardinality({ k \in DOMAIN offset_sizes : offset_sizes[k][1] < offset }) + 1

(* The argument meant for parameter j: the j-th of the array, or by offset.*)
MeantFor(a, j) ==
  IF api = "new" THEN a = j ELSE a \in OffsetsSetUp /\ Rank(a) = j

(* A kernel that is launched has in each slot the whole of the argument    *)
(* meant for it, of this launch and not of an earlier one, in its size;    *)
(* and the size of the shared memory, but for LocalLeftAsItWas.            *)
ArgumentsInPlace ==
  pc = "launched" =>
    \A j \in DOMAIN truth :
      IF truth[j].space = "Local"
      THEN slots[j] = Local(shared) \/ LocalLeftAsItWas
      ELSE \E a \in Offsets \cup 1..Len(truth) :
             MeantFor(a, j) /\ slots[j] = Value(Whole(a, truth[j].size))

(* Each parameter but the local one is set up, once, in its size, and the  *)
(* arguments lie side by side from offset 0.                               *)
Proper ==
  api = "old" =>
    /\ Len(offset_sizes) + NumLocals = Len(truth)
    /\ offset_sizes # <<>> => 0 \in OffsetsSetUp
    /\ \A k, m \in DOMAIN offset_sizes :
         LET a == offset_sizes[k]  b == offset_sizes[m] IN
         /\ a[2] > 0 /\ a[2] = truth[Rank(a[1])].size
         /\ k # m => a[1] + a[2] <= b[1] \/ b[1] + b[2] <= a[1]

(* What the binary's table says of the parameters is so. *)
Exact ==
  \A j \in DOMAIN truth : info[j].size = truth[j].size /\ info[j].space = truth[j].space

(* Shared memory for a kernel without parameters (OpenCL), a local         *)
(* parameter that the new way has no argument for or that stays unset, and *)
(* a pointer that is not as wide as the host's, but in the new way of      *)
(* Level Zero, which asserts nothing.                                      *)
Unserved ==
  \/ backend = "opencl" /\ shared > 0 /\ info = <<>>
  \/ HasLocal /\ (api = "new" \/ LocalLeftAsItWas)
  \/ (api = "old" \/ backend = "opencl") /\ \E j \in DOMAIN info : OtherPointer(j)

(* A launch is refused, or brings the process down, only for a failure of  *)
(* the driver, arguments not set up properly, or a type the table has      *)
(* wrong, but for Unserved.                                                *)
RightlyRefused ==
  pc \in {"refused", "crash"} => faulted \/ ~Proper \/ ~Exact \/ Unserved
=============================================================================
