---------------------------- MODULE DeviceMemory ----------------------------
(***************************************************************************)
(* Device memory accounting: CHIPAllocationTracker and its users in        *)
(* CHIPContext (allocate, free, reset) and CHIPDevice (getName).           *)
(*                                                                         *)
(* allocate() holds the mutex of the context while it reserves the bytes   *)
(* in the tracker, asks the driver for them, and gives the reservation     *)
(* back if the driver returned no pointer.  The tracker's own mutex makes  *)
(* reserveMem and releaseMemReservation atomic; reset() reads              *)
(* total_mem_used without it, and getName() replaces the tracker by an     *)
(* empty one.                                                              *)
(*                                                                         *)
(* hipFree is no action: nothing records a pointer in                      *)
(* dev_to_allocation_info, so getByDevPtr throws before free() gets to the *)
(* reservation or to the driver.                                           *)
(***************************************************************************)
EXTENDS Integers

CONSTANTS
  Threads,          \* host threads
  NoThread,         \* the owner of a free mutex
  Sizes,            \* sizes an allocation may ask for
  global_mem_size,  \* bytes on the device
  Word,             \* size_t is a number below Word
  Resetters,        \* threads that call hipDevicePrimaryCtxReset
  MaxLive           \* bound: nothing is allocated beyond this history

ASSUME MemoryAssumption ==
  /\ NoThread \notin Threads
  /\ Sizes \subseteq Nat
  /\ global_mem_size \in Nat /\ Word \in Nat /\ global_mem_size < Word
  /\ Resetters \subseteq Threads
  /\ MaxLive \in Nat

VARIABLES
  backend,          \* "opencl" or "level0", chosen once
  total_mem_used,   \* the tracker's counters
  max_mem_used,
  mtx,              \* the thread holding the context's mutex
  pc,               \* pc[t]: the step thread t is at
  arg,              \* arg[t]: bytes asked for or to release
  live,             \* bytes the driver has given out and not taken back
  since,            \* since[t]: history, bytes reserved since t's reset() read
                    \* the total
  disturbed         \* history: what has been done to the tracker behind the
                    \* back of the allocations, "reset" or "name"

tracker == <<total_mem_used, max_mem_used>>
vars == <<backend, tracker, mtx, pc, arg, live, since, disturbed>>

TypeOK ==
  /\ backend \in {"opencl", "level0"}
  /\ total_mem_used \in Nat /\ max_mem_used \in Nat
  /\ mtx \in Threads \cup {NoThread}
  /\ pc \in [Threads -> {"idle", "reserve", "driver", "release"}]
  /\ arg \in [Threads -> Nat]
  /\ live \in Nat
  /\ since \in [Threads -> Nat]
  /\ disturbed \subseteq {"reset", "name"}

Init ==
  /\ backend \in {"opencl", "level0"}
  /\ total_mem_used = 0 /\ max_mem_used = 0
  /\ mtx = NoThread
  /\ pc = [t \in Threads |-> "idle"]
  /\ arg = [t \in Threads |-> 0]
  /\ live = 0
  /\ since = [t \in Threads |-> 0]
  /\ disturbed = {}

-----------------------------------------------------------------------------
Call(t, step, n) ==
  /\ pc[t] = "idle"
  /\ pc' = [pc EXCEPT ![t] = step]
  /\ arg' = [arg EXCEPT ![t] = n]

Step(t, from, to) == pc[t] = from /\ pc' = [pc EXCEPT ![t] = to]

(* size_t subtraction. *)
Minus(a, b) == IF a >= b THEN a - b ELSE a - b + Word

(* Slip: one byte too many is accepted. *)
FitsOffByOne(n) == n <= Minus(global_mem_size, total_mem_used) + 1

Fits(n) == n <= Minus(global_mem_size, total_mem_used)

(* hipMalloc, hipMallocManaged, hipHostMalloc, hipMallocPitch, arrays: all *)
(* end in CHIPContext::allocate.                                           *)
Allocate(t, n) ==
  /\ live <= MaxLive /\ \A s \in Threads : since[s] <= MaxLive
  /\ Call(t, "reserve", n)
  /\ UNCHANGED <<backend, tracker, mtx, live, since, disturbed>>

(* Slip: the total is counted only when it is a new maximum. *)
ReserveMemHighWater(t) ==
  LET n == arg[t]
      total == total_mem_used + n
  IN
  /\ mtx = NoThread
  /\ Fits(n)
  /\ Step(t, "reserve", "driver")
  /\ total_mem_used' = IF total > max_mem_used THEN total ELSE total_mem_used
  /\ max_mem_used' = IF total > max_mem_used THEN total ELSE max_mem_used
  /\ mtx' = t
  /\ since' = [s \in Threads |->
                 IF pc[s] = "release" THEN since[s] + n ELSE since[s]]
  /\ UNCHANGED <<backend, arg, live, disturbed>>

ReserveMem(t) ==
  LET n == arg[t]
      total == total_mem_used + n
  IN
  /\ mtx = NoThread
  /\ Fits(n)
  /\ Step(t, "reserve", "driver")
  /\ total_mem_used' = total
  /\ max_mem_used' = IF total > max_mem_used THEN total ELSE max_mem_used
  /\ mtx' = t
  /\ since' = [s \in Threads |->
                 IF pc[s] = "release" THEN since[s] + n ELSE since[s]]
  /\ UNCHANGED <<backend, arg, live, disturbed>>

(* reserveMem throws, and the lock_guard releases the context's mutex. *)
ReserveFails(t) ==
  /\ mtx = NoThread
  /\ ~Fits(arg[t])
  /\ Step(t, "reserve", "idle")
  /\ UNCHANGED <<backend, tracker, mtx, arg, live, since, disturbed>>

(* allocate_ returns a pointer. *)
DriverGrants(t) ==
  /\ Step(t, "driver", "idle")
  /\ mtx' = NoThread
  /\ live' = live + arg[t]
  /\ UNCHANGED <<backend, tracker, arg, since, disturbed>>

(* Slip: a release of all that is reserved is refused. *)
releaseStrict(n) ==
  /\ total_mem_used' = IF total_mem_used > n THEN total_mem_used - n
                                             ELSE total_mem_used
  /\ UNCHANGED max_mem_used

(* More is never given back than is reserved. *)
releaseMemReservation(n) ==
  /\ total_mem_used' = IF total_mem_used >= n THEN total_mem_used - n
                                              ELSE total_mem_used
  /\ UNCHANGED max_mem_used

(* Slip: the reservation is kept. *)
DriverRefusesForgets(t) ==
  /\ backend = "opencl"
  /\ Step(t, "driver", "idle")
  /\ mtx' = NoThread
  /\ UNCHANGED <<backend, tracker, arg, live, since, disturbed>>

(* allocate_ returns nullptr: the reservation is given back. *)
DriverRefuses(t) ==
  /\ backend = "opencl"
  /\ Step(t, "driver", "idle")
  /\ releaseMemReservation(arg[t])
  /\ mtx' = NoThread
  /\ UNCHANGED <<backend, arg, live, since, disturbed>>

(* allocate_ throws instead: nobody gives the reservation back. *)
DriverThrows(t) ==
  /\ backend = "level0"
  /\ Step(t, "driver", "idle")
  /\ mtx' = NoThread
  /\ UNCHANGED <<backend, tracker, arg, live, since, disturbed>>

-----------------------------------------------------------------------------
(* reset(): allocated_ptrs is always empty, so no memory is freed.  The    *)
(* total is read without a lock, then released under the tracker's mutex.  *)
Reset(t) ==
  /\ t \in Resetters
  /\ Call(t, "release", total_mem_used)
  /\ since' = [since EXCEPT ![t] = 0]
  /\ disturbed' = disturbed \cup {"reset"}
  /\ UNCHANGED <<backend, tracker, mtx, live>>

ResetRelease(t) ==
  /\ Step(t, "release", "idle")
  /\ releaseMemReservation(arg[t])
  /\ UNCHANGED <<backend, mtx, arg, live, since, disturbed>>

(* getName (hipDeviceGetName, and the logging of a kernel lookup) runs     *)
(* populateDeviceProperties, which installs a new tracker each time.       *)
GetName(t) ==
  /\ pc[t] = "idle"
  /\ total_mem_used' = 0 /\ max_mem_used' = 0
  /\ disturbed' = disturbed \cup {"name"}
  /\ UNCHANGED <<backend, mtx, pc, arg, live, since>>

-----------------------------------------------------------------------------
Next ==
  \E t \in Threads :
    \/ \E n \in Sizes : Allocate(t, n)
    \/ ReserveMem(t) \/ ReserveFails(t)
    \/ DriverGrants(t) \/ DriverRefuses(t) \/ DriverThrows(t)
    \/ Reset(t) \/ ResetRelease(t)
    \/ GetName(t)

Spec == Init /\ [][Next]_vars

-----------------------------------------------------------------------------
(* The tracker stays within the device, so the unsigned subtractions of    *)
(* reserveMem and hipMemGetInfo do not wrap, whatever the calls that       *)
(* replace, reset or race with the tracker.                                *)
TrackerBounds ==
  total_mem_used <= max_mem_used /\ max_mem_used <= global_mem_size

StateOK == TypeOK /\ TrackerBounds

(* The allocation inside allocate(): the mutex admits one. *)
InFlight == IF mtx = NoThread THEN 0 ELSE arg[mtx]

(* The tracker keeps "track of how much memory is available on the device" *)
(* (CHIPBackend.hh, reserveMem): the driver is never asked for more than   *)
(* the device has.                                                         *)
NeverOvercommitted == live + InFlight <= global_mem_size

(* The same, until someone resets the context or asks for the name of the  *)
(* device, which empties the tracker.                                      *)
NotOvercommitted == disturbed = {} => NeverOvercommitted

(* On OpenCL, where a refusal is a nullptr and not an exception, every     *)
(* reserved byte belongs to a block the program has or to the call that is *)
(* allocating one: a refusal costs nothing, names asked for or not.  Two   *)
(* refusals around a reset may keep bytes reserved.                        *)
NoLeak ==
  backend = "opencl" /\ "reset" \notin disturbed => total_mem_used <= live + InFlight

(* Every block the program has is reserved.                                *)
CoversLive == disturbed = {} => live + InFlight <= total_mem_used

(* A new tracker stays empty while an allocation is in the driver;         *)
(* otherwise its reservation is part of the total.                         *)
Reserved ==
  "reset" \notin disturbed =>
    total_mem_used = 0 \/ InFlight <= total_mem_used

(* The mutex is held exactly by the call that is in the driver. *)
Serialised == \A t \in Threads : pc[t] = "driver" <=> mtx = t

(* Only a thread that may reset the context is in reset(), and a reset is  *)
(* remembered.                                                             *)
ResettersOnly ==
  \A t \in Threads : pc[t] = "release" => t \in Resetters /\ "reset" \in disturbed

IInv == StateOK /\ Serialised /\ ResettersOnly /\ CoversLive /\ Reserved

(* reset() frees "all the memory reservations on each device"              *)
(* (CHIPBackend.cc): only what was reserved while it ran is left.  On      *)
(* OpenCL a refusal meanwhile lowers the total below what reset() read,    *)
(* and then nothing at all is released.                                    *)
ResetReleases ==
  [][backend = "level0" =>
       \A t \in Threads :
         pc[t] = "release" /\ pc'[t] = "idle" => total_mem_used' <= since[t]]_vars
=============================================================================
