---------------------------- MODULE DeviceProofs ----------------------------
(***************************************************************************)
(* What the device promises: the accounting of its memory (DeviceMemory),  *)
(* for any number of threads, any sizes and any device, and the choice of  *)
(* a device (DeviceSelect), for any number of devices and any finite set   *)
(* of compared properties.                                                 *)
(***************************************************************************)
EXTENDS DeviceMemory, DeviceSelect, FiniteSetTheorems, TLAPS

(* The unsigned subtraction is the real one when the tracker is in bounds, *)
(* so an accepted reservation fits.                                        *)
LEMMA FitsMeans ==
  ASSUME StateOK, NEW n \in Nat, Fits(n)
  PROVE  total_mem_used + n <= global_mem_size
BY MemoryAssumption DEF StateOK, TypeOK, TrackerBounds, Fits, Minus

(* releaseMemReservation never raises the total. *)
LEMMA ReleaseLowers ==
  ASSUME TypeOK, NEW n \in Nat, releaseMemReservation(n)
  PROVE  /\ total_mem_used' \in Nat /\ total_mem_used' <= total_mem_used
         /\ max_mem_used' = max_mem_used
BY DEF tracker, releaseMemReservation, TypeOK

LEMMA InitOK == Init => IInv /\ NoLeak
BY MemoryAssumption
   DEF Init, IInv, StateOK, TypeOK, TrackerBounds, Serialised, ResettersOnly,
       CoversLive, Reserved, NoLeak, InFlight

(* A step that leaves the tracker alone keeps its bounds, one that makes a *)
(* reservation keeps them because the reservation fits, and a release or a *)
(* new tracker only lowers the total.                                      *)
LEMMA StepOK ==
  ASSUME StateOK, [Next]_vars PROVE StateOK'
<1>. USE MemoryAssumption
<1>0. CASE UNCHANGED vars
  BY <1>0 DEF vars, tracker, StateOK, TypeOK, TrackerBounds
<1>1. ASSUME NEW t \in Threads, NEW n \in Sizes, Allocate(t, n) PROVE StateOK'
  BY <1>1 DEF Allocate, Call, tracker, StateOK, TypeOK, TrackerBounds
<1>2. ASSUME NEW t \in Threads, ReserveMem(t) PROVE StateOK'
  <2>1. arg[t] \in Nat /\ Fits(arg[t]) BY <1>2 DEF ReserveMem, StateOK, TypeOK
  <2>2. total_mem_used + arg[t] <= global_mem_size BY <2>1, FitsMeans
  <2>3. TrackerBounds'
    BY <1>2, <2>1, <2>2 DEF ReserveMem, StateOK, TypeOK, TrackerBounds
  <2>4. TypeOK'
    BY <1>2, <2>1 DEF ReserveMem, Step, StateOK, TypeOK
  <2>. QED BY <2>3, <2>4 DEF StateOK
<1>3. ASSUME NEW t \in Threads,
             ReserveFails(t) \/ DriverThrows(t)
      PROVE  StateOK'
  <2>1. CASE ReserveFails(t)
    BY <2>1 DEF ReserveFails, Step, tracker, StateOK, TypeOK, TrackerBounds
  <2>2. CASE DriverThrows(t)
    BY <2>2 DEF DriverThrows, Step, tracker, StateOK, TypeOK, TrackerBounds
  <2>. QED BY <1>3, <2>1, <2>2
<1>4. ASSUME NEW t \in Threads, DriverGrants(t) PROVE StateOK'
  <2>1. arg[t] \in Nat BY DEF StateOK, TypeOK
  <2>2. TrackerBounds' BY <1>4 DEF DriverGrants, tracker, StateOK, TrackerBounds
  <2>3. live' \in Nat
    BY <1>4, <2>1 DEF DriverGrants, StateOK, TypeOK
  <2>4. /\ total_mem_used' \in Nat /\ max_mem_used' \in Nat
        /\ arg' \in [Threads -> Nat] /\ since' \in [Threads -> Nat]
        /\ backend' = backend /\ disturbed' = disturbed
    BY <1>4 DEF DriverGrants, tracker, StateOK, TypeOK
  <2>. QED BY <1>4, <2>2, <2>3, <2>4 DEF DriverGrants, Step, StateOK, TypeOK
<1>5. ASSUME NEW t \in Threads, DriverRefuses(t) \/ ResetRelease(t) PROVE StateOK'
  <2>1. arg[t] \in Nat /\ releaseMemReservation(arg[t])
    BY <1>5 DEF DriverRefuses, ResetRelease, StateOK, TypeOK
  <2>2. /\ total_mem_used' \in Nat /\ total_mem_used' <= total_mem_used
        /\ max_mem_used' = max_mem_used
    BY <2>1, ReleaseLowers DEF StateOK
  <2>3. TrackerBounds' BY <2>2 DEF StateOK, TypeOK, TrackerBounds
  <2>4. TypeOK'
    BY <1>5, <2>2 DEF DriverRefuses, ResetRelease, Step, StateOK, TypeOK
  <2>. QED BY <2>3, <2>4 DEF StateOK
<1>6. ASSUME NEW t \in Threads, Reset(t) \/ GetName(t) PROVE StateOK'
  <2>1. CASE Reset(t)
    BY <2>1 DEF Reset, Call, tracker, StateOK, TypeOK, TrackerBounds
  <2>2. CASE GetName(t)
    BY <2>2 DEF GetName, StateOK, TypeOK, TrackerBounds
  <2>. QED BY <1>6, <2>1, <2>2
<1>. QED
  BY <1>0, <1>1, <1>2, <1>3, <1>4, <1>5, <1>6 DEF Next

(* The tracker stays within the device and its arithmetic does not wrap,   *)
(* whatever the application calls and whatever the driver answers.         *)
THEOREM TrackerSound == Spec => []StateOK
<1>1. Init => StateOK BY InitOK DEF IInv
<1>2. StateOK /\ [Next]_vars => StateOK' BY StepOK
<1>. QED BY <1>1, <1>2, PTL DEF Spec

-----------------------------------------------------------------------------
(* Accounting.                                                             *)
AccountOK == Serialised /\ ResettersOnly /\ CoversLive /\ Reserved

LEMMA InFlightIs ==
  ASSUME StateOK, Serialised, NEW t \in Threads, pc[t] = "driver"
  PROVE  InFlight = arg[t] /\ arg[t] \in Nat
BY MemoryAssumption DEF StateOK, TypeOK, Serialised, InFlight

LEMMA InFlightNat ==
  ASSUME StateOK PROVE InFlight \in Nat
BY MemoryAssumption DEF StateOK, TypeOK, InFlight

LEMMA NoneInFlight ==
  ASSUME mtx = NoThread PROVE InFlight = 0
BY DEF InFlight

(* Calls that only move a thread between steps outside the driver. *)
LEMMA QuietStep ==
  ASSUME StateOK, AccountOK,
         NEW t \in Threads, pc[t] # "driver", NEW s, s \notin {"driver", "release"},
         pc' = [pc EXCEPT ![t] = s],
         UNCHANGED <<backend, tracker, mtx, live, disturbed>>,
         \A u \in Threads : u # t => arg'[u] = arg[u]
  PROVE  AccountOK' /\ (NoLeak => NoLeak')
<1>1. Serialised' BY DEF StateOK, TypeOK, AccountOK, Serialised
<1>2. InFlight' = InFlight
  BY DEF StateOK, TypeOK, AccountOK, Serialised, InFlight
<1>3. ResettersOnly' BY DEF StateOK, TypeOK, AccountOK, ResettersOnly
<1>. QED BY <1>1, <1>2, <1>3 DEF AccountOK, CoversLive, Reserved, NoLeak, tracker

LEMMA AccountStep ==
  ASSUME StateOK, AccountOK, [Next]_vars
  PROVE  AccountOK' /\ (NoLeak => NoLeak')
<1>. USE MemoryAssumption
<1>0. CASE UNCHANGED vars
  BY <1>0 DEF vars, tracker, AccountOK, Serialised, ResettersOnly, CoversLive,
              Reserved, NoLeak, InFlight
<1>1. ASSUME NEW t \in Threads, NEW n \in Sizes, Allocate(t, n)
      PROVE  AccountOK' /\ (NoLeak => NoLeak')
  <2>1. /\ pc[t] # "driver" /\ pc' = [pc EXCEPT ![t] = "reserve"]
        /\ UNCHANGED <<backend, tracker, mtx, live, disturbed>>
        /\ \A u \in Threads : u # t => arg'[u] = arg[u]
    BY <1>1 DEF Allocate, Call, StateOK, TypeOK
  <2>. QED BY <2>1, QuietStep
<1>2. ASSUME NEW t \in Threads, ReserveFails(t)
      PROVE  AccountOK' /\ (NoLeak => NoLeak')
  <2>1. /\ pc[t] # "driver" /\ pc' = [pc EXCEPT ![t] = "idle"]
        /\ UNCHANGED <<backend, tracker, mtx, live, arg, disturbed>>
    BY <1>2 DEF ReserveFails, Step
  <2>2. \A u \in Threads : u # t => arg'[u] = arg[u] BY <2>1
  <2>. QED BY <2>1, <2>2, QuietStep
<1>3. ASSUME NEW t \in Threads, ReserveMem(t) PROVE AccountOK' /\ (NoLeak => NoLeak')
  <2>1. Serialised'
    BY <1>3 DEF ReserveMem, Step, StateOK, TypeOK, AccountOK, Serialised
  <2>2. InFlight = 0 /\ InFlight' = arg[t] /\ arg[t] \in Nat
    BY <1>3, NoneInFlight DEF ReserveMem, InFlight, StateOK, TypeOK
  <2>3. /\ total_mem_used' = total_mem_used + arg[t] /\ live' = live
        /\ backend' = backend /\ disturbed' = disturbed
        /\ total_mem_used \in Nat /\ live \in Nat
    BY <1>3 DEF ReserveMem, StateOK, TypeOK
  <2>4. ResettersOnly'
    BY <1>3 DEF ReserveMem, Step, StateOK, TypeOK, AccountOK, ResettersOnly
  <2>5. CoversLive' BY <2>2, <2>3 DEF AccountOK, CoversLive
  <2>6. Reserved' BY <2>2, <2>3 DEF Reserved
  <2>7. NoLeak => NoLeak' BY <2>2, <2>3 DEF NoLeak
  <2>. QED BY <2>1, <2>4, <2>5, <2>6, <2>7 DEF AccountOK
<1>4. ASSUME NEW t \in Threads, DriverGrants(t) \/ DriverRefuses(t) \/ DriverThrows(t)
      PROVE  AccountOK' /\ (NoLeak => NoLeak')
  <2>1. /\ pc[t] = "driver" /\ mtx' = NoThread
        /\ pc' = [pc EXCEPT ![t] = "idle"]
        /\ backend' = backend /\ disturbed' = disturbed
    BY <1>4 DEF DriverGrants, DriverRefuses, DriverThrows, Step
  <2>2. InFlight = arg[t] /\ arg[t] \in Nat BY <2>1, InFlightIs DEF AccountOK
  <2>3. InFlight' = 0 BY <2>1 DEF InFlight
  <2>4. Serialised' BY <2>1 DEF StateOK, TypeOK, AccountOK, Serialised
  <2>5. ResettersOnly' BY <2>1 DEF StateOK, TypeOK, AccountOK, ResettersOnly
  <2>6. live \in Nat /\ total_mem_used \in Nat BY DEF StateOK, TypeOK
  <2>7. \/ live' = live + arg[t] /\ total_mem_used' = total_mem_used
        \/ /\ live' = live
           /\ total_mem_used' = IF total_mem_used >= arg[t]
                                  THEN total_mem_used - arg[t]
                                  ELSE total_mem_used
        \/ /\ live' = live /\ total_mem_used' = total_mem_used
           /\ backend = "level0"
    BY <1>4 DEF DriverGrants, DriverRefuses, DriverThrows, releaseMemReservation,
                tracker
  <2>8. CoversLive' BY <2>1, <2>2, <2>3, <2>6, <2>7 DEF AccountOK, CoversLive
  <2>9. Reserved' BY <2>2, <2>3, <2>6, <2>7 DEF Reserved
  <2>10. NoLeak => NoLeak'
    BY <2>1, <2>2, <2>3, <2>6, <2>7 DEF AccountOK, Reserved, NoLeak
  <2>. QED BY <2>4, <2>5, <2>8, <2>9, <2>10 DEF AccountOK
<1>5. ASSUME NEW t \in Threads, Reset(t) \/ ResetRelease(t)
      PROVE  AccountOK' /\ (NoLeak => NoLeak')
  <2>1. /\ "reset" \in disturbed' /\ mtx' = mtx
        /\ pc[t] # "driver"
        /\ \/ pc' = [pc EXCEPT ![t] = "release"] /\ t \in Resetters
           \/ pc' = [pc EXCEPT ![t] = "idle"]
    BY <1>5 DEF Reset, ResetRelease, Call, Step, AccountOK, ResettersOnly
  <2>2. Serialised' BY <2>1 DEF StateOK, TypeOK, AccountOK, Serialised
  <2>3. \A u \in Threads : pc'[u] = "release" => u \in Resetters
    BY <2>1 DEF StateOK, TypeOK, AccountOK, ResettersOnly
  <2>. QED BY <2>1, <2>2, <2>3 DEF AccountOK, ResettersOnly, CoversLive, Reserved, NoLeak
<1>6. ASSUME NEW t \in Threads, GetName(t) PROVE AccountOK' /\ (NoLeak => NoLeak')
  <2>1. /\ UNCHANGED <<backend, mtx, pc, arg, live>> /\ total_mem_used' = 0
        /\ disturbed' = disturbed \cup {"name"}
    BY <1>6 DEF GetName
  <2>2. InFlight' = InFlight BY <2>1 DEF InFlight
  <2>3. InFlight \in Nat /\ live \in Nat BY InFlightNat DEF StateOK, TypeOK
  <2>. QED
    BY <2>1, <2>2, <2>3
       DEF AccountOK, Serialised, ResettersOnly, CoversLive, Reserved, NoLeak
<1>. QED
  BY <1>0, <1>1, <1>2, <1>3, <1>4, <1>5, <1>6 DEF Next

(* The inductive invariant: the state is sound, and until someone resets   *)
(* or asks for a name every block in the hands of the program, or on its   *)
(* way there, is reserved.                                                 *)
THEOREM Accounting == Spec => []IInv
<1>1. Init => IInv BY InitOK
<1>2. IInv /\ [Next]_vars => IInv'
  BY StepOK, AccountStep DEF IInv, AccountOK
<1>. QED BY <1>1, <1>2, PTL DEF Spec

(* The program is never given more memory than the device has, until       *)
(* someone resets the context or asks for the name of the device.          *)
THEOREM DeviceNotOvercommitted == Spec => []NotOvercommitted
<1>1. IInv => NotOvercommitted
  <2>. SUFFICES ASSUME IInv PROVE NotOvercommitted
    OBVIOUS
  <2>1. InFlight \in Nat BY InFlightNat DEF IInv
  <2>. QED
    BY <2>1, MemoryAssumption
       DEF IInv, StateOK, TypeOK, TrackerBounds, CoversLive, NotOvercommitted,
           NeverOvercommitted
<1>. QED BY <1>1, Accounting, PTL

(* On OpenCL, whose allocate_ answers nullptr, a refused allocation costs  *)
(* nothing, until someone resets the context.                              *)
THEOREM RefusalsAreFree == Spec => []NoLeak
<1>1. Init => IInv /\ NoLeak BY InitOK
<1>2. IInv /\ NoLeak /\ [Next]_vars => IInv' /\ NoLeak'
  BY StepOK, AccountStep DEF IInv, AccountOK
<1>. QED BY <1>1, <1>2, PTL DEF Spec

-----------------------------------------------------------------------------
(* Resets: with one thread that resets, what is counted while it does is   *)
(* what it read and what was reserved since, or only the latter, if a new  *)
(* tracker was installed meanwhile.                                        *)
OneResetter == \A s, t \in Resetters : s = t

ReadOrReserved ==
  backend = "level0" =>
    \A t \in Threads :
      pc[t] = "release" =>
        total_mem_used = arg[t] + since[t] \/ total_mem_used <= since[t]

LEMMA ReadOrReservedStep ==
  ASSUME IInv, ReadOrReserved, [Next]_vars, OneResetter
  PROVE  ReadOrReserved'
<1>. SUFFICES ASSUME backend' = "level0", NEW u \in Threads, pc'[u] = "release"
              PROVE  \/ total_mem_used' = arg'[u] + since'[u]
                     \/ total_mem_used' <= since'[u]
  BY DEF ReadOrReserved
<1>. USE DEF IInv, StateOK, TypeOK
<1>a. backend = "level0"
  BY DEF Next, vars, Allocate, ReserveMem, ReserveFails, DriverGrants,
         DriverRefuses, DriverThrows, Reset, ResetRelease, GetName
<1>b. /\ total_mem_used \in Nat /\ arg[u] \in Nat /\ since[u] \in Nat
  OBVIOUS
<1>c. pc[u] = "release" =>
        total_mem_used = arg[u] + since[u] \/ total_mem_used <= since[u]
  BY <1>a DEF ReadOrReserved
<1>0. CASE UNCHANGED vars
  BY <1>0, <1>c DEF vars, tracker
<1>1. ASSUME NEW t \in Threads, NEW n \in Sizes, Allocate(t, n)
      PROVE  UNCHANGED <<tracker, since>> /\ t # u /\ pc[u] = "release" /\ arg'[u] = arg[u]
  BY <1>1 DEF Allocate, Call
<1>2. ASSUME NEW t \in Threads,
             ReserveFails(t) \/ DriverGrants(t) \/ DriverThrows(t)
      PROVE  UNCHANGED <<tracker, since>> /\ t # u /\ pc[u] = "release" /\ arg'[u] = arg[u]
  BY <1>2 DEF ReserveFails, DriverGrants, DriverThrows, Step
<1>3. ASSUME NEW t \in Threads, ReserveMem(t)
      PROVE  /\ pc[u] = "release" /\ arg[t] \in Nat
             /\ total_mem_used' = total_mem_used + arg[t]
             /\ since'[u] = since[u] + arg[t] /\ arg'[u] = arg[u]
  <2>1. pc[u] = "release" BY <1>3 DEF ReserveMem, Step
  <2>. QED BY <2>1, <1>3 DEF ReserveMem
<1>4. ASSUME NEW t \in Threads, DriverRefuses(t) PROVE FALSE
  BY <1>4, <1>a DEF DriverRefuses
<1>5. ASSUME NEW t \in Threads, Reset(t)
      PROVE  total_mem_used' = arg'[u] + since'[u]
  <2>1. t = u
    BY <1>5 DEF Reset, Call, ResettersOnly, OneResetter
  <2>. QED BY <2>1, <1>5, <1>b DEF Reset, Call, tracker
<1>6. ASSUME NEW t \in Threads, ResetRelease(t) PROVE FALSE
  <2>1. t = u
    BY <1>6 DEF ResetRelease, Step, ResettersOnly, OneResetter
  <2>. QED BY <2>1, <1>6 DEF ResetRelease, Step
<1>7. ASSUME NEW t \in Threads, GetName(t)
      PROVE  total_mem_used' = 0 /\ since'[u] = since[u]
  BY <1>7 DEF GetName
<1>. QED
  BY <1>0, <1>1, <1>2, <1>3, <1>4, <1>5, <1>6, <1>7, <1>b, <1>c DEF Next, tracker

(* A reset frees all the reservations there were when it began, if one     *)
(* thread at a time resets the context.                                    *)
THEOREM ResetFrees ==
  ASSUME OneResetter PROVE Spec => ResetReleases
<1>1. Init => ReadOrReserved BY DEF Init, ReadOrReserved
<1>2. IInv /\ ReadOrReserved /\ [Next]_vars => ReadOrReserved'
  BY ReadOrReservedStep
<1>3. IInv /\ ReadOrReserved /\ [Next]_vars =>
        [backend = "level0" =>
           \A t \in Threads :
             pc[t] = "release" /\ pc'[t] = "idle" => total_mem_used' <= since[t]]_vars
  <2>. SUFFICES ASSUME IInv, ReadOrReserved, Next, backend = "level0",
                       NEW t \in Threads, pc[t] = "release", pc'[t] = "idle"
                PROVE  total_mem_used' <= since[t]
    OBVIOUS
  <2>. USE DEF IInv, StateOK, TypeOK
  <2>1. ResetRelease(t)
    BY DEF Next, Allocate, Call, ReserveMem, ReserveFails, DriverGrants,
           DriverRefuses, DriverThrows, Reset, ResetRelease, GetName, Step
  <2>2. total_mem_used = arg[t] + since[t] \/ total_mem_used <= since[t]
    BY DEF ReadOrReserved
  <2>3. /\ total_mem_used \in Nat /\ arg[t] \in Nat /\ since[t] \in Nat
    OBVIOUS
  <2>. QED BY <2>1, <2>2, <2>3 DEF ResetRelease, releaseMemReservation
<1>. QED BY <1>1, <1>2, <1>3, Accounting, PTL DEF Spec, ResetReleases

-----------------------------------------------------------------------------
(* The counts of the loop are numbers, and a device whose count equals the *)
(* count of the asked properties is one that has them all.                 *)
LEMMA Counts ==
  ASSUME SelectTypeOK, NEW d \in DOMAIN chip_devices
  PROVE  /\ validPropCount \in Nat /\ matchedCount(d) \in Nat
         /\ matchedCount(d) <= validPropCount
         /\ validPropCount = matchedCount(d) <=> Meets(d)
         /\ validPropCount = 0 <=> Asked = {}
  <1> DEFINE A == Asked
             M == Matched(d)
  <1>1. IsFiniteSet(A)
    BY SelectAssumption, FS_Subset DEF Asked
  <1>2. M \in SUBSET A
    BY DEF Matched
  <1>3. /\ IsFiniteSet(M) /\ Cardinality(M) <= Cardinality(A)
        /\ Cardinality(A) = Cardinality(M) => M = A
    BY <1>1, <1>2, FS_Subset
  <1>4. Cardinality(A) \in Nat /\ Cardinality(M) \in Nat
    BY <1>1, <1>3, FS_CardinalityType
  <1>5. M = A <=> Meets(d)
    <2>1. chip_devices[d] \in Property /\ properties \in Property
      BY DEF SelectTypeOK
    <2>2. \A p \in Props : chip_devices[d][p] \in Nat /\ properties[p] \in Nat
      BY <2>1, SelectAssumption DEF Property
    <2>3. ASSUME NEW p \in Props, p \notin A
          PROVE  chip_devices[d][p] >= properties[p]
      BY <2>2, <2>3 DEF Asked
    <2> QED
      BY <1>2, <2>3 DEF Matched, Meets, Asked
  <1>6. Cardinality(A) = 0 <=> A = {}
    BY <1>1, FS_EmptySet
  <1> QED
    BY <1>3, <1>4, <1>5, <1>6 DEF validPropCount, matchedCount

(* Every state of the loop satisfies the loop invariant: each device seen  *)
(* is kept or passed over as findDeviceMatchingProps decides.              *)
THEOREM LoopInvariant == SelectSpec => []LoopInv
  <1>1. SelectInit => LoopInv
    BY SelectAssumption
    DEF SelectInit, LoopInv, SelectTypeOK, KeptMeets, KeptCount, FirstSoFar
  <1>2. LoopInv /\ [Examine]_selectVars => LoopInv'
    <2> SUFFICES ASSUME LoopInv, [Examine]_selectVars PROVE LoopInv'
      OBVIOUS
    <2>1. CASE UNCHANGED selectVars
      BY <2>1 DEF selectVars, LoopInv, SelectTypeOK, KeptMeets, KeptCount, FirstSoFar, Asked,
                  Meets, validPropCount
    <2>2. CASE Examine
      <3>1. /\ i \in DOMAIN chip_devices /\ i \in Nat /\ i' = i + 1
            /\ DOMAIN chip_devices = 1 .. Len(chip_devices)
            /\ Len(chip_devices) \in Nat
            /\ UNCHANGED <<chip_devices, properties>>
        BY <2>2 DEF Examine, LoopInv, SelectTypeOK
      <3>2. /\ validPropCount \in Nat /\ matchedCount(i) \in Nat
            /\ validPropCount = matchedCount(i) <=> Meets(i)
            /\ validPropCount = 0 <=> Asked = {}
        BY <3>1, Counts DEF LoopInv
      <3>3. /\ Asked' = Asked /\ validPropCount' = validPropCount
            /\ \A d : Meets(d)' <=> Meets(d)
        BY <3>1 DEF Asked, validPropCount, Meets
      <3>4. CASE Meets(i) /\ matchedCount(i) > maxMatchedCount
        <4>1. matched_device' = i /\ maxMatchedCount' = matchedCount(i)
          BY <2>2, <3>2, <3>4 DEF Examine
        <4>2. matched_device = Garbage
          BY <3>2, <3>4 DEF LoopInv, SelectTypeOK, KeptCount
        <4>3. SelectTypeOK' /\ KeptMeets' /\ KeptCount'
          BY <3>1, <3>2, <3>3, <3>4, <4>1, SelectAssumption
          DEF LoopInv, SelectTypeOK, KeptMeets, KeptCount
        <4>4. FirstSoFar'
          BY <3>1, <3>3, <4>1, <4>2, SelectAssumption
          DEF LoopInv, FirstSoFar
        <4> QED
          BY <4>3, <4>4 DEF LoopInv
      <3>5. CASE ~(Meets(i) /\ matchedCount(i) > maxMatchedCount)
        <4>1. UNCHANGED <<matched_device, maxMatchedCount>>
          BY <2>2, <3>2, <3>5 DEF Examine
        <4>2. SelectTypeOK' /\ KeptMeets' /\ KeptCount'
          BY <3>1, <3>3, <4>1, SelectAssumption
          DEF LoopInv, SelectTypeOK, KeptMeets, KeptCount
        <4>3. ASSUME Meets(i), Asked # {}
              PROVE  matched_device # Garbage /\ matched_device <= i
          BY <3>1, <3>2, <3>5, <4>3, SelectAssumption
          DEF LoopInv, SelectTypeOK, KeptMeets, KeptCount
        <4>4. FirstSoFar'
          BY <3>1, <3>3, <4>1, <4>3 DEF LoopInv, FirstSoFar
        <4> QED
          BY <4>2, <4>4 DEF LoopInv
      <3> QED
        BY <3>4, <3>5
    <2> QED
      BY <2>1, <2>2
  <1> QED
    BY <1>1, <1>2, PTL DEF SelectSpec

(* When something is asked for, the device returned is the first one that  *)
(* has it.                                                                 *)
THEOREM FirstMatchReturned == SelectSpec => []FirstMatch
  <1>1. LoopInv => FirstMatch
    BY DEF LoopInv, SelectTypeOK, FirstMatch, FirstSoFar, Returned
  <1> QED
    BY <1>1, LoopInvariant, PTL
=============================================================================
