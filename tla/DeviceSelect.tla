---------------------------- MODULE DeviceSelect ----------------------------
(***************************************************************************)
(* hipChooseDevice: CHIPBackend::findDeviceMatchingProps goes over the     *)
(* devices and keeps the best match so far.                                *)
(*                                                                         *)
(* The fourteen numeric properties the code compares, one by one and in    *)
(* the same way, are a set Props; a requirement of 0 asks for nothing.     *)
(* The result variable of the function is not initialised.                 *)
(***************************************************************************)
EXTENDS Integers, FiniteSets, Sequences

CONSTANTS
  Props,        \* the properties that are compared
  Values,       \* the values they take
  MaxDevices,   \* bound: devices
  Garbage       \* an uninitialised pointer

ASSUME SelectAssumption ==
  /\ IsFiniteSet(Props)
  /\ Values \subseteq Nat
  /\ MaxDevices \in Nat
  /\ Garbage \notin Nat

VARIABLES
  chip_devices,     \* the properties of each device
  properties,       \* what the application asks for
  i,                \* the device the loop is at
  matched_device,   \* index of the device kept
  maxMatchedCount

selectVars == <<chip_devices, properties, i, matched_device, maxMatchedCount>>

Property == [Props -> Values]

SelectInit ==
  /\ \E n \in 0 .. MaxDevices : chip_devices \in [1 .. n -> Property]
  /\ properties \in Property
  /\ i = 1
  /\ matched_device = Garbage
  /\ maxMatchedCount = 0

Asked == { p \in Props : properties[p] # 0 }
Matched(d) == { p \in Asked : chip_devices[d][p] >= properties[p] }

validPropCount == Cardinality(Asked)
matchedCount(d) == Cardinality(Matched(d))

(* Slip: every device with a new maximum is kept, a full match or not. *)
ExaminePartial ==
  /\ i \in DOMAIN chip_devices
  /\ IF matchedCount(i) > maxMatchedCount
       THEN matched_device' = i /\ maxMatchedCount' = matchedCount(i)
       ELSE UNCHANGED <<matched_device, maxMatchedCount>>
  /\ i' = i + 1
  /\ UNCHANGED <<chip_devices, properties>>

(* Slip: a later device with as good a match replaces the one kept. *)
ExamineLast ==
  /\ i \in DOMAIN chip_devices
  /\ IF /\ validPropCount = matchedCount(i)
        /\ matchedCount(i) >= maxMatchedCount /\ matchedCount(i) > 0
       THEN matched_device' = i /\ maxMatchedCount' = matchedCount(i)
       ELSE UNCHANGED <<matched_device, maxMatchedCount>>
  /\ i' = i + 1
  /\ UNCHANGED <<chip_devices, properties>>

(* One turn of the loop: a device that has everything is kept if it has    *)
(* more than the one kept before.                                          *)
Examine ==
  /\ i \in DOMAIN chip_devices
  /\ IF /\ validPropCount = matchedCount(i)
        /\ matchedCount(i) > maxMatchedCount
       THEN matched_device' = i /\ maxMatchedCount' = matchedCount(i)
       ELSE UNCHANGED <<matched_device, maxMatchedCount>>
  /\ i' = i + 1
  /\ UNCHANGED <<chip_devices, properties>>

SelectSpec == SelectInit /\ [][Examine]_selectVars

-----------------------------------------------------------------------------
Meets(d) == \A p \in Props : chip_devices[d][p] >= properties[p]

Returned == i \notin DOMAIN chip_devices

SelectTypeOK ==
  /\ chip_devices \in Seq(Property)
  /\ properties \in Property
  /\ i \in 1 .. Len(chip_devices) + 1
  /\ matched_device \in DOMAIN chip_devices \cup {Garbage}
  /\ maxMatchedCount \in Nat

(* Only a device that meets every requirement is ever kept, and the count  *)
(* says whether there is one: findDeviceMatchingProps compares the counts  *)
(* of all asked properties, not the properties.                            *)
KeptMeets ==
  /\ matched_device = Garbage <=> maxMatchedCount = 0
  /\ matched_device # Garbage => Meets(matched_device)

(* If something is asked for, the first device that has all of it is       *)
(* chosen, although the code keeps looking for a better count.             *)
FirstMatch ==
  Returned /\ Asked # {} =>
    \A d \in DOMAIN chip_devices :
      Meets(d) => matched_device # Garbage /\ matched_device <= d

(* The loop invariant: the device kept was met before i and has all that   *)
(* is asked for, so that no later count is greater; none of the devices    *)
(* gone by that meets the requirement lies before it.                      *)
KeptCount ==
  matched_device # Garbage =>
    matched_device < i /\ maxMatchedCount = validPropCount
FirstSoFar ==
  Asked # {} =>
    \A d \in DOMAIN chip_devices :
      d < i /\ Meets(d) => matched_device # Garbage /\ matched_device <= d

LoopInv == SelectTypeOK /\ KeptMeets /\ KeptCount /\ FirstSoFar
=============================================================================
