------------------------------ MODULE Streams ------------------------------
(***************************************************************************)
(* Which streams the runtime knows: the chip_queues vectors of the devices *)
(* and of their context, and the active device and queue of the process.   *)
(*                                                                         *)
(* None of this is under a lock.  A push_back is modelled as reading the   *)
(* vector and storing the longer one, so that two of them may lose an      *)
(* element; setActiveDevice writes the active device and the active queue  *)
(* one after the other.                                                    *)
(***************************************************************************)
EXTENDS Integers, Sequences, FiniteSets, SequencesExt

CONSTANTS
  Threads,      \* host threads
  Devices,      \* the devices of the context
  Context,      \* the context
  Queues,       \* bound: CHIPQueue objects there may ever be
  Primary,      \* Primary[d]: the queue initialize_ makes for d
  Creators,     \* threads that create and destroy streams
  Setters,      \* threads that call hipSetDevice
  MayFail       \* whether the driver may refuse what a queue is made of

ASSUME StreamsAssumption ==
  /\ Primary \in [Devices -> Queues]
  /\ \A d, e \in Devices : Primary[d] = Primary[e] => d = e
  /\ IsFiniteSet(Queues)
  /\ Context \notin Devices
  /\ MayFail \in BOOLEAN
  /\ Creators \cup Setters \subseteq Threads

VARIABLES
  backend,      \* the backend CHIPInitialize made
  chip_queues,  \* chip_queues[x]: the vector of the device or context x
  active_dev,   \* Backend->active_dev
  active_q,     \* Backend->active_q
  call,         \* call[t]: the call t is in
  home,         \* home[q]: the device q was made for
  built,        \* queues whose constructor is through
  thrown,       \* history: queues whose constructor threw
  streams       \* history: queues the application has and did not destroy

vars == <<backend, chip_queues, active_dev, active_q, call, home, built, thrown, streams>>

Idle == [at |-> "idle"]
Primaries == { Primary[d] : d \in Devices }

(* What creating a stream does, in order.  The Level Zero constructor      *)
(* registers the queue before it makes the finish event; in both backends  *)
(* the constructor registers it with the device and so does addQueue.      *)
Construction ==
  IF backend = "Level0" THEN <<"context", "device", "build", "again">>
                        ELSE <<"build", "device", "again">>

Init ==
  /\ backend \in {"Level0", "OpenCL"}
  /\ chip_queues = [x \in Devices \cup {Context} |->
       IF x # Context THEN <<Primary[x]>>
       ELSE IF backend = "Level0" THEN SetToSeq(Primaries) ELSE <<>>]
  /\ active_dev \in Devices
  /\ active_q = Primary[active_dev]
  /\ call = [t \in Threads |-> Idle]
  /\ home = [q \in Primaries |-> CHOOSE d \in Devices : Primary[d] = q]
  /\ built = Primaries
  /\ thrown = {}
  /\ streams = Primaries

-----------------------------------------------------------------------------
Become(t, c) == call' = [call EXCEPT ![t] = c]
Listed(x) == ToSet(chip_queues[x])

(* hipStreamCreate: the device is read once. *)
StreamCreate(t, q) ==
  /\ t \in Creators /\ call[t] = Idle
  /\ q \in Queues \ DOMAIN home
  /\ Become(t, [at |-> "create", queue |-> q, dev |-> active_dev,
                todo |-> Construction])
  /\ home' = [x \in DOMAIN home \cup {q} |->
                IF x = q THEN active_dev ELSE home[x]]
  /\ UNCHANGED <<backend, chip_queues, active_dev, active_q, built, thrown, streams>>

Reading(c, x) == [at |-> "store", queue |-> c.queue, dev |-> c.dev, todo |-> c.todo,
                  vector |-> x, seen |-> chip_queues[x]]

(* Slip: the context is not told of the queue. *)
RegisterDeviceOnly(t) ==
  LET c == call[t] IN
  /\ c.at = "create" /\ Head(c.todo) \in {"context", "device", "again"}
  /\ Become(t, Reading(c, c.dev))
  /\ UNCHANGED <<backend, chip_queues, active_dev, active_q, home, built, thrown, streams>>

(* Slip: addQueue goes to what is the active device by then. *)
RegisterActive(t) ==
  LET c == call[t]
      x == IF Head(c.todo) = "context" THEN Context ELSE active_dev
  IN
  /\ c.at = "create" /\ Head(c.todo) \in {"context", "device", "again"}
  /\ Become(t, Reading(c, x))
  /\ UNCHANGED <<backend, chip_queues, active_dev, active_q, home, built, thrown, streams>>

(* A push_back, or addQueue(CHIPQueue * ), reads the vector ... *)
Register(t) ==
  LET c == call[t]
      x == IF Head(c.todo) = "context" THEN Context ELSE c.dev
  IN
  /\ c.at = "create" /\ Head(c.todo) \in {"context", "device", "again"}
  /\ Become(t, Reading(c, x))
  /\ UNCHANGED <<backend, chip_queues, active_dev, active_q, home, built, thrown, streams>>

CreateNext(c) ==
  IF Len(c.todo) = 1 THEN Idle
  ELSE [at |-> "create", queue |-> c.queue, dev |-> c.dev, todo |-> Tail(c.todo)]

(* ... and stores it with the queue at the end.  Only the constructor's    *)
(* addQueue looks whether the queue is there already.                      *)
StoreVector(t) ==
  LET c == call[t]
      present == Head(c.todo) = "device" /\ c.queue \in ToSet(c.seen)
  IN
  /\ c.at = "store"
  /\ chip_queues' = IF present THEN chip_queues
                    ELSE [chip_queues EXCEPT ![c.vector] =
                            Append(c.seen, c.queue)]
  /\ Become(t, CreateNext(c))
  /\ streams' = IF Len(c.todo) = 1 THEN streams \cup {c.queue} ELSE streams
  /\ UNCHANGED <<backend, active_dev, active_q, home, built, thrown>>

Build(t) ==
  /\ call[t].at = "create" /\ Head(call[t].todo) = "build"
  /\ built' = built \cup {call[t].queue}
  /\ Become(t, CreateNext(call[t]))
  /\ UNCHANGED <<backend, chip_queues, active_dev, active_q, home, thrown, streams>>

(* The constructor throws, before its first registration or when it makes  *)
(* the event: the object is gone, its registrations are not.               *)
BuildFails(t) ==
  /\ MayFail
  /\ call[t].at = "create"
  /\ call[t].todo = Construction \/ Head(call[t].todo) = "build"
  /\ Become(t, Idle)
  /\ thrown' = thrown \cup {call[t].queue}
  /\ UNCHANGED <<backend, chip_queues, active_dev, active_q, home, built, streams>>

-----------------------------------------------------------------------------
(* CHIPBackend::findQueue looks for a stream in the active device (nullptr *)
(* is the active queue, which the application does not destroy).           *)
findQueue(s) == {s} \cap Listed(active_dev)

StreamDestroy(t, s) ==
  /\ t \in Creators /\ call[t] = Idle
  /\ s \in streams \ Primaries
  /\ \E q \in findQueue(s) : Become(t, [at |-> "remove", queue |-> q])
  /\ UNCHANGED <<backend, chip_queues, active_dev, active_q, home, built, thrown, streams>>

(* Slip: everything from the queue on is erased. *)
RemoveOnward(t) ==
  LET q == call[t].queue IN
  /\ call[t].at = "remove"
  /\ IF q \in Listed(active_dev)
       THEN /\ chip_queues' = [chip_queues EXCEPT ![active_dev] =
                  SubSeq(@, 1, SelectInSeq(@, LAMBDA e : e = q) - 1)]
            /\ streams' = streams \ {q}
       ELSE UNCHANGED <<chip_queues, streams>>
  /\ Become(t, Idle)
  /\ UNCHANGED <<backend, active_dev, active_q, home, built, thrown>>

(* Slip: the queue is deleted. *)
RemoveQueueDeletes(t) ==
  LET q == call[t].queue IN
  /\ call[t].at = "remove"
  /\ IF q \in Listed(active_dev)
       THEN /\ chip_queues' = [chip_queues EXCEPT ![active_dev] = RemoveFirst(@, q)]
            /\ streams' = streams \ {q} /\ built' = built \ {q}
       ELSE UNCHANGED <<chip_queues, streams, built>>
  /\ Become(t, Idle)
  /\ UNCHANGED <<backend, active_dev, active_q, home, thrown>>

(* removeQueue, on what is the active device by now: the first occurrence  *)
(* is erased; a queue that is not there is an error.                       *)
RemoveQueue(t) ==
  LET q == call[t].queue IN
  /\ call[t].at = "remove"
  /\ IF q \in Listed(active_dev)
       THEN /\ chip_queues' = [chip_queues EXCEPT ![active_dev] = RemoveFirst(@, q)]
            /\ streams' = streams \ {q}
       ELSE UNCHANGED <<chip_queues, streams>>
  /\ Become(t, Idle)
  /\ UNCHANGED <<backend, active_dev, active_q, home, built, thrown>>

-----------------------------------------------------------------------------
(* hipSetDevice: setActiveDevice writes the device, then its first queue.  *)
SetDevice(t, d) ==
  /\ t \in Setters /\ call[t] = Idle
  /\ Become(t, [at |-> "set", dev |-> d])
  /\ active_dev' = d
  /\ UNCHANGED <<backend, chip_queues, active_q, home, built, thrown, streams>>

(* Slip: the active queue stays the old device's. *)
SetQueueForgotten(t) ==
  /\ call[t].at = "set"
  /\ Become(t, Idle)
  /\ UNCHANGED <<backend, chip_queues, active_dev, active_q, home, built, thrown, streams>>

SetQueue(t) ==
  /\ call[t].at = "set" /\ chip_queues[call[t].dev] # <<>>
  /\ active_q' = Head(chip_queues[call[t].dev])
  /\ Become(t, Idle)
  /\ UNCHANGED <<backend, chip_queues, active_dev, home, built, thrown, streams>>

-----------------------------------------------------------------------------
Step(t) ==
  \/ \E q \in Queues : StreamCreate(t, q)
  \/ \E s \in Queues : StreamDestroy(t, s)
  \/ \E d \in Devices : SetDevice(t, d)
  \/ Register(t) \/ StoreVector(t) \/ Build(t) \/ BuildFails(t)
  \/ RemoveQueue(t)
  \/ SetQueue(t)

Next == \E t \in Threads : Step(t)

Spec == Init /\ [][Next]_vars

-----------------------------------------------------------------------------
TypeOK ==
  /\ backend \in {"Level0", "OpenCL"}
  /\ DOMAIN chip_queues = Devices \cup {Context}
  /\ \A x \in DOMAIN chip_queues : Listed(x) \subseteq DOMAIN home
  /\ active_dev \in Devices /\ active_q \in Queues
  /\ DOMAIN home \subseteq Queues /\ ToSet(home) \subseteq Devices
  /\ streams \subseteq built /\ built \cup thrown \subseteq DOMAIN home

(* No device ever lists a stream of another one, although the device a     *)
(* stream is made for and the device it is removed from are read from a    *)
(* global that other threads change.                                       *)
DeviceListsOwn == \A d \in Devices : \A q \in Listed(d) : home[q] = d

StateOK == TypeOK /\ DeviceListsOwn

(* The stream hipStreamCreate returned "can also be found in chip_queues   *)
(* vector" of its device (CHIPBackend.hh, addQueue) until it is destroyed: *)
(* findQueue accepts it whenever its device is active.                     *)
StreamsAreFound == \A q \in streams : q \in Listed(home[q])

(* "Finish all the queues in this context" (CHIPBackend.hh, finishAll): on *)
(* Level Zero every stream of the application is in the vector             *)
(* hipDeviceSynchronize walks.  The OpenCL context lists no queue.         *)
ContextKnowsStreams ==
  backend = "Level0" => streams \subseteq Listed(Context)

(* "Active device's active queue is always it's 0th/default/primary queue" *)
(* (CHIPBackend.hh, getActiveQueue) whenever no thread is switching.       *)
ActiveIsPrimary ==
  (\A t \in Threads : call[t].at # "set") =>
    /\ chip_queues[active_dev] # <<>>
    /\ active_q = Head(chip_queues[active_dev])

(* "Remove a queue from this device's queue vector" (CHIPBackend.hh,       *)
(* removeQueue): a destroyed stream is not accepted any more.              *)
DestroyedIsGone ==
  \A q \in built \ streams :
    (\A t \in Threads : call[t].at \in {"create", "store"} => call[t].queue # q)
      => q \notin Listed(home[q])
=============================================================================
