---------------------------- MODULE Level0Event ----------------------------
(***************************************************************************)
(* CHIPEventLevel0: hipEvent_t on the Level Zero backend.                  *)
(*                                                                         *)
(* recordStream() holds the mutex of the EVENT while it appends four       *)
(* commands to the list of a QUEUE: a barrier, a write of the device clock *)
(* into the one shared buffer of the queue, a second barrier, and a copy   *)
(* of the buffer into the event's timestamp, which signals the event.      *)
(* wait() holds the same mutex while it blocks.  hipEventQuery reads       *)
(* event_status without the mutex.                                         *)
(*                                                                         *)
(* A timestamp is abstracted to the number of the recording whose write    *)
(* produced it.  The device rules are those of Level0Queue.                *)
(***************************************************************************)
EXTENDS Integers

CONSTANTS
  Threads,      \* host threads
  Queues,       \* queues (streams)
  Events,       \* hipEvent_t objects
  Uses,         \* Uses[t]: the queues thread t submits to
  ReRecord,     \* whether the application records an event again, or
                \* destroys it, before it has seen the recording finish
  MayFail,      \* whether an append may be refused by the driver
  NoThread,     \* the owner of a free mutex
  MaxRecords,   \* bound: calls of recordStream
  MaxTail       \* bound: a list takes new calls while its tail is below

ASSUME EventAssumption ==
  /\ Uses \in [Threads -> SUBSET Queues]
  /\ ReRecord \in BOOLEAN /\ MayFail \in BOOLEAN
  /\ NoThread \notin Threads
  /\ MaxRecords \in Nat /\ MaxTail \in Nat

VARIABLES
  pending,      \* commands in the lists
  tail,         \* tail[q]: position of the next command of q
  shared_buf,   \* shared_buf[q]: recording whose write is in q's buffer
  event_status, \* event_status[e]
  signaled,     \* signaled[e]: the ze_event is signalled
  timestamp,    \* timestamp[e]: recording the copied timestamp is from
  mtx,          \* mtx[e]: the thread holding e's mutex
  call,         \* call[t]: the call t is in, with its arguments and locals
  recs,         \* number of recordings started
  latest,       \* latest[e]: history, number of e's last completed record call
  before        \* before[e]: history, pending work in front of that recording

deviceVars == <<pending, tail, shared_buf>>
eventVars == <<event_status, signaled, timestamp, mtx>>
historyVars == <<recs, latest, before>>
vars == <<deviceVars, eventVars, call, historyVars>>

Record == 0 .. MaxRecords   \* 0: none yet

(* An orphan is a copy whose event was destroyed and whose memory may be   *)
(* another event's.                                                        *)
Work == [queue : Queues, pos : Nat, kind : {"work"}]
Command == [queue : Queues, pos : Nat, kind : {"work", "barrier"}]
  \cup [queue : Queues, pos : Nat, kind : {"write", "copy", "orphan"},
        event : Events, rec : Record]

RecordStep == {"barrier1", "write", "barrier2", "copy", "publish"}

(* recordStream knows the event, the queue, which recording it is making   *)
(* (history) and the work in front of it (history); the other calls know   *)
(* their events.                                                           *)
Idle == [at |-> "idle"]
CallState == {Idle}
  \cup [at : RecordStep, event : Events, queue : Queues, rec : Record,
        work : SUBSET Work]
  \cup [at : {"wait", "poll"}, event : Events]
  \cup [at : {"update1", "update2"}, event : Events, other : Events]

TypeOK ==
  /\ pending \subseteq Command
  /\ tail \in [Queues -> Nat]
  /\ shared_buf \in [Queues -> Record]
  /\ event_status \in [Events -> {"INIT", "RECORDING", "RECORDED"}]
  /\ signaled \in [Events -> BOOLEAN]
  /\ timestamp \in [Events -> Record]
  /\ mtx \in [Events -> Threads \cup {NoThread}]
  /\ \A t \in Threads : call[t].at # "idle" => call[t].event \in Events
  /\ recs \in Record
  /\ latest \in [Events -> Record]
  /\ before \in [Events -> SUBSET Command]

Init ==
  /\ pending = {}
  /\ tail = [q \in Queues |-> 0]
  /\ shared_buf = [q \in Queues |-> 0]
  /\ event_status = [e \in Events |-> "INIT"]
  /\ signaled = [e \in Events |-> FALSE]
  /\ timestamp = [e \in Events |-> 0]
  /\ mtx = [e \in Events |-> NoThread]
  /\ call = [t \in Threads |-> Idle]
  /\ recs = 0
  /\ latest = [e \in Events |-> 0]
  /\ before = [e \in Events |-> {}]

-----------------------------------------------------------------------------
(* The device.                                                             *)

InQueue(q, cs) == { c \in cs : c.queue = q }

Ready(c) ==
  \A d \in InQueue(c.queue, pending) :
    d.pos < c.pos => c.kind # "barrier" /\ d.kind # "barrier"

(* A write puts the clock in the buffer of its queue; a copy takes what is *)
(* in the buffer at that moment to the event and signals it.  The ze_event *)
(* of an orphan is nobody's: the destructor leaks it.                      *)
Complete(c) ==
  /\ c \in pending /\ Ready(c)
  /\ pending' = pending \ {c}
  /\ tail' = [tail EXCEPT ![c.queue] =
                IF InQueue(c.queue, pending) = {c} THEN 0 ELSE @]
  /\ shared_buf' = IF c.kind = "write"
                     THEN [shared_buf EXCEPT ![c.queue] = c.rec]
                     ELSE shared_buf
  /\ timestamp' = IF c.kind \in {"copy", "orphan"}
                    THEN [timestamp EXCEPT ![c.event] = shared_buf[c.queue]]
                    ELSE timestamp
  /\ signaled' = IF c.kind = "copy"
                   THEN [signaled EXCEPT ![c.event] = TRUE] ELSE signaled
  /\ before' = [e \in Events |-> before[e] \ {c}]
  /\ call' = [t \in Threads |->
       IF call[t].at \in RecordStep
         THEN [call[t] EXCEPT !.work = @ \ {c}] ELSE call[t]]
  /\ UNCHANGED <<event_status, mtx, recs, latest>>

Enqueue(c) ==
  /\ pending' = pending \cup {c}
  /\ tail' = [tail EXCEPT ![c.queue] = @ + 1]

(* Any asynchronous operation of the application. *)
Submit(t, q) ==
  /\ call[t] = Idle /\ q \in Uses[t] /\ tail[q] < MaxTail
  /\ Enqueue([queue |-> q, pos |-> tail[q], kind |-> "work"])
  /\ UNCHANGED <<shared_buf, eventVars, call, historyVars>>

-----------------------------------------------------------------------------
(* recordStream: lock, reset, four appends, publish.                       *)

Begin(t, c) == call[t] = Idle /\ call' = [call EXCEPT ![t] = c]
Advance(t, from, to) ==
  call[t].at = from /\ call' = [call EXCEPT ![t].at = to]
Return(t, from) ==
  call[t].at = from /\ call' = [call EXCEPT ![t] = Idle]

Lock(t, e) == mtx[e] = NoThread /\ mtx' = [mtx EXCEPT ![e] = t]
Unlock(e) == mtx' = [mtx EXCEPT ![e] = NoThread]

(* The event is reset only if its earlier recording was seen to finish.    *)
RecordBegin(t, e, q) ==
  /\ Begin(t, [at |-> "barrier1", event |-> e, queue |-> q, rec |-> recs + 1,
               work |-> { c \in InQueue(q, pending) : c.kind = "work" }])
  /\ q \in Uses[t] /\ recs < MaxRecords /\ tail[q] < MaxTail
  /\ ReRecord \/ event_status[e] # "RECORDING"
  /\ Lock(t, e)
  /\ signaled' = [signaled EXCEPT ![e] = @ /\ event_status[e] # "RECORDED"]
  /\ recs' = recs + 1
  /\ UNCHANGED <<deviceVars, event_status, timestamp, latest, before>>

RecordBarrier(t, from, to) ==
  /\ Advance(t, from, to)
  /\ LET q == call[t].queue
     IN  Enqueue([queue |-> q, pos |-> tail[q], kind |-> "barrier"])
  /\ UNCHANGED <<shared_buf, eventVars, historyVars>>

(* The write of the clock, or the copy that signals the event. *)
RecordTimestamp(t, kind, to) ==
  /\ Advance(t, kind, to)
  /\ LET q == call[t].queue
     IN  Enqueue([queue |-> q, pos |-> tail[q], kind |-> kind,
                  event |-> call[t].event, rec |-> call[t].rec])
  /\ UNCHANGED <<shared_buf, eventVars, historyVars>>

RecordPublish(t) ==
  LET e == call[t].event IN
  /\ Return(t, "publish")
  /\ event_status' = [event_status EXCEPT ![e] = "RECORDING"]
  /\ Unlock(e)
  /\ latest' = [latest EXCEPT ![e] = call[t].rec]
  /\ before' = [before EXCEPT ![e] = call[t].work]
  /\ UNCHANGED <<deviceVars, signaled, timestamp, recs>>

(* Slips: the second barrier left out (the copy may overtake the write),   *)
(* or the first one (the clock is read before the work is done).           *)
RecordStreamOneBarrier(t) ==
  \/ RecordBarrier(t, "barrier1", "write")
  \/ RecordTimestamp(t, "write", "copy")
  \/ RecordTimestamp(t, "copy", "publish")
  \/ RecordPublish(t)

RecordStreamLateBarrier(t) ==
  \/ Advance(t, "barrier1", "write")
       /\ UNCHANGED <<deviceVars, eventVars, historyVars>>
  \/ RecordTimestamp(t, "write", "copy")
  \/ RecordTimestamp(t, "copy", "barrier2")
  \/ RecordBarrier(t, "barrier2", "publish")
  \/ RecordPublish(t)

RecordStream(t) ==
  \/ RecordBarrier(t, "barrier1", "write")
  \/ RecordTimestamp(t, "write", "barrier2")
  \/ RecordBarrier(t, "barrier2", "copy")
  \/ RecordTimestamp(t, "copy", "publish")
  \/ RecordPublish(t)

(* Slip: the mutex is not released on the error path. *)
RecordErrorLocked(t) ==
  /\ MayFail /\ call[t].at \in RecordStep \ {"publish"}
  /\ call' = [call EXCEPT ![t] = Idle]
  /\ UNCHANGED <<deviceVars, eventVars, historyVars>>

(* A refused append throws out of recordStream; the lock_guard unlocks.    *)
(* The event stays reset and event_status stays what it was.               *)
RecordError(t) ==
  /\ MayFail /\ call[t].at \in RecordStep \ {"publish"}
  /\ call' = [call EXCEPT ![t] = Idle]
  /\ Unlock(call[t].event)
  /\ UNCHANGED <<deviceVars, event_status, signaled, timestamp, historyVars>>

-----------------------------------------------------------------------------
(* wait, updateFinishStatus, isFinished.                                   *)

(* Slip: wait() does not look at event_status. *)
WaitBeginUnrecorded(t, e) ==
  /\ Begin(t, [at |-> "wait", event |-> e])
  /\ Lock(t, e)
  /\ UNCHANGED <<deviceVars, event_status, signaled, timestamp, historyVars>>

(* An event that is not being recorded is not waited for. *)
WaitBegin(t, e) ==
  /\ event_status[e] = "RECORDING"
  /\ Begin(t, [at |-> "wait", event |-> e])
  /\ Lock(t, e)
  /\ UNCHANGED <<deviceVars, event_status, signaled, timestamp, historyVars>>

WaitEnd(t) ==
  LET e == call[t].event IN
  /\ Return(t, "wait")
  /\ signaled[e]
  /\ event_status' = [event_status EXCEPT ![e] = "RECORDED"]
  /\ Unlock(e)
  /\ UNCHANGED <<deviceVars, signaled, timestamp, historyVars>>

isFinished(e) == event_status[e] = "RECORDED"
isRecordingOrRecorded(e) == event_status[e] # "INIT"

(* hipEventElapsedTime(start, stop): updateFinishStatus on the two events  *)
(* in turn; a query that is not ready throws.                              *)
ElapsedBegin(t, e, f) ==
  /\ isRecordingOrRecorded(e) /\ isRecordingOrRecorded(f)
  /\ Begin(t, [at |-> "update1", event |-> e, other |-> f])
  /\ UNCHANGED <<deviceVars, eventVars, historyVars>>

(* Slip: the answer of the query is not looked at. *)
UpdateFinishStatusUnchecked(t, e, next) ==
  /\ mtx[e] = NoThread
  /\ call' = [call EXCEPT ![t] = next]
  /\ event_status' = [event_status EXCEPT ![e] =
       IF @ = "RECORDING" THEN "RECORDED" ELSE @]
  /\ UNCHANGED <<deviceVars, signaled, timestamp, mtx, historyVars>>

UpdateFinishStatus(t, e, next) ==
  /\ mtx[e] = NoThread
  /\ IF event_status[e] = "RECORDING" /\ ~signaled[e]
       THEN call' = [call EXCEPT ![t] = Idle] /\ UNCHANGED event_status
       ELSE /\ call' = [call EXCEPT ![t] = next]
            /\ event_status' = [event_status EXCEPT ![e] =
                 IF @ = "RECORDING" THEN "RECORDED" ELSE @]
  /\ UNCHANGED <<deviceVars, signaled, timestamp, mtx, historyVars>>

ElapsedTime(t) ==
  \/ /\ call[t].at = "update1"
     /\ UpdateFinishStatus(t, call[t].event, [call[t] EXCEPT !.at = "update2"])
  \/ /\ call[t].at = "update2"
     /\ UpdateFinishStatus(t, call[t].other, Idle)

(* An application that calls hipEventQuery until it answers hipSuccess. *)
PollBegin(t, e) ==
  /\ event_status[e] = "RECORDING"
  /\ Begin(t, [at |-> "poll", event |-> e])
  /\ UNCHANGED <<deviceVars, eventVars, historyVars>>

HipEventQuery(t) ==
  /\ call[t].at = "poll"
  /\ call' = [call EXCEPT ![t] = IF isFinished(call[t].event) THEN Idle ELSE @]
  /\ UNCHANGED <<deviceVars, eventVars, historyVars>>

-----------------------------------------------------------------------------
(* hipEventDestroy of an event no call is working on, and the event        *)
(* hipEventCreate may put in the same memory: what is in a list still      *)
(* copies there.  An event that is never recorded again is one that is     *)
(* gone.                                                                   *)
UsesEvent(t, e) ==
  \/ call[t].at # "idle" /\ call[t].event = e
  \/ call[t].at \in {"update1", "update2"} /\ call[t].other = e

Orphaned(c, e) ==
  IF c.kind = "copy" /\ c.event = e THEN [c EXCEPT !.kind = "orphan"] ELSE c

Destroy(t, e) ==
  /\ call[t] = Idle /\ \A u \in Threads : ~UsesEvent(u, e)
  /\ ReRecord \/ event_status[e] # "RECORDING"
  /\ pending' = { Orphaned(c, e) : c \in pending }
  /\ event_status' = [event_status EXCEPT ![e] = "INIT"]
  /\ signaled' = [signaled EXCEPT ![e] = FALSE]
  /\ timestamp' = [timestamp EXCEPT ![e] = 0]
  /\ latest' = [latest EXCEPT ![e] = 0]
  /\ before' = [before EXCEPT ![e] = {}]
  /\ UNCHANGED <<tail, shared_buf, mtx, call, recs>>

-----------------------------------------------------------------------------
Continue(t) ==
  \/ RecordStream(t)
  \/ WaitEnd(t)
  \/ ElapsedTime(t)
  \/ HipEventQuery(t)

Call(t) ==
  \/ \E q \in Queues : Submit(t, q) \/ \E e \in Events : RecordBegin(t, e, q)
  \/ \E e \in Events : WaitBegin(t, e) \/ PollBegin(t, e) \/ Destroy(t, e)
  \/ \E e, f \in Events : ElapsedBegin(t, e, f)

Next ==
  \/ \E t \in Threads : Call(t) \/ Continue(t) \/ RecordError(t)
  \/ \E c \in pending : Complete(c)

Spec == Init /\ [][Next]_vars

Fairness ==
  /\ \A q \in Queues : WF_vars(\E c \in InQueue(q, pending) : Complete(c))
  /\ \A t \in Threads : WF_vars(Continue(t))

FairSpec == Spec /\ Fairness

-----------------------------------------------------------------------------
Recording(e) ==
  \E t \in Threads : call[t].at \in RecordStep /\ call[t].event = e

(* The mutex of an event is held by exactly the call that is recording it  *)
(* or waiting for it; an exception leaves it free.                         *)
LockHeld ==
  \A e \in Events, t \in Threads :
    mtx[e] = t <=> call[t].at \in RecordStep \cup {"wait"} /\ call[t].event = e

StateOK == TypeOK /\ LockHeld

(* A finished event stands behind all the work that was in its queue when  *)
(* it was last recorded: hipEventSynchronize and a successful              *)
(* hipEventElapsedTime mean that work is done.                             *)
FinishedCoversWork ==
  \A e \in Events : isFinished(e) /\ ~Recording(e) => before[e] = {}

(* The timestamp of a finished event is the one of its own last recording, *)
(* although all events of a queue pass theirs through one shared buffer.   *)
TimestampIsOwn ==
  \A e \in Events : isFinished(e) /\ ~Recording(e) => timestamp[e] = latest[e]

(* The device writes no timestamp into the memory of a destroyed event: an *)
(* event whose status is not RECORDING has no copy in any list, whichever  *)
(* of its calls failed.                                                    *)
NoStrayWrite == \A c \in pending : c.kind # "orphan"

(* wait() holds the event's mutex while it blocks, and still returns. *)
WaitReturns == \A t \in Threads : call[t].at = "wait" ~> call[t] = Idle

(* "Query the event to see if it completed" (CHIPBackend.hh, isFinished):  *)
(* an application that polls a recorded event is told when it completes.   *)
PollReturns == \A t \in Threads : call[t].at = "poll" ~> call[t] = Idle
=============================================================================
