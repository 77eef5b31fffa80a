-------------------------- MODULE Level0EventProofs --------------------------
(* What a finished event means, for any number of threads, queues, events  *)
(* and recordings, when each queue has one thread that submits to it and   *)
(* no event is recorded again before its recording is seen to finish.      *)
EXTENDS Level0Event, TLAPS

Stamp == {"write", "copy"}
Copies(e) == { c \in pending : c.kind = "copy" /\ c.event = e }

(* A barrier in the queue of x keeps back what is at position p until x is *)
(* done.                                                                   *)
Sep(x, p) ==
  \E b \in pending : b.queue = x.queue /\ b.kind = "barrier" /\ x.pos < b.pos /\ b.pos < p

(* What reads the buffer of q at position p will find recording r there.   *)
Own(q, r, p) ==
  /\ \A w \in pending :
       w.kind = "write" /\ w.queue = q /\ w.pos < p /\ w.rec # r =>
         \E v \in pending : v.kind = "write" /\ v.queue = q /\ v.rec = r
                            /\ w.pos < v.pos /\ v.pos < p
  /\ (\A w \in pending : ~ (w.kind = "write" /\ w.queue = q /\ w.pos < p))
       => shared_buf[q] = r

Publishes(t, e) == call[t].at = "publish" /\ call[t].event = e
Records(t, e) == call[t].at \in RecordStep /\ call[t].event = e

Typed ==
  /\ TypeOK
  /\ call \in [Threads -> CallState]
  /\ \A c \in pending : c.pos < tail[c.queue]
  /\ \A c, d \in pending : c.queue = d.queue /\ c.pos = d.pos => c = d
  /\ \A t \in Threads : call[t].at \in RecordStep =>
       /\ call[t].queue \in Uses[t]
       /\ call[t].work \subseteq InQueue(call[t].queue, pending)
  /\ \A e \in Events : before[e] \subseteq { c \in pending : c.kind = "work" }
  /\ NoStrayWrite

(* Between a command and a later clock write or copy there is a barrier,   *)
(* in the list or about to be.                                             *)
Separated ==
  /\ \A x, y \in pending :
       x.queue = y.queue /\ x.kind # "barrier" /\ y.kind \in Stamp /\ x.pos < y.pos
         => Sep(x, y.pos)
  /\ \A t \in Threads : call[t].at \in Stamp =>
       \A x \in pending : x.queue = call[t].queue /\ x.kind # "barrier"
         => Sep(x, tail[call[t].queue])

(* A copy finds the clock value of its own recording.                      *)
Owned ==
  /\ \A c \in pending : c.kind = "copy" => Own(c.queue, c.rec, c.pos)
  /\ \A t \in Threads : call[t].at \in {"barrier2", "copy"} =>
       Own(call[t].queue, call[t].rec, tail[call[t].queue])

(* The copy of an event belongs to the recording that is to be published   *)
(* or was published last, and stands behind its work.                      *)
CopyOf(c) ==
  \/ \E t \in Threads :
       /\ Publishes(t, c.event)
       /\ c.rec = call[t].rec /\ c.queue = call[t].queue
       /\ \A x \in call[t].work : x.pos < c.pos
  \/ /\ \A t \in Threads : ~ Records(t, c.event)
     /\ event_status[c.event] = "RECORDING"
     /\ c.rec = latest[c.event]
     /\ \A x \in before[c.event] : x.queue = c.queue /\ x.pos < c.pos

CopiesOK ==
  /\ \A c \in pending : c.kind = "copy" => ~ signaled[c.event] /\ CopyOf(c)
  /\ \A c, d \in pending : c.kind = "copy" /\ d.kind = "copy" /\ c.event = d.event => c = d

EventsOK ==
  \A e \in Events :
    /\ event_status[e] = "RECORDING" /\ Copies(e) = {} =>
         signaled[e] /\ before[e] = {} /\ timestamp[e] = latest[e]
    /\ event_status[e] = "RECORDED" /\ (\A t \in Threads : ~ Publishes(t, e)) =>
         before[e] = {} /\ timestamp[e] = latest[e]
    /\ event_status[e] = "INIT" /\ (\A t \in Threads : ~ Publishes(t, e)) =>
         ~ signaled[e]

CallsOK ==
  \A t \in Threads :
    /\ call[t].at \in RecordStep => event_status[call[t].event] # "RECORDING"
    /\ call[t].at \in RecordStep \ {"publish"} =>
         ~ signaled[call[t].event] /\ Copies(call[t].event) = {}
    /\ call[t].at = "publish" /\ Copies(call[t].event) = {} =>
         /\ signaled[call[t].event] /\ call[t].work = {}
         /\ timestamp[call[t].event] = call[t].rec
    /\ call[t].at = "wait" => event_status[call[t].event] = "RECORDING"

DInv == Separated /\ Owned
EInv == CopiesOK /\ EventsOK /\ CallsOK
IInv == Typed /\ LockHeld /\ DInv /\ EInv

-----------------------------------------------------------------------------
RecordCall == [at : RecordStep, event : Events, queue : Queues, rec : Record,
               work : SUBSET Work]

LEMMA Calls ==
  ASSUME Typed, NEW t \in Threads
  PROVE  /\ call[t].at \in RecordStep => call[t] \in RecordCall
         /\ call[t].at \notin RecordStep =>
              call[t].at \in {"idle", "wait", "poll", "update1", "update2"}
         /\ call[t].at # "idle" => call[t].event \in Events
         /\ call[t].at \in {"update1", "update2"} => call[t].other \in Events
<1>1. call[t] \in CallState BY DEF Typed
<1>. QED BY <1>1 DEF CallState, Idle, RecordStep, RecordCall

LEMMA InitOK == Init => IInv
<1>. SUFFICES ASSUME Init PROVE IInv
  OBVIOUS
<1>1. Idle \in CallState /\ Idle.at = "idle" BY DEF Idle, CallState
<1>2. \A t \in Threads : call[t] = Idle /\ call[t].at = "idle" BY <1>1 DEF Init
<1>3. Typed
  BY <1>1, <1>2, EventAssumption DEF Init, Typed, TypeOK, Record, RecordStep, NoStrayWrite
<1>4. LockHeld BY <1>2, EventAssumption DEF Init, LockHeld, RecordStep
<1>5. DInv
  BY <1>2 DEF Init, DInv, Separated, Owned, Stamp
<1>6. EInv
  BY <1>2 DEF Init, EInv, CopiesOK, EventsOK, CallsOK, RecordStep
<1>. QED BY <1>3, <1>4, <1>5, <1>6 DEF IInv

(* The device completes a command: the calls forget it, and nothing else.  *)
LEMMA CompleteCalls ==
  ASSUME Typed, NEW c, Complete(c), NEW t \in Threads
  PROVE  /\ call'[t] \in CallState /\ call'[t].at = call[t].at
         /\ call[t].at # "idle" => call'[t].event = call[t].event
         /\ call[t].at \in RecordStep =>
              /\ call'[t].queue = call[t].queue /\ call'[t].rec = call[t].rec
              /\ call'[t].work = call[t].work \ {c}
<1>1. CASE call[t].at \in RecordStep
  <2>1. call[t] \in RecordCall BY <1>1, Calls
  <2>2. call'[t] = [call[t] EXCEPT !.work = @ \ {c}] BY <1>1 DEF Complete
  <2>3. call'[t] \in RecordCall BY <2>1, <2>2 DEF RecordCall
  <2>4. call'[t] \in CallState BY <2>3 DEF RecordCall, CallState
  <2>. QED BY <2>1, <2>2, <2>4 DEF RecordCall
<1>2. CASE call[t].at \notin RecordStep
  BY <1>2 DEF Complete, Typed
<1>. QED BY <1>1, <1>2

LEMMA CompleteTyped ==
  ASSUME Typed, LockHeld, NEW c \in pending, Complete(c)
  PROVE  Typed' /\ LockHeld'
<1>. USE DEF Complete
<1>0. c \in Command /\ c.queue \in Queues BY DEF Typed, TypeOK, Command
<1>1. call' \in [Threads -> CallState] BY CompleteCalls
<1>2. TypeOK'
  <2>1. pending' \subseteq Command BY DEF Typed, TypeOK
  <2>2. tail' \in [Queues -> Nat] BY DEF Typed, TypeOK
  <2>3. shared_buf' \in [Queues -> Record]
    <3>1. c.kind = "write" => c.rec \in Record BY <1>0 DEF Command
    <3>. QED BY <3>1 DEF Typed, TypeOK
  <2>4. timestamp' \in [Events -> Record]
    <3>1. shared_buf[c.queue] \in Record BY <1>0 DEF Typed, TypeOK
    <3>. QED BY <3>1 DEF Typed, TypeOK
  <2>5. signaled' \in [Events -> BOOLEAN] BY DEF Typed, TypeOK
  <2>6. \A t \in Threads : call'[t].at # "idle" => call'[t].event \in Events
    BY CompleteCalls, Calls
  <2>7. before' \in [Events -> SUBSET Command] BY DEF Typed, TypeOK
  <2>. QED BY <2>1, <2>2, <2>3, <2>4, <2>5, <2>6, <2>7 DEF Typed, TypeOK
<1>3. ASSUME NEW d \in pending' PROVE d.pos < tail'[d.queue]
  <2>1. d \in pending /\ d # c /\ d.pos < tail[d.queue] BY DEF Typed
  <2>2. d.queue = c.queue => InQueue(c.queue, pending) # {c}
    BY <2>1 DEF InQueue
  <2>3. d.queue \in Queues BY <2>1 DEF Typed, TypeOK, Command
  <2>. QED BY <1>0, <2>1, <2>2, <2>3 DEF Typed, TypeOK
<1>4. ASSUME NEW t \in Threads, call'[t].at \in RecordStep
      PROVE  /\ call'[t].queue \in Uses[t]
             /\ call'[t].work \subseteq InQueue(call'[t].queue, pending')
  BY <1>4, CompleteCalls DEF Typed, InQueue
<1>5. \A e \in Events : before'[e] \subseteq { x \in pending' : x.kind = "work" }
  BY DEF Typed
<1>6. Typed' BY <1>1, <1>2, <1>3, <1>4, <1>5 DEF Typed, NoStrayWrite
<1>7. LockHeld'
  <2>1. \A t \in Threads, e \in Events :
          call'[t].at \in RecordStep \cup {"wait"} /\ call'[t].event = e
            <=> call[t].at \in RecordStep \cup {"wait"} /\ call[t].event = e
    BY CompleteCalls DEF RecordStep
  <2>. QED BY <2>1 DEF LockHeld
<1>. QED BY <1>6, <1>7

(* A barrier outlives what it keeps back.                                  *)
LEMMA SepStays ==
  ASSUME NEW c \in pending, Ready(c), pending' = pending \ {c},
         NEW x \in pending, x # c, NEW p, Sep(x, p)
  PROVE  Sep(x, p)'
<1>1. PICK b \in pending : /\ b.queue = x.queue /\ b.kind = "barrier"
                           /\ x.pos < b.pos /\ b.pos < p
  BY DEF Sep
<1>2. b # c BY <1>1 DEF Ready, InQueue
<1>. QED BY <1>1, <1>2 DEF Sep

(* What is behind a barrier is not ready. *)
LEMMA SepBlocks ==
  ASSUME NEW c \in pending, Ready(c), NEW x \in pending, x.queue = c.queue
  PROVE  ~ Sep(x, c.pos)
BY DEF Sep, Ready, InQueue

(* The buffer keeps its recording for position p, unless a write from      *)
(* behind p is ready.                                                      *)
LEMMA OwnStays ==
  ASSUME Typed, Separated, NEW c \in pending, Complete(c),
         NEW q, NEW r, NEW p, Own(q, r, p),
         c.kind = "write" /\ c.queue = q => c.pos < p
  PROVE  Own(q, r, p)'
<1>. DEFINE W(w) == w.kind = "write" /\ w.queue = q /\ w.pos < p
<1>0. pending' = pending \ {c} /\ Ready(c) BY DEF Complete
<1>1. ASSUME NEW w \in pending', W(w), w.rec # r
      PROVE  \E v \in pending' : W(v) /\ v.rec = r /\ w.pos < v.pos
  <2>1. PICK v \in pending : W(v) /\ v.rec = r /\ w.pos < v.pos
    BY <1>0, <1>1 DEF Own
  <2>2. v # c
    <3>1. Sep(w, v.pos) BY <1>0, <1>1, <2>1 DEF Separated, Stamp
    <3>. QED BY <1>0, <1>1, <2>1, <3>1, SepBlocks
  <2>. QED BY <1>0, <2>1, <2>2
<1>2. ASSUME \A w \in pending' : ~ W(w)
      PROVE  shared_buf'[q] = r
  <2>1. CASE c.kind = "write" /\ c.queue = q
    <3>1. shared_buf'[q] = c.rec
      BY <2>1 DEF Complete, Typed, TypeOK, Command
    <3>2. c.rec = r
      <4>1. ASSUME c.rec # r PROVE FALSE
        <5>1. PICK v \in pending : W(v) /\ v.rec = r /\ c.pos < v.pos
          BY <2>1, <4>1 DEF Own
        <5>2. v # c BY <4>1, <5>1
        <5>. QED BY <1>0, <1>2, <5>1, <5>2
      <4>. QED BY <4>1
    <3>. QED BY <3>1, <3>2
  <2>2. CASE ~ (c.kind = "write" /\ c.queue = q)
    <3>1. \A w \in pending : ~ W(w) BY <1>0, <1>2, <2>2
    <3>2. shared_buf'[q] = shared_buf[q]
      BY <2>2 DEF Complete, Typed, TypeOK, Command
    <3>. QED BY <3>1, <3>2 DEF Own
  <2>. QED BY <2>1, <2>2
<1>. QED BY <1>1, <1>2 DEF Own

LEMMA CompleteDevice ==
  ASSUME Typed, DInv, NEW c \in pending, Complete(c)
  PROVE  DInv'
<1>0. pending' = pending \ {c} /\ Ready(c) BY DEF Complete
<1>1. ASSUME NEW x \in pending', NEW y \in pending', x.queue = y.queue,
             x.kind # "barrier", y.kind \in Stamp, x.pos < y.pos
      PROVE  Sep(x, y.pos)'
  BY <1>0, <1>1, SepStays DEF DInv, Separated
<1>2. ASSUME NEW t \in Threads, call'[t].at \in Stamp,
             NEW x \in pending', x.queue = call'[t].queue, x.kind # "barrier"
      PROVE  Sep(x, tail[call[t].queue])'
  <2>1. call[t].at \in Stamp /\ call'[t].queue = call[t].queue
    BY <1>2, CompleteCalls DEF Stamp, RecordStep
  <2>2. Sep(x, tail[call[t].queue]) BY <1>0, <1>2, <2>1 DEF DInv, Separated
  <2>3. tail'[call'[t].queue] = tail[call[t].queue]
    <3>1. x.queue = c.queue => InQueue(c.queue, pending) # {c}
      BY <1>0, <1>2 DEF InQueue
    <3>2. x.queue \in Queues BY <1>0, <1>2 DEF Typed, TypeOK, Command
    <3>. QED BY <1>2, <2>1, <3>1, <3>2 DEF Complete, Typed, TypeOK
  <2>. DEFINE p == tail[call[t].queue]
  <2>4. Sep(x, p) BY <2>2
  <2>. HIDE DEF p
  <2>5. \E b \in pending' : b.queue = x.queue /\ b.kind = "barrier" /\ x.pos < b.pos /\ b.pos < p
    <3>1. PICK b \in pending : /\ b.queue = x.queue /\ b.kind = "barrier"
                               /\ x.pos < b.pos /\ b.pos < p
      BY <2>4 DEF Sep
    <3>2. b # c BY <1>0, <1>2, <3>1 DEF Ready, InQueue
    <3>. QED BY <1>0, <3>1, <3>2
  <2>. QED BY <2>3, <2>5 DEF Sep, p
<1>3. Separated' BY <1>1, <1>2 DEF Separated
<1>4. ASSUME NEW d \in pending', d.kind = "copy"
      PROVE  Own(d.queue, d.rec, d.pos)'
  <2>1. Own(d.queue, d.rec, d.pos) BY <1>0, <1>4 DEF DInv, Owned
  <2>2. c.kind = "write" /\ c.queue = d.queue => c.pos < d.pos
    <3>1. ASSUME c.kind = "write", c.queue = d.queue, ~ (c.pos < d.pos) PROVE FALSE
      <4>1. c.pos \in Nat /\ d.pos \in Nat /\ d \in pending /\ d # c
        BY <1>0, <1>4 DEF Typed, TypeOK, Command
      <4>2. d.pos < c.pos BY <3>1, <4>1 DEF Typed
      <4>3. Sep(d, c.pos) BY <3>1, <4>1, <4>2, <1>4 DEF DInv, Separated, Stamp
      <4>. QED BY <1>0, <3>1, <4>1, <4>3, SepBlocks
    <3>. QED BY <3>1
  <2>. QED BY <2>1, <2>2, OwnStays DEF DInv
<1>5. ASSUME NEW t \in Threads, call'[t].at \in {"barrier2", "copy"}
      PROVE  Own(call[t].queue, call[t].rec, tail[call[t].queue])'
  <2>0. PICK q, r, p : q = call[t].queue /\ r = call[t].rec /\ p = tail[q]
    OBVIOUS
  <2>1. /\ call[t].at \in {"barrier2", "copy"} /\ call'[t].queue = q /\ call'[t].rec = r
        /\ q \in Queues
    BY <1>5, <2>0, CompleteCalls, Calls DEF RecordStep, RecordCall
  <2>2. Own(q, r, p) BY <2>0, <2>1 DEF DInv, Owned
  <2>3. c.queue = q => c.pos < p BY <2>0 DEF Typed
  <2>4. CASE tail'[q] = p
    <3>1. Own(q, r, p)' BY <2>2, <2>3, OwnStays DEF DInv
    <3>. QED BY <2>1, <2>4, <3>1 DEF Own
  <2>5. CASE tail'[q] # p
    <3>1. q = c.queue /\ InQueue(q, pending) = {c} /\ tail'[q] = 0
      BY <2>0, <2>1, <2>5 DEF Complete, Typed, TypeOK
    <3>2. \A w \in pending' : w.queue # q BY <1>0, <3>1 DEF InQueue
    <3>3. shared_buf'[q] = r
      <4>1. CASE c.kind = "write"
        <5>1. shared_buf'[q] = c.rec
          BY <4>1, <3>1, <2>1 DEF Complete, Typed, TypeOK
        <5>2. c.rec = r
          BY <2>2, <2>3, <3>1, <4>1 DEF Own, InQueue, Typed, TypeOK, Command
        <5>. QED BY <5>1, <5>2
      <4>2. CASE c.kind # "write"
        <5>1. \A w \in pending : ~ (w.kind = "write" /\ w.queue = q)
          BY <1>0, <3>2, <4>2
        <5>2. shared_buf'[q] = shared_buf[q] BY <4>2 DEF Complete
        <5>. QED BY <5>1, <5>2, <2>2 DEF Own
      <4>. QED BY <4>1, <4>2
    <3>. QED BY <2>1, <3>2, <3>3 DEF Own
  <2>. QED BY <2>4, <2>5
<1>. QED BY <1>3, <1>4, <1>5 DEF DInv, Owned

(* A ready copy has no earlier work or write in its queue: the buffer      *)
(* holds its recording.                                                    *)
LEMMA ReadyCopy ==
  ASSUME Typed, DInv, NEW c \in pending, Ready(c), c.kind = "copy"
  PROVE  /\ \A x \in pending : x.queue = c.queue /\ x.kind # "barrier" => ~ (x.pos < c.pos)
         /\ shared_buf[c.queue] = c.rec
<1>1. ASSUME NEW x \in pending, x.queue = c.queue, x.kind # "barrier", x.pos < c.pos
      PROVE  FALSE
  <2>1. Sep(x, c.pos) BY <1>1 DEF DInv, Separated, Stamp
  <2>. QED BY <1>1, <2>1, SepBlocks
<1>2. Own(c.queue, c.rec, c.pos) BY DEF DInv, Owned
<1>3. \A w \in pending : ~ (w.kind = "write" /\ w.queue = c.queue /\ w.pos < c.pos)
  BY <1>1
<1>4. shared_buf[c.queue] = c.rec BY <1>2, <1>3 DEF Own
<1>. QED BY <1>1, <1>4

LEMMA OneRecorder ==
  ASSUME LockHeld, NEW e \in Events, NEW t \in Threads, NEW u \in Threads,
         Records(t, e), Records(u, e)
  PROVE  t = u
<1>1. mtx[e] = t /\ mtx[e] = u BY DEF LockHeld, Records
<1>. QED BY <1>1

LEMMA CopyTyped ==
  ASSUME Typed, NEW c \in pending, c.kind = "copy"
  PROVE  c.queue \in Queues /\ c.pos \in Nat /\ c.event \in Events /\ c.rec \in Record
BY DEF Typed, TypeOK, Command

(* When the copy of an event completes, its recording is over.             *)
LEMMA CopyDone ==
  ASSUME Typed, LockHeld, DInv, EInv, NEW c \in pending, Ready(c), c.kind = "copy"
  PROVE  /\ \A t \in Threads : Records(t, c.event) =>
              call[t].at = "publish" /\ call[t].work = {} /\ call[t].rec = c.rec
         /\ event_status[c.event] = "RECORDING" =>
              before[c.event] = {} /\ latest[c.event] = c.rec
         /\ (\A t \in Threads : ~ Publishes(t, c.event)) =>
              event_status[c.event] = "RECORDING"
<1>0. c.event \in Events BY CopyTyped
<1>1. \A x \in pending : x.queue = c.queue /\ x.kind # "barrier" => ~ (x.pos < c.pos)
  BY ReadyCopy
<1>2. CopyOf(c) BY DEF EInv, CopiesOK
<1>3. CASE \E t \in Threads : /\ Publishes(t, c.event)
                              /\ c.rec = call[t].rec /\ c.queue = call[t].queue
                              /\ \A x \in call[t].work : x.pos < c.pos
  <2>1. PICK t \in Threads : /\ Publishes(t, c.event)
                             /\ c.rec = call[t].rec /\ c.queue = call[t].queue
                             /\ \A x \in call[t].work : x.pos < c.pos
    BY <1>3
  <2>2. Records(t, c.event) BY <2>1 DEF Publishes, Records, RecordStep
  <2>3. \A u \in Threads : Records(u, c.event) => u = t BY <1>0, <2>2, OneRecorder
  <2>4. call[t] \in RecordCall BY <2>2, Calls DEF Records
  <2>5. call[t].work \subseteq { x \in InQueue(c.queue, pending) : x.kind = "work" }
    BY <2>1, <2>2, <2>4 DEF Typed, Records, RecordCall, Work
  <2>6. call[t].work = {} BY <1>1, <2>1, <2>5 DEF InQueue
  <2>7. event_status[c.event] # "RECORDING" BY <2>2 DEF EInv, CallsOK, Records
  <2>. QED BY <2>1, <2>3, <2>6, <2>7 DEF Publishes
<1>4. CASE /\ \A t \in Threads : ~ Records(t, c.event)
           /\ event_status[c.event] = "RECORDING"
           /\ c.rec = latest[c.event]
           /\ \A x \in before[c.event] : x.queue = c.queue /\ x.pos < c.pos
  <2>1. before[c.event] \subseteq { x \in pending : x.kind = "work" }
    BY <1>0 DEF Typed
  <2>2. before[c.event] = {} BY <1>1, <1>4, <2>1
  <2>. QED BY <1>4, <2>2
<1>. QED BY <1>2, <1>3, <1>4 DEF CopyOf

(* The event variables after a completion. *)
LEMMA CompleteValues ==
  ASSUME Typed, NEW c \in pending, Complete(c), NEW e \in Events
  PROVE  /\ before'[e] = before[e] \ {c}
         /\ event_status'[e] = event_status[e] /\ latest'[e] = latest[e]
         /\ ~ (c.kind = "copy" /\ c.event = e) =>
              signaled'[e] = signaled[e] /\ timestamp'[e] = timestamp[e]
         /\ c.kind = "copy" /\ c.event = e =>
              signaled'[e] /\ timestamp'[e] = shared_buf[c.queue]
<1>1. c.kind = "copy" => c.event \in Events BY CopyTyped
<1>2. c.kind # "orphan" BY DEF Typed, NoStrayWrite
<1>. QED BY <1>1, <1>2 DEF Complete, Typed, TypeOK

LEMMA CompleteCopies ==
  ASSUME Typed, NEW c \in pending, Complete(c), EInv
  PROVE  CopiesOK'
<1>0. pending' = pending \ {c} BY DEF Complete
<1>1. ASSUME NEW d \in pending', d.kind = "copy"
      PROVE  ~ signaled'[d.event] /\ CopyOf(d)'
  <2>0. d \in pending /\ d # c /\ d.event \in Events BY <1>0, <1>1, CopyTyped
  <2>1. ~ (c.kind = "copy" /\ c.event = d.event)
    BY <1>1, <2>0 DEF EInv, CopiesOK
  <2>2. ~ signaled[d.event] /\ CopyOf(d) BY <1>1, <2>0 DEF EInv, CopiesOK
  <2>3. ~ signaled'[d.event] BY <2>0, <2>1, <2>2, CompleteValues
  <2>4. CASE \E t \in Threads : /\ Publishes(t, d.event)
                                /\ d.rec = call[t].rec /\ d.queue = call[t].queue
                                /\ \A x \in call[t].work : x.pos < d.pos
    <3>1. PICK t \in Threads : /\ Publishes(t, d.event)
                               /\ d.rec = call[t].rec /\ d.queue = call[t].queue
                               /\ \A x \in call[t].work : x.pos < d.pos
      BY <2>4
    <3>2. call[t].at \in RecordStep /\ call[t].at # "idle"
      BY <3>1 DEF Publishes, RecordStep
    <3>3. /\ call'[t].at = "publish" /\ call'[t].event = d.event
          /\ d.rec = call'[t].rec /\ d.queue = call'[t].queue
          /\ \A x \in call'[t].work : x.pos < d.pos
      BY <3>1, <3>2, CompleteCalls DEF Publishes
    <3>. QED BY <2>3, <3>3 DEF CopyOf, Publishes
  <2>5. CASE /\ \A t \in Threads : ~ Records(t, d.event)
             /\ event_status[d.event] = "RECORDING"
             /\ d.rec = latest[d.event]
             /\ \A x \in before[d.event] : x.queue = d.queue /\ x.pos < d.pos
    <3>1. \A t \in Threads : ~ (call'[t].at \in RecordStep /\ call'[t].event = d.event)
      BY <2>5, CompleteCalls DEF Records, RecordStep
    <3>2. /\ event_status'[d.event] = "RECORDING" /\ d.rec = latest'[d.event]
          /\ \A x \in before'[d.event] : x.queue = d.queue /\ x.pos < d.pos
      BY <2>0, <2>5, CompleteValues
    <3>. QED BY <2>3, <3>1, <3>2 DEF CopyOf, Records
  <2>. QED BY <2>2, <2>4, <2>5 DEF CopyOf
<1>2. \A a, b \in pending' :
        a.kind = "copy" /\ b.kind = "copy" /\ a.event = b.event => a = b
  BY <1>0 DEF EInv, CopiesOK
<1>. QED BY <1>1, <1>2 DEF CopiesOK

LEMMA CompleteEvents ==
  ASSUME Typed, LockHeld, DInv, EInv, NEW c \in pending, Complete(c)
  PROVE  EInv'
<1>0. pending' = pending \ {c} /\ Ready(c) BY DEF Complete
<1>. DEFINE Mine(e) == c.kind = "copy" /\ c.event = e
<1>1. \A e \in Events : ~ Mine(e) => Copies(e)' = Copies(e)
  BY <1>0 DEF Copies
<1>2. \A t \in Threads, e \in Events : Publishes(t, e)' <=> Publishes(t, e)
  BY CompleteCalls DEF Publishes
<1>3. EventsOK'
  <2>1. ASSUME NEW e \in Events
        PROVE  /\ event_status'[e] = "RECORDING" /\ Copies(e)' = {} =>
                    signaled'[e] /\ before'[e] = {} /\ timestamp'[e] = latest'[e]
               /\ event_status'[e] = "RECORDED" /\ (\A t \in Threads : ~ Publishes(t, e)') =>
                    before'[e] = {} /\ timestamp'[e] = latest'[e]
               /\ event_status'[e] = "INIT" /\ (\A t \in Threads : ~ Publishes(t, e)') =>
                    ~ signaled'[e]
    <3>1. CASE Mine(e)
      <4>1. shared_buf[c.queue] = c.rec BY <1>0, <3>1, ReadyCopy
      <4>2. /\ event_status[e] = "RECORDING" => before[e] = {} /\ latest[e] = c.rec
            /\ (\A t \in Threads : ~ Publishes(t, e)) => event_status[e] = "RECORDING"
        BY <1>0, <3>1, CopyDone
      <4>. QED BY <1>2, <3>1, <4>1, <4>2, CompleteValues
    <3>2. CASE ~ Mine(e)
      <4>1. /\ event_status'[e] = event_status[e] /\ latest'[e] = latest[e]
            /\ signaled'[e] = signaled[e] /\ timestamp'[e] = timestamp[e]
            /\ before'[e] \subseteq before[e]
        BY <3>2, CompleteValues
      <4>. QED BY <1>1, <1>2, <3>2, <4>1 DEF EInv, EventsOK
    <3>. QED BY <3>1, <3>2
  <2>. QED BY <2>1 DEF EventsOK
<1>4. CallsOK'
  <2>1. ASSUME NEW t \in Threads, call'[t].at \in RecordStep, NEW e, e = call[t].event
        PROVE  /\ e \in Events /\ event_status'[e] # "RECORDING"
               /\ call'[t].at # "publish" => ~ signaled'[e] /\ Copies(e)' = {}
               /\ call'[t].at = "publish" /\ Copies(e)' = {} =>
                    signaled'[e] /\ call'[t].work = {} /\ timestamp'[e] = call'[t].rec
    <3>0. /\ call[t].at \in RecordStep /\ call'[t].at = call[t].at /\ e \in Events
          /\ call'[t].work \subseteq call[t].work /\ call'[t].rec = call[t].rec
      BY <2>1, CompleteCalls, Calls DEF RecordStep
    <3>1. event_status'[e] # "RECORDING"
      BY <2>1, <3>0, CompleteValues DEF EInv, CallsOK
    <3>2. CASE Mine(e)
      <4>1. Records(t, e) BY <2>1, <3>0 DEF Records
      <4>2. call[t].at = "publish" /\ call[t].work = {} /\ call[t].rec = c.rec
        BY <1>0, <3>2, <4>1, CopyDone
      <4>3. signaled'[e] /\ timestamp'[e] = c.rec
        BY <1>0, <3>0, <3>2, CompleteValues, ReadyCopy
      <4>. QED BY <3>0, <3>1, <4>2, <4>3
    <3>3. CASE ~ Mine(e)
      <4>1. signaled'[e] = signaled[e] /\ timestamp'[e] = timestamp[e] /\ Copies(e)' = Copies(e)
        BY <1>1, <3>0, <3>3, CompleteValues
      <4>2. /\ call[t].at # "publish" => ~ signaled[e] /\ Copies(e) = {}
            /\ call[t].at = "publish" /\ Copies(e) = {} =>
                 signaled[e] /\ call[t].work = {} /\ timestamp[e] = call[t].rec
        BY <2>1, <3>0 DEF EInv, CallsOK
      <4>. QED BY <3>0, <3>1, <4>1, <4>2
    <3>. QED BY <3>2, <3>3
  <2>2. ASSUME NEW t \in Threads, call'[t].at = "wait"
        PROVE  event_status'[call'[t].event] = "RECORDING"
    <3>1. call[t].at = "wait" /\ call'[t].event = call[t].event /\ call[t].event \in Events
      BY <2>2, CompleteCalls, Calls
    <3>. QED BY <3>1, CompleteValues DEF EInv, CallsOK
  <2>3. \A t \in Threads : call'[t].at \in RecordStep => call'[t].event = call[t].event
    BY CompleteCalls DEF RecordStep
  <2>4. "publish" \in RecordStep BY DEF RecordStep
  <2>. DEFINE S(t) ==
         /\ call[t].at \in RecordStep => event_status[call[t].event] # "RECORDING"
         /\ call[t].at \in RecordStep \ {"publish"} =>
              ~ signaled[call[t].event] /\ Copies(call[t].event) = {}
         /\ call[t].at = "publish" /\ Copies(call[t].event) = {} =>
              /\ signaled[call[t].event] /\ call[t].work = {}
              /\ timestamp[call[t].event] = call[t].rec
         /\ call[t].at = "wait" => event_status[call[t].event] = "RECORDING"
  <2>5. ASSUME NEW t \in Threads PROVE S(t)'
    <3>1. PICK e : e = call[t].event OBVIOUS
    <3>2. CASE call'[t].at \in RecordStep
      <4>1. call'[t].event = e /\ call'[t].at # "wait" BY <2>3, <3>1, <3>2 DEF RecordStep
      <4>2. Copies(call[t].event)' = Copies(e)' BY <4>1 DEF Copies
      <4>. QED BY <2>1, <2>4, <3>1, <3>2, <4>1, <4>2
    <3>3. CASE call'[t].at \notin RecordStep
      BY <2>2, <2>4, <3>3
    <3>. QED BY <3>2, <3>3
  <2>. QED BY <2>5 DEF CallsOK
<1>. QED BY <1>3, <1>4, CompleteCopies DEF EInv

-----------------------------------------------------------------------------
(* Steps of a thread.                                                      *)

OneUser == \A s, t \in Threads : s # t => Uses[s] \cap Uses[t] = {}

(* The copies of e and all that the invariant says about them are as       *)
(* before.                                                                 *)
CopiesOf(e) ==
  /\ \A c \in Copies(e) : ~ signaled[e] /\ CopyOf(c)
  /\ \A c, d \in Copies(e) : c = d

EventOK(e) ==
  /\ event_status[e] = "RECORDING" /\ Copies(e) = {} =>
       signaled[e] /\ before[e] = {} /\ timestamp[e] = latest[e]
  /\ event_status[e] = "RECORDED" /\ (\A t \in Threads : ~ Publishes(t, e)) =>
       before[e] = {} /\ timestamp[e] = latest[e]
  /\ event_status[e] = "INIT" /\ (\A t \in Threads : ~ Publishes(t, e)) =>
       ~ signaled[e]

CallOK(t, e) ==
  /\ Records(t, e) => event_status[e] # "RECORDING"
  /\ Records(t, e) /\ ~ Publishes(t, e) => ~ signaled[e] /\ Copies(e) = {}
  /\ Publishes(t, e) /\ Copies(e) = {} =>
       signaled[e] /\ call[t].work = {} /\ timestamp[e] = call[t].rec
  /\ call[t].at = "wait" /\ call[t].event = e => event_status[e] = "RECORDING"

(* The invariant of the events, one event at a time. *)
OneEvent(e) == CopiesOf(e) /\ EventOK(e) /\ \A t \in Threads : CallOK(t, e)

LEMMA EventByEvent ==
  ASSUME Typed PROVE EInv <=> \A e \in Events : OneEvent(e)
<1>1. \A c \in pending : c.kind = "copy" => c.event \in Events BY CopyTyped
<1>2. CopiesOK <=> \A e \in Events : CopiesOf(e)
  <2>1. ASSUME CopiesOK, NEW e \in Events PROVE CopiesOf(e)
    BY <2>1 DEF CopiesOK, CopiesOf, Copies
  <2>2. ASSUME \A e \in Events : CopiesOf(e) PROVE CopiesOK
    BY <1>1, <2>2 DEF CopiesOK, CopiesOf, Copies
  <2>. QED BY <2>1, <2>2
<1>3. EventsOK <=> \A e \in Events : EventOK(e)
  BY DEF EventsOK, EventOK
<1>4. CallsOK <=> \A e \in Events, t \in Threads : CallOK(t, e)
  <2>1. \A t \in Threads : call[t].at \in RecordStep \cup {"wait"} => call[t].event \in Events
    BY Calls DEF RecordStep
  <2>2. "publish" \in RecordStep /\ "wait" \notin RecordStep BY DEF RecordStep
  <2>3. ASSUME CallsOK, NEW e \in Events, NEW t \in Threads PROVE CallOK(t, e)
    BY <2>2, <2>3 DEF CallsOK, CallOK, Records, Publishes
  <2>4. ASSUME \A e \in Events, t \in Threads : CallOK(t, e) PROVE CallsOK
    <3>1. ASSUME NEW t \in Threads, call[t].at \in RecordStep \cup {"wait"}
          PROVE  CallOK(t, call[t].event)
      BY <2>1, <2>4, <3>1
    <3>. QED BY <2>2, <3>1 DEF CallsOK, CallOK, Records, Publishes
  <2>. QED BY <2>3, <2>4
<1>. QED BY <1>2, <1>3, <1>4 DEF EInv, OneEvent

(* What the invariant reads of e does not change. *)
SameEvent(e) ==
  /\ event_status'[e] = event_status[e] /\ signaled'[e] = signaled[e]
  /\ timestamp'[e] = timestamp[e] /\ latest'[e] = latest[e] /\ before'[e] = before[e]
  /\ Copies(e)' = Copies(e)

Waits(u, e) == call[u].at = "wait" /\ call[u].event = e
Holds(u, e) == Records(u, e) \/ Waits(u, e)

(* What the call of u does to e does not change. *)
SameCall(u, e) ==
  /\ Records(u, e)' <=> Records(u, e)
  /\ Publishes(u, e)' <=> Publishes(u, e)
  /\ Records(u, e) => /\ call'[u].queue = call[u].queue /\ call'[u].rec = call[u].rec
                      /\ call'[u].work = call[u].work
  /\ Waits(u, e)' => Waits(u, e)

LEMMA KeepEvent ==
  ASSUME NEW e \in Events, OneEvent(e), SameEvent(e), \A u \in Threads : SameCall(u, e)
  PROVE  OneEvent(e)'
<1>0. "publish" \in RecordStep BY DEF RecordStep
<1>1. \A u \in Threads : Publishes(u, e) => Records(u, e) BY <1>0 DEF Publishes, Records
<1>2. ASSUME NEW c, c \in Copies(e) PROVE CopyOf(c)'
  <2>1. c.event = e /\ CopyOf(c) BY <1>2 DEF OneEvent, CopiesOf, Copies
  <2>2. CASE \E t \in Threads : /\ Publishes(t, c.event)
                                /\ c.rec = call[t].rec /\ c.queue = call[t].queue
                                /\ \A x \in call[t].work : x.pos < c.pos
    BY <1>1, <2>1, <2>2 DEF SameCall, CopyOf
  <2>3. CASE /\ \A t \in Threads : ~ Records(t, c.event)
             /\ event_status[c.event] = "RECORDING"
             /\ c.rec = latest[c.event]
             /\ \A x \in before[c.event] : x.queue = c.queue /\ x.pos < c.pos
    BY <2>1, <2>3 DEF SameCall, SameEvent, CopyOf
  <2>. QED BY <2>1, <2>2, <2>3 DEF CopyOf
<1>3. CopiesOf(e)' BY <1>2 DEF OneEvent, CopiesOf, SameEvent
<1>4. EventOK(e)' BY DEF OneEvent, EventOK, SameEvent, SameCall
<1>5. ASSUME NEW t \in Threads PROVE CallOK(t, e)'
  <2>1. CallOK(t, e) /\ SameCall(t, e) BY DEF OneEvent
  <2>2. Waits(t, e)' => event_status'[e] = "RECORDING"
    BY <2>1 DEF CallOK, SameCall, SameEvent, Waits
  <2>3. Records(t, e)' => event_status'[e] # "RECORDING"
    BY <2>1 DEF CallOK, SameCall, SameEvent
  <2>4. (Records(t, e) /\ ~ Publishes(t, e))' => ~ signaled'[e] /\ Copies(e)' = {}
    BY <2>1 DEF CallOK, SameCall, SameEvent
  <2>5. Publishes(t, e)' /\ Copies(e)' = {} =>
          signaled'[e] /\ call'[t].work = {} /\ timestamp'[e] = call'[t].rec
    BY <1>1, <2>1 DEF CallOK, SameCall, SameEvent
  <2>. QED BY <2>2, <2>3, <2>4, <2>5 DEF CallOK, Waits
<1>. QED BY <1>3, <1>4, <1>5 DEF OneEvent

(* Only t's call changes, and t has to do with no event but e. *)
LEMMA OtherEvent ==
  ASSUME NEW t \in Threads, \A u \in Threads \ {t} : call'[u] = call[u],
         NEW f, ~ Holds(t, f), ~ Holds(t, f)'
  PROVE  \A u \in Threads : SameCall(u, f)
<1>0. "publish" \in RecordStep BY DEF RecordStep
<1>1. SameCall(t, f) BY <1>0 DEF SameCall, Holds, Records, Publishes, Waits
<1>2. ASSUME NEW u \in Threads \ {t} PROVE SameCall(u, f)
  BY <1>2 DEF SameCall, Records, Publishes, Waits
<1>. QED BY <1>1, <1>2

LEMMA LockMeans == LockHeld <=> \A e \in Events, t \in Threads : mtx[e] = t <=> Holds(t, e)
BY DEF LockHeld, Holds, Records, Waits

LEMMA LockSame ==
  ASSUME LockHeld, mtx' = mtx, NEW t \in Threads,
         \A u \in Threads \ {t} : call'[u] = call[u],
         \A e \in Events : Holds(t, e)' <=> Holds(t, e)
  PROVE  LockHeld'
<1>1. ASSUME NEW u \in Threads, NEW e \in Events PROVE mtx'[e] = u <=> Holds(u, e)'
  <2>1. Holds(u, e)' <=> Holds(u, e) BY DEF Holds, Records, Waits
  <2>. QED BY <2>1, LockMeans
<1>2. (\A e \in Events, u \in Threads : mtx[e] = u <=> Holds(u, e))' BY <1>1
<1>. QED BY <1>2 DEF LockHeld, Holds, Records, Waits

LEMMA LockTaken ==
  ASSUME Typed, LockHeld, NEW e \in Events, NEW t \in Threads, Lock(t, e),
         call[t] = Idle, \A u \in Threads \ {t} : call'[u] = call[u],
         \A f \in Events : Holds(t, f)' <=> f = e
  PROVE  LockHeld' /\ \A u \in Threads : ~ Holds(u, e)
<1>0. NoThread \notin Threads BY EventAssumption
<1>1. \A u \in Threads : ~ Holds(u, e)
  BY <1>0, LockMeans DEF Lock
<1>2. ASSUME NEW u \in Threads, NEW f \in Events PROVE mtx'[f] = u <=> Holds(u, f)'
  <2>1. CASE u = t
    <3>1. ~ Holds(t, f) BY DEF Holds, Records, Waits, Idle, RecordStep
    <3>. QED BY <2>1, <3>1, LockMeans DEF Lock, Typed, TypeOK
  <2>2. CASE u # t
    <3>1. Holds(u, f)' <=> Holds(u, f) BY <2>2 DEF Holds, Records, Waits
    <3>. QED BY <1>1, <2>2, <3>1, LockMeans DEF Lock, Typed, TypeOK
  <2>. QED BY <2>1, <2>2
<1>3. (\A f \in Events, u \in Threads : mtx[f] = u <=> Holds(u, f))' BY <1>2
<1>. QED BY <1>1, <1>3 DEF LockHeld, Holds, Records, Waits

LEMMA LockFreed ==
  ASSUME Typed, LockHeld, NEW e \in Events, NEW t \in Threads, Holds(t, e),
         mtx' = [mtx EXCEPT ![e] = NoThread],
         \A u \in Threads \ {t} : call'[u] = call[u], call'[t] = Idle
  PROVE  LockHeld' /\ \A u \in Threads : Holds(u, e) => u = t
<1>0. NoThread \notin Threads BY EventAssumption
<1>1. \A u \in Threads : Holds(u, e) => u = t BY LockMeans
<1>2. ASSUME NEW u \in Threads, NEW f \in Events PROVE mtx'[f] = u <=> Holds(u, f)'
  <2>1. CASE u = t
    <3>1. ~ Holds(t, f)' BY DEF Holds, Records, Waits, Idle, RecordStep
    <3>2. f # e => ~ Holds(t, f)
      BY DEF Holds, Records, Waits, RecordStep
    <3>. QED BY <1>0, <2>1, <3>1, <3>2, LockMeans DEF Typed, TypeOK
  <2>2. CASE u # t
    <3>1. Holds(u, f)' <=> Holds(u, f) BY <2>2 DEF Holds, Records, Waits
    <3>. QED BY <1>0, <1>1, <2>2, <3>1, LockMeans DEF Typed, TypeOK
  <2>. QED BY <2>1, <2>2
<1>3. (\A f \in Events, u \in Threads : mtx[f] = u <=> Holds(u, f))' BY <1>2
<1>. QED BY <1>1, <1>3 DEF LockHeld, Holds, Records, Waits

(* A step that leaves the device alone keeps what is known of it, unless   *)
(* the call goes on to a command that relies on it.                        *)
LEMMA EventStep ==
  ASSUME Typed, DInv, UNCHANGED deviceVars, NEW t \in Threads, NEW k \in CallState,
         call' = [call EXCEPT ![t] = k], k.at \notin Stamp \cup {"barrier2"},
         k.at \in RecordStep =>
           k.queue \in Uses[t] /\ k.work \subseteq InQueue(k.queue, pending),
         event_status' \in [Events -> {"INIT", "RECORDING", "RECORDED"}],
         signaled' \in [Events -> BOOLEAN], timestamp' \in [Events -> Record],
         mtx' \in [Events -> Threads \cup {NoThread}],
         recs' \in Record, latest' \in [Events -> Record],
         before' \in [Events -> SUBSET { c \in pending : c.kind = "work" }]
  PROVE  Typed' /\ DInv'
<1>1. call' \in [Threads -> CallState] BY DEF Typed
<1>2. call'[t] = k /\ \A u \in Threads \ {t} : call'[u] = call[u] BY DEF Typed
<1>3. \A u \in Threads : call'[u].at # "idle" => call'[u].event \in Events
  BY <1>1 DEF CallState, Idle
<1>4. before' \in [Events -> SUBSET Command] BY DEF Typed, TypeOK
<1>5. TypeOK' BY <1>3, <1>4 DEF Typed, TypeOK, deviceVars
<1>6. \A u \in Threads : call'[u].at \in RecordStep =>
        /\ call'[u].queue \in Uses[u]
        /\ call'[u].work \subseteq InQueue(call'[u].queue, pending)
  BY <1>2 DEF Typed
<1>7. Typed' BY <1>1, <1>5, <1>6 DEF Typed, deviceVars, InQueue, NoStrayWrite
<1>8. Separated'
  <2>1. ASSUME NEW x, NEW p, Sep(x, p) PROVE Sep(x, p)' BY <2>1 DEF Sep, deviceVars
  <2>2. ASSUME NEW u \in Threads, call'[u].at \in Stamp,
               NEW x \in pending, x.queue = call'[u].queue, x.kind # "barrier"
        PROVE  Sep(x, tail[call[u].queue])'
    <3>1. u # t /\ call'[u] = call[u] BY <1>2, <2>2
    <3>2. PICK p : p = tail[call[u].queue] OBVIOUS
    <3>3. Sep(x, p)' BY <2>1, <2>2, <3>1, <3>2 DEF DInv, Separated
    <3>. QED BY <3>1, <3>2, <3>3 DEF deviceVars, Sep
  <2>3. ASSUME NEW x \in pending', NEW y \in pending', x.queue = y.queue,
               x.kind # "barrier", y.kind \in Stamp, x.pos < y.pos
        PROVE  Sep(x, y.pos)'
    BY <2>1, <2>3 DEF DInv, Separated, deviceVars
  <2>. QED BY <2>2, <2>3 DEF Separated, deviceVars
<1>9. Owned'
  <2>1. ASSUME NEW q, NEW r, NEW p, Own(q, r, p) PROVE Own(q, r, p)'
    BY <2>1 DEF Own, deviceVars
  <2>2. ASSUME NEW u \in Threads, call'[u].at \in {"barrier2", "copy"}
        PROVE  Own(call[u].queue, call[u].rec, tail[call[u].queue])'
    <3>1. u # t /\ call'[u] = call[u] BY <1>2, <2>2 DEF Stamp
    <3>2. PICK q, r, p : q = call[u].queue /\ r = call[u].rec /\ p = tail[q] OBVIOUS
    <3>3. Own(q, r, p)' BY <2>1, <2>2, <3>1, <3>2 DEF DInv, Owned
    <3>. QED BY <3>1, <3>2, <3>3 DEF deviceVars, Own
  <2>3. ASSUME NEW c \in pending', c.kind = "copy" PROVE Own(c.queue, c.rec, c.pos)'
    BY <2>1, <2>3 DEF DInv, Owned, deviceVars
  <2>. QED BY <2>2, <2>3 DEF Owned
<1>. QED BY <1>7, <1>8, <1>9 DEF DInv

(* The invariant after a step of t, put together. *)
LEMMA Together ==
  ASSUME Typed', LockHeld', DInv', \A e \in Events : OneEvent(e)'
  PROVE  IInv'
<1>1. (Typed => (EInv <=> \A e \in Events : OneEvent(e)))' BY EventByEvent, PTL
<1>. QED BY <1>1 DEF IInv

(* While nobody holds the mutex of an event nobody records it, and an      *)
(* event that is not being recorded has no copy in a list.                 *)
LEMMA FreeEvent ==
  ASSUME Typed, NEW e \in Events, OneEvent(e), \A u \in Threads : ~ Holds(u, e)
  PROVE  /\ \A u \in Threads : ~ Records(u, e) /\ ~ Publishes(u, e) /\ ~ Waits(u, e)
         /\ event_status[e] # "RECORDING" => Copies(e) = {}
         /\ event_status[e] = "INIT" => ~ signaled[e]
<1>0. "publish" \in RecordStep BY DEF RecordStep
<1>1. \A u \in Threads : ~ Records(u, e) /\ ~ Publishes(u, e) /\ ~ Waits(u, e)
  BY <1>0 DEF Holds, Records, Publishes
<1>2. ASSUME event_status[e] # "RECORDING", NEW c \in Copies(e) PROVE FALSE
  <2>1. c.event = e /\ CopyOf(c) BY DEF OneEvent, CopiesOf, Copies
  <2>. QED BY <1>1, <1>2, <2>1 DEF CopyOf
<1>3. event_status[e] = "INIT" => ~ signaled[e]
  BY <1>1 DEF OneEvent, EventOK
<1>. QED BY <1>1, <1>2, <1>3

LEMMA RecordBeginOK ==
  ASSUME ~ ReRecord, IInv, NEW t \in Threads, NEW e \in Events, NEW q \in Queues,
         RecordBegin(t, e, q)
  PROVE  IInv'
<1>0. /\ Typed /\ LockHeld /\ DInv /\ \A f \in Events : OneEvent(f)
      /\ UNCHANGED deviceVars /\ call[t] = Idle
  BY EventByEvent DEF IInv, RecordBegin, Begin
<1>. DEFINE k == [at |-> "barrier1", event |-> e, queue |-> q, rec |-> recs + 1,
                  work |-> { c \in InQueue(q, pending) : c.kind = "work" }]
<1>1. k \in CallState
  <2>1. recs + 1 \in Record BY <1>0, EventAssumption DEF RecordBegin, Typed, TypeOK, Record
  <2>2. k.work \subseteq Work
    BY <1>0 DEF Typed, TypeOK, Command, Work, InQueue
  <2>. QED BY <2>1, <2>2 DEF CallState, RecordStep
<1>2. /\ k.at = "barrier1" /\ k.event = e /\ k.queue = q
      /\ k.work \subseteq InQueue(k.queue, pending)
  OBVIOUS
<1>3. call' = [call EXCEPT ![t] = k] BY DEF RecordBegin, Begin
<1>. HIDE DEF k
<1>4. call'[t] = k /\ \A u \in Threads \ {t} : call'[u] = call[u]
  BY <1>0, <1>3 DEF Typed
<1>5. \A f \in Events : (Holds(t, f)' <=> f = e) /\ (Records(t, f)' <=> f = e) /\ ~ Publishes(t, f)'
  BY <1>2, <1>4 DEF Holds, Records, Waits, Publishes, RecordStep
<1>6. LockHeld' /\ \A u \in Threads : ~ Holds(u, e)
  BY <1>0, <1>4, <1>5, LockTaken DEF RecordBegin
<1>7. Typed' /\ DInv'
  <2>1. recs' \in Record
    BY <1>0, EventAssumption DEF RecordBegin, Typed, TypeOK, Record
  <2>2. mtx' \in [Events -> Threads \cup {NoThread}]
    BY <1>0 DEF RecordBegin, Lock, Typed, TypeOK
  <2>3. signaled' \in [Events -> BOOLEAN] BY <1>0 DEF RecordBegin, Typed, TypeOK
  <2>4. /\ UNCHANGED <<event_status, timestamp, latest, before>> /\ q \in Uses[t]
    BY DEF RecordBegin
  <2>5. before \in [Events -> SUBSET { c \in pending : c.kind = "work" }]
    BY <1>0 DEF Typed, TypeOK
  <2>. QED BY <1>0, <1>1, <1>2, <1>3, <2>1, <2>2, <2>3, <2>4, <2>5, EventStep
       DEF Typed, TypeOK, Stamp
<1>8. ASSUME NEW f \in Events PROVE OneEvent(f)'
  <2>1. /\ event_status'[f] = event_status[f] /\ timestamp'[f] = timestamp[f]
        /\ latest'[f] = latest[f] /\ before'[f] = before[f] /\ Copies(f)' = Copies(f)
    BY <1>0 DEF RecordBegin, deviceVars, Copies
  <2>2. CASE f # e
    <3>1. SameEvent(f) BY <1>0, <2>1, <2>2 DEF RecordBegin, SameEvent, Typed, TypeOK
    <3>2. ~ Holds(t, f) /\ ~ Holds(t, f)'
      BY <1>0, <1>5, <2>2 DEF Holds, Records, Waits, Idle, RecordStep
    <3>3. \A u \in Threads : SameCall(u, f) BY <1>4, <3>2, OtherEvent
    <3>. QED BY <1>0, <3>1, <3>3, KeepEvent
  <2>3. CASE f = e
    <3>1. event_status[e] # "RECORDING" /\ Copies(e) = {} /\ ~ signaled'[e]
      BY <1>0, <1>6, FreeEvent DEF RecordBegin, Typed, TypeOK
    <3>2. \A u \in Threads : ~ Publishes(u, e)' /\ ~ Waits(u, e)'
      <4>1. \A u \in Threads \ {t} : ~ Publishes(u, e) /\ ~ Waits(u, e)
        BY <1>0, <1>6, FreeEvent
      <4>. QED BY <1>2, <1>4, <1>5, <4>1 DEF Publishes, Waits
    <3>3. \A u \in Threads : ~ Publishes(u, e) BY <1>0, <1>6, FreeEvent
    <3>4. EventOK(e)'
      BY <1>0, <2>1, <2>3, <3>1, <3>2, <3>3 DEF EventOK, OneEvent
    <3>5. CopiesOf(e)' BY <2>1, <2>3, <3>1 DEF CopiesOf
    <3>6. ASSUME NEW u \in Threads PROVE CallOK(u, e)'
      BY <2>1, <2>3, <3>1, <3>2 DEF CallOK, Waits
    <3>. QED BY <2>3, <3>4, <3>5, <3>6 DEF OneEvent
  <2>. QED BY <2>2, <2>3
<1>. QED BY <1>6, <1>7, <1>8, Together

LEMMA RecordPublishOK ==
  ASSUME IInv, NEW t \in Threads, RecordPublish(t)
  PROVE  IInv'
<1>0. /\ Typed /\ LockHeld /\ DInv /\ \A f \in Events : OneEvent(f)
      /\ UNCHANGED <<deviceVars, signaled, timestamp, recs>>
      /\ call[t].at = "publish" /\ call' = [call EXCEPT ![t] = Idle]
  BY EventByEvent DEF IInv, RecordPublish, Return
<1>1. PICK e, r, w : e = call[t].event /\ r = call[t].rec /\ w = call[t].work
  OBVIOUS
<1>2. /\ event_status' = [event_status EXCEPT ![e] = "RECORDING"]
      /\ mtx' = [mtx EXCEPT ![e] = NoThread]
      /\ latest' = [latest EXCEPT ![e] = r] /\ before' = [before EXCEPT ![e] = w]
  BY <1>1 DEF RecordPublish, Unlock
<1>3. /\ e \in Events /\ r \in Record
      /\ w \subseteq { c \in InQueue(call[t].queue, pending) : c.kind = "work" }
  <2>1. call[t] \in RecordCall BY <1>0, Calls DEF RecordStep
  <2>. QED BY <1>0, <1>1, <2>1 DEF RecordCall, Typed, RecordStep, Work
<1>4. call'[t] = Idle /\ \A u \in Threads \ {t} : call'[u] = call[u]
  BY <1>0 DEF Typed
<1>5. Records(t, e) /\ Publishes(t, e) /\ Holds(t, e)
  BY <1>0, <1>1 DEF Records, Publishes, Holds, RecordStep
<1>6. LockHeld' /\ \A u \in Threads : Holds(u, e) => u = t
  BY <1>0, <1>2, <1>3, <1>4, <1>5, LockFreed
<1>7. Typed' /\ DInv'
  <2>1. Idle \in CallState /\ Idle.at = "idle" BY DEF Idle, CallState
  <2>2. /\ mtx' \in [Events -> Threads \cup {NoThread}]
        /\ event_status' \in [Events -> {"INIT", "RECORDING", "RECORDED"}]
        /\ latest' \in [Events -> Record]
    BY <1>0, <1>2, <1>3 DEF Typed, TypeOK
  <2>3. before' \in [Events -> SUBSET { c \in pending : c.kind = "work" }]
    BY <1>0, <1>2, <1>3 DEF Typed, TypeOK, InQueue
  <2>. QED BY <1>0, <2>1, <2>2, <2>3, EventStep DEF Typed, TypeOK, Stamp, RecordStep
<1>8. \A f \in Events : ~ Holds(t, f)' /\ ~ Records(t, f)' /\ ~ Publishes(t, f)'
  BY <1>4 DEF Holds, Records, Waits, Publishes, Idle, RecordStep
<1>9. ASSUME NEW f \in Events PROVE OneEvent(f)'
  <2>1. /\ signaled'[f] = signaled[f] /\ timestamp'[f] = timestamp[f]
        /\ Copies(f)' = Copies(f)
    BY <1>0 DEF deviceVars, Copies
  <2>2. CASE f # e
    <3>1. SameEvent(f) BY <1>0, <1>2, <2>1, <2>2 DEF SameEvent, Typed, TypeOK
    <3>2. ~ Holds(t, f)
      BY <1>0, <1>1, <2>2 DEF Holds, Records, Waits
    <3>3. \A u \in Threads : SameCall(u, f) BY <1>4, <1>8, <3>2, OtherEvent
    <3>. QED BY <1>0, <3>1, <3>3, KeepEvent
  <2>3. CASE f = e
    <3>1. event_status'[e] = "RECORDING" /\ latest'[e] = r /\ before'[e] = w
      BY <1>0, <1>2, <1>3 DEF Typed, TypeOK
    <3>2. \A u \in Threads : ~ Records(u, e)' /\ ~ Publishes(u, e)'
      <4>1. ASSUME NEW u \in Threads \ {t} PROVE ~ Records(u, e)' /\ ~ Publishes(u, e)'
        BY <1>4, <1>6 DEF Holds, Records, Publishes, RecordStep
      <4>. QED BY <1>3, <1>8, <4>1
    <3>3. ASSUME NEW c \in Copies(e) PROVE CopyOf(c)'
      <4>1. c.event = e /\ CopyOf(c)
        BY <1>0, <1>3 DEF OneEvent, CopiesOf, Copies
      <4>2. PICK u \in Threads : /\ Publishes(u, e)
                                 /\ c.rec = call[u].rec /\ c.queue = call[u].queue
                                 /\ \A x \in call[u].work : x.pos < c.pos
        BY <1>5, <4>1 DEF CopyOf
      <4>3. u = t BY <1>6, <4>2 DEF Holds, Records, Publishes, RecordStep
      <4>4. c.rec = r /\ \A x \in w : x.queue = c.queue /\ x.pos < c.pos
        BY <1>1, <1>3, <4>2, <4>3 DEF InQueue
      <4>. QED BY <3>1, <3>2, <4>1, <4>4 DEF CopyOf
    <3>4. CopiesOf(e)'
      BY <1>0, <1>3, <2>1, <2>3, <3>3 DEF CopiesOf, OneEvent
    <3>5. Copies(e) = {} => signaled[e] /\ w = {} /\ timestamp[e] = r
      BY <1>0, <1>1, <1>3, <1>5 DEF OneEvent, CallOK
    <3>6. EventOK(e)' BY <2>1, <2>3, <3>1, <3>5 DEF EventOK
    <3>7. ASSUME NEW u \in Threads PROVE CallOK(u, e)'
      BY <3>1, <3>2 DEF CallOK
    <3>. QED BY <2>3, <3>4, <3>6, <3>7 DEF OneEvent
  <2>. QED BY <2>2, <2>3
<1>. QED BY <1>6, <1>7, <1>9, Together

(* A refused append: no copy was appended, the event is reset. *)
LEMMA RecordErrorOK ==
  ASSUME IInv, NEW t \in Threads, RecordError(t)
  PROVE  IInv'
<1>0. /\ Typed /\ LockHeld /\ DInv /\ \A f \in Events : OneEvent(f)
      /\ UNCHANGED <<deviceVars, event_status, signaled, timestamp, historyVars>>
      /\ call[t].at \in RecordStep /\ call[t].at # "publish"
      /\ call' = [call EXCEPT ![t] = Idle]
  BY EventByEvent DEF IInv, RecordError
<1>1. PICK e : e = call[t].event OBVIOUS
<1>2. mtx' = [mtx EXCEPT ![e] = NoThread] BY <1>1 DEF RecordError, Unlock
<1>3. e \in Events BY <1>0, <1>1, Calls DEF RecordStep
<1>4. call'[t] = Idle /\ \A u \in Threads \ {t} : call'[u] = call[u]
  BY <1>0 DEF Typed
<1>5. Records(t, e) /\ ~ Publishes(t, e) /\ Holds(t, e)
  BY <1>0, <1>1 DEF Records, Publishes, Holds
<1>6. LockHeld' /\ \A u \in Threads : Holds(u, e) => u = t
  BY <1>0, <1>2, <1>3, <1>4, <1>5, LockFreed
<1>7. Typed' /\ DInv'
  <2>1. Idle \in CallState /\ Idle.at = "idle" BY DEF Idle, CallState
  <2>2. mtx' \in [Events -> Threads \cup {NoThread}]
    BY <1>0, <1>2, <1>3 DEF Typed, TypeOK
  <2>3. before' \in [Events -> SUBSET { c \in pending : c.kind = "work" }]
    BY <1>0 DEF Typed, TypeOK, historyVars
  <2>. QED BY <1>0, <2>1, <2>2, <2>3, EventStep
       DEF Typed, TypeOK, Stamp, RecordStep, historyVars
<1>8. \A f \in Events : ~ Holds(t, f)' /\ ~ Records(t, f)' /\ ~ Publishes(t, f)' /\ ~ Waits(t, f)'
  BY <1>4 DEF Holds, Records, Waits, Publishes, Idle, RecordStep
<1>9. ASSUME NEW f \in Events PROVE OneEvent(f)'
  <2>1. SameEvent(f) BY <1>0 DEF deviceVars, Copies, SameEvent, historyVars
  <2>2. CASE f # e
    <3>1. ~ Holds(t, f)
      BY <1>0, <1>1, <2>2 DEF Holds, Records, Waits, RecordStep
    <3>2. \A u \in Threads : SameCall(u, f) BY <1>4, <1>8, <3>1, OtherEvent
    <3>. QED BY <1>0, <2>1, <3>2, KeepEvent
  <2>3. CASE f = e
    <3>1. Copies(e) = {} /\ event_status[e] # "RECORDING" /\ ~ signaled[e]
      BY <1>0, <1>3, <1>5 DEF OneEvent, CallOK
    <3>2. \A u \in Threads : ~ Records(u, e)' /\ ~ Publishes(u, e)' /\ ~ Waits(u, e)'
      <4>1. ASSUME NEW u \in Threads \ {t}
            PROVE  ~ Records(u, e)' /\ ~ Publishes(u, e)' /\ ~ Waits(u, e)'
        BY <1>4, <1>6 DEF Holds, Records, Publishes, Waits, RecordStep
      <4>. QED BY <1>3, <1>8, <4>1
    <3>3. \A u \in Threads : ~ Publishes(u, e)
      BY <1>5, <1>6 DEF Holds, Records, Publishes, RecordStep
    <3>4. EventOK(e)'
      BY <1>0, <1>3, <2>1, <2>3, <3>1, <3>3 DEF EventOK, OneEvent, SameEvent
    <3>5. CopiesOf(e)' BY <2>1, <2>3, <3>1 DEF CopiesOf, SameEvent
    <3>6. ASSUME NEW u \in Threads PROVE CallOK(u, e)'
      BY <3>2 DEF CallOK, Waits
    <3>. QED BY <2>3, <3>4, <3>5, <3>6 DEF OneEvent
  <2>. QED BY <2>2, <2>3
<1>. QED BY <1>6, <1>7, <1>9, Together

(* A call that records nothing, before and after. *)
LEMMA QuietStep ==
  ASSUME IInv, NEW t \in Threads, NEW k \in CallState, k.at \notin RecordStep,
         call' = [call EXCEPT ![t] = k],
         UNCHANGED <<deviceVars, signaled, timestamp, historyVars>>,
         event_status' \in [Events -> {"INIT", "RECORDING", "RECORDED"}],
         mtx' \in [Events -> Threads \cup {NoThread}]
  PROVE  Typed' /\ DInv'
<1>1. k.at \notin Stamp \cup {"barrier2"} BY DEF Stamp, RecordStep
<1>2. before' \in [Events -> SUBSET { c \in pending : c.kind = "work" }]
  BY DEF IInv, Typed, TypeOK, historyVars
<1>. QED BY <1>1, <1>2, EventStep DEF IInv, Typed, TypeOK, historyVars

LEMMA WaitBeginOK ==
  ASSUME IInv, NEW t \in Threads, NEW e \in Events, WaitBegin(t, e)
  PROVE  IInv'
<1>0. /\ Typed /\ LockHeld /\ DInv /\ \A f \in Events : OneEvent(f)
      /\ UNCHANGED <<deviceVars, event_status, signaled, timestamp, historyVars>>
      /\ call[t] = Idle /\ event_status[e] = "RECORDING"
  BY EventByEvent DEF IInv, WaitBegin, Begin
<1>. DEFINE k == [at |-> "wait", event |-> e]
<1>1. k \in CallState /\ k.at = "wait" /\ k.event = e BY DEF CallState
<1>2. call' = [call EXCEPT ![t] = k] BY DEF WaitBegin, Begin
<1>. HIDE DEF k
<1>3. call'[t] = k /\ \A u \in Threads \ {t} : call'[u] = call[u]
  BY <1>0, <1>2 DEF Typed
<1>4. \A f \in Events : (Holds(t, f)' <=> f = e) /\ ~ Records(t, f)' /\ ~ Publishes(t, f)'
                        /\ (Waits(t, f)' <=> f = e)
  BY <1>1, <1>3 DEF Holds, Records, Waits, Publishes, RecordStep
<1>5. LockHeld' /\ \A u \in Threads : ~ Holds(u, e)
  BY <1>0, <1>3, <1>4, LockTaken DEF WaitBegin
<1>6. Typed' /\ DInv'
  <2>1. mtx' \in [Events -> Threads \cup {NoThread}]
    BY <1>0 DEF WaitBegin, Lock, Typed, TypeOK
  <2>2. event_status' \in [Events -> {"INIT", "RECORDING", "RECORDED"}]
    BY <1>0 DEF Typed, TypeOK
  <2>. QED BY <1>0, <1>1, <1>2, <2>1, <2>2, QuietStep DEF RecordStep
<1>7. ASSUME NEW f \in Events PROVE OneEvent(f)'
  <2>0. SameEvent(f) BY <1>0 DEF deviceVars, historyVars, Copies, SameEvent
  <2>1. CASE f # e
    <3>1. ~ Holds(t, f) /\ ~ Holds(t, f)'
      BY <1>0, <1>4, <2>1 DEF Holds, Records, Waits, Idle, RecordStep
    <3>2. \A u \in Threads : SameCall(u, f) BY <1>3, <3>1, OtherEvent
    <3>. QED BY <1>0, <2>0, <3>2, KeepEvent
  <2>2. CASE f = e
    <3>1. \A u \in Threads : ~ Records(u, e) /\ ~ Publishes(u, e) /\ ~ Waits(u, e)
      BY <1>0, <1>5, FreeEvent
    <3>2. \A u \in Threads : ~ Records(u, e)' /\ ~ Publishes(u, e)'
      <4>1. \A u \in Threads \ {t} : ~ Records(u, e)' /\ ~ Publishes(u, e)'
        BY <1>3, <3>1 DEF Records, Publishes
      <4>. QED BY <1>4, <4>1
    <3>3. ASSUME NEW c \in Copies(e) PROVE CopyOf(c)'
      <4>1. c.event = e /\ CopyOf(c) BY <1>0 DEF OneEvent, CopiesOf, Copies
      <4>. QED BY <2>0, <2>2, <3>1, <3>2, <4>1 DEF CopyOf, SameEvent
    <3>4. CopiesOf(e)' BY <1>0, <2>0, <2>2, <3>3 DEF CopiesOf, OneEvent, SameEvent
    <3>5. EventOK(e)'
      BY <1>0, <2>0, <2>2, <3>1, <3>2 DEF EventOK, OneEvent, SameEvent
    <3>6. ASSUME NEW u \in Threads PROVE CallOK(u, e)'
      BY <1>0, <2>0, <2>2, <3>2 DEF CallOK, SameEvent
    <3>. QED BY <2>2, <3>4, <3>5, <3>6 DEF OneEvent
  <2>. QED BY <2>1, <2>2
<1>. QED BY <1>5, <1>6, <1>7, Together

(* A signalled event that nobody records becomes RECORDED. *)
LEMMA FinishEvent ==
  ASSUME NEW e \in Events, OneEvent(e),
         event_status[e] = "RECORDING", signaled[e], event_status'[e] = "RECORDED",
         signaled'[e] = signaled[e], timestamp'[e] = timestamp[e],
         latest'[e] = latest[e], before'[e] = before[e], Copies(e)' = Copies(e),
         \A u \in Threads : ~ Holds(u, e)'
  PROVE  OneEvent(e)'
<1>0. "publish" \in RecordStep BY DEF RecordStep
<1>1. Copies(e) = {} BY DEF OneEvent, CopiesOf
<1>2. before[e] = {} /\ timestamp[e] = latest[e] BY <1>1 DEF OneEvent, EventOK
<1>3. \A u \in Threads : ~ Records(u, e)' /\ ~ Publishes(u, e)' /\ ~ Waits(u, e)'
  BY <1>0 DEF Holds, Records, Publishes, Waits
<1>4. CopiesOf(e)' BY <1>1 DEF CopiesOf
<1>5. EventOK(e)' BY <1>1, <1>2 DEF EventOK
<1>6. \A u \in Threads : CallOK(u, e)' BY <1>3 DEF CallOK, Waits
<1>. QED BY <1>4, <1>5, <1>6 DEF OneEvent

LEMMA WaitEndOK ==
  ASSUME IInv, NEW t \in Threads, WaitEnd(t)
  PROVE  IInv'
<1>0. /\ Typed /\ LockHeld /\ DInv /\ \A f \in Events : OneEvent(f)
      /\ UNCHANGED <<deviceVars, signaled, timestamp, historyVars>>
      /\ call[t].at = "wait" /\ call' = [call EXCEPT ![t] = Idle]
  BY EventByEvent DEF IInv, WaitEnd, Return
<1>1. PICK e : e = call[t].event OBVIOUS
<1>2. /\ event_status' = [event_status EXCEPT ![e] = "RECORDED"] /\ signaled[e]
      /\ mtx' = [mtx EXCEPT ![e] = NoThread]
  BY <1>1 DEF WaitEnd, Unlock
<1>3. e \in Events BY <1>0, <1>1, Calls
<1>4. call'[t] = Idle /\ \A u \in Threads \ {t} : call'[u] = call[u]
  BY <1>0 DEF Typed
<1>5. Holds(t, e) /\ Waits(t, e) BY <1>0, <1>1 DEF Holds, Waits
<1>6. LockHeld' /\ \A u \in Threads : Holds(u, e) => u = t
  BY <1>0, <1>2, <1>3, <1>4, <1>5, LockFreed
<1>7. Typed' /\ DInv'
  <2>1. Idle \in CallState /\ Idle.at = "idle" BY DEF Idle, CallState
  <2>2. /\ mtx' \in [Events -> Threads \cup {NoThread}]
        /\ event_status' \in [Events -> {"INIT", "RECORDING", "RECORDED"}]
    BY <1>0, <1>2, <1>3 DEF Typed, TypeOK
  <2>. QED BY <1>0, <2>1, <2>2, QuietStep DEF RecordStep
<1>8. \A f \in Events : ~ Holds(t, f)'
  BY <1>4 DEF Holds, Records, Waits, Idle, RecordStep
<1>9. ASSUME NEW f \in Events PROVE OneEvent(f)'
  <2>1. /\ signaled'[f] = signaled[f] /\ timestamp'[f] = timestamp[f]
        /\ latest'[f] = latest[f] /\ before'[f] = before[f] /\ Copies(f)' = Copies(f)
    BY <1>0 DEF deviceVars, historyVars, Copies
  <2>2. CASE f # e
    <3>1. SameEvent(f) BY <1>0, <1>2, <2>1, <2>2 DEF SameEvent, Typed, TypeOK
    <3>2. ~ Holds(t, f) BY <1>0, <1>1, <2>2 DEF Holds, Records, Waits, RecordStep
    <3>3. \A u \in Threads : SameCall(u, f) BY <1>4, <1>8, <3>2, OtherEvent
    <3>. QED BY <1>0, <3>1, <3>3, KeepEvent
  <2>3. CASE f = e
    <3>1. event_status[e] = "RECORDING" BY <1>0, <1>3, <1>5 DEF OneEvent, CallOK, Waits
    <3>2. event_status'[e] = "RECORDED" BY <1>0, <1>2, <1>3 DEF Typed, TypeOK
    <3>3. \A u \in Threads : ~ Holds(u, e)'
      <4>1. \A u \in Threads \ {t} : ~ Holds(u, e)'
        BY <1>4, <1>6 DEF Holds, Records, Waits
      <4>. QED BY <1>3, <1>8, <4>1
    <3>. QED BY <1>0, <1>2, <1>3, <2>1, <2>3, <3>1, <3>2, <3>3, FinishEvent
  <2>. QED BY <2>2, <2>3
<1>. QED BY <1>6, <1>7, <1>9, Together

(* A call that takes no mutex, and that may find an event finished. *)
Finish(e) ==
  /\ event_status[e] = "RECORDING" /\ signaled[e] /\ mtx[e] = NoThread
  /\ event_status' = [event_status EXCEPT ![e] = "RECORDED"]

LEMMA QuietCall ==
  ASSUME IInv, NEW t \in Threads, NEW k \in CallState, NEW e \in Events,
         k.at \notin RecordStep \cup {"wait"}, call[t].at \notin RecordStep \cup {"wait"},
         call' = [call EXCEPT ![t] = k],
         UNCHANGED <<deviceVars, signaled, timestamp, mtx, historyVars>>,
         UNCHANGED event_status \/ Finish(e)
  PROVE  IInv'
<1>0. Typed /\ LockHeld /\ DInv /\ \A f \in Events : OneEvent(f)
  BY EventByEvent DEF IInv
<1>1. call'[t] = k /\ \A u \in Threads \ {t} : call'[u] = call[u]
  BY <1>0 DEF Typed
<1>2. \A f \in Events : ~ Holds(t, f) /\ ~ Holds(t, f)'
  BY <1>1 DEF Holds, Records, Waits
<1>3. LockHeld' BY <1>0, <1>1, <1>2, LockSame
<1>4. Typed' /\ DInv'
  <2>1. /\ event_status' \in [Events -> {"INIT", "RECORDING", "RECORDED"}]
        /\ mtx' \in [Events -> Threads \cup {NoThread}]
    BY <1>0 DEF Finish, Typed, TypeOK
  <2>. QED BY <2>1, QuietStep
<1>5. ASSUME NEW f \in Events PROVE OneEvent(f)'
  <2>1. /\ signaled'[f] = signaled[f] /\ timestamp'[f] = timestamp[f]
        /\ latest'[f] = latest[f] /\ before'[f] = before[f] /\ Copies(f)' = Copies(f)
    BY DEF deviceVars, historyVars, Copies
  <2>2. CASE event_status'[f] = event_status[f]
    <3>1. SameEvent(f) BY <2>1, <2>2 DEF SameEvent
    <3>2. \A u \in Threads : SameCall(u, f) BY <1>1, <1>2, OtherEvent
    <3>. QED BY <1>0, <3>1, <3>2, KeepEvent
  <2>3. CASE event_status'[f] # event_status[f]
    <3>1. Finish(e) /\ f = e BY <1>0, <2>3 DEF Finish, Typed, TypeOK
    <3>2. event_status'[f] = "RECORDED" BY <1>0, <3>1 DEF Finish, Typed, TypeOK
    <3>3. \A u \in Threads : ~ Holds(u, f)'
      <4>1. mtx'[f] = NoThread BY <3>1 DEF Finish
      <4>2. \A u \in Threads : mtx'[f] = u <=> Holds(u, f)'
        BY <1>3 DEF LockHeld, Holds, Records, Waits
      <4>. QED BY <4>1, <4>2, EventAssumption
    <3>. QED BY <1>0, <2>1, <3>1, <3>2, <3>3, FinishEvent DEF Finish
  <2>. QED BY <2>2, <2>3
<1>. QED BY <1>3, <1>4, <1>5, Together

LEMMA IdleCall == Idle \in CallState /\ Idle.at = "idle" BY DEF Idle, CallState

LEMMA PollBeginOK ==
  ASSUME IInv, NEW t \in Threads, NEW e \in Events, PollBegin(t, e)
  PROVE  IInv'
<1>. DEFINE k == [at |-> "poll", event |-> e]
<1>1. k \in CallState /\ k.at = "poll" BY DEF CallState
<1>2. call' = [call EXCEPT ![t] = k] /\ call[t] = Idle BY DEF PollBegin, Begin
<1>3. UNCHANGED <<deviceVars, signaled, timestamp, mtx, historyVars, event_status>>
  BY DEF PollBegin, eventVars
<1>. HIDE DEF k
<1>. QED BY <1>1, <1>2, <1>3, IdleCall, QuietCall DEF RecordStep

LEMMA ElapsedBeginOK ==
  ASSUME IInv, NEW t \in Threads, NEW e \in Events, NEW f \in Events, ElapsedBegin(t, e, f)
  PROVE  IInv'
<1>. DEFINE k == [at |-> "update1", event |-> e, other |-> f]
<1>1. k \in CallState /\ k.at = "update1" BY DEF CallState
<1>2. call' = [call EXCEPT ![t] = k] /\ call[t] = Idle BY DEF ElapsedBegin, Begin
<1>3. UNCHANGED <<deviceVars, signaled, timestamp, mtx, historyVars, event_status>>
  BY DEF ElapsedBegin, eventVars
<1>. HIDE DEF k
<1>. QED BY <1>1, <1>2, <1>3, IdleCall, QuietCall DEF RecordStep

LEMMA HipEventQueryOK ==
  ASSUME IInv, NEW t \in Threads, HipEventQuery(t)
  PROVE  IInv'
<1>. DEFINE k == IF isFinished(call[t].event) THEN Idle ELSE call[t]
<1>1. /\ call[t].at = "poll"
      /\ UNCHANGED <<deviceVars, signaled, timestamp, mtx, historyVars, event_status>>
      /\ call' = [call EXCEPT ![t] = k]
  BY DEF HipEventQuery, eventVars
<1>2. k \in CallState /\ k.at \notin RecordStep \cup {"wait"}
  BY <1>1, IdleCall DEF IInv, Typed, RecordStep
<1>3. call[t].event \in Events BY <1>1, Calls DEF IInv
<1>. HIDE DEF k
<1>4. PICK e \in Events : TRUE BY <1>3
<1>5. PICK m : m = k OBVIOUS
<1>. QED BY <1>1, <1>2, <1>4, <1>5, QuietCall DEF RecordStep

LEMMA UpdateFinishStatusOK ==
  ASSUME IInv, NEW t \in Threads, call[t].at \in {"update1", "update2"},
         NEW e \in Events, NEW next \in CallState, next.at \in {"idle", "update2"},
         UpdateFinishStatus(t, e, next)
  PROVE  IInv'
<1>0. /\ UNCHANGED <<deviceVars, signaled, timestamp, mtx, historyVars>>
      /\ mtx[e] = NoThread
  BY DEF UpdateFinishStatus
<1>1. CASE event_status[e] = "RECORDING" /\ ~ signaled[e]
  <2>1. call' = [call EXCEPT ![t] = Idle] /\ UNCHANGED event_status
    BY <1>1 DEF UpdateFinishStatus
  <2>. QED BY <1>0, <2>1, IdleCall, QuietCall DEF RecordStep
<1>2. CASE ~ (event_status[e] = "RECORDING" /\ ~ signaled[e])
  <2>1. call' = [call EXCEPT ![t] = next] BY <1>2 DEF UpdateFinishStatus
  <2>2. UNCHANGED event_status \/ Finish(e)
    <3>1. CASE event_status[e] = "RECORDING"
      <4>1. event_status' = [event_status EXCEPT ![e] = "RECORDED"]
        BY <1>2, <3>1 DEF UpdateFinishStatus
      <4>. QED BY <1>0, <1>2, <3>1, <4>1 DEF Finish
    <3>2. CASE event_status[e] # "RECORDING"
      <4>1. event_status' = [event_status EXCEPT ![e] = event_status[e]]
        BY <1>2, <3>2 DEF UpdateFinishStatus
      <4>. QED BY <4>1 DEF IInv, Typed, TypeOK
    <3>. QED BY <3>1, <3>2
  <2>. QED BY <1>0, <2>1, <2>2, QuietCall DEF RecordStep
<1>. QED BY <1>1, <1>2

LEMMA ElapsedTimeOK ==
  ASSUME IInv, NEW t \in Threads, ElapsedTime(t)
  PROVE  IInv'
<1>1. CASE /\ call[t].at = "update1"
           /\ UpdateFinishStatus(t, call[t].event, [call[t] EXCEPT !.at = "update2"])
  <2>1. /\ call[t].event \in Events
        /\ call[t] \in [at : {"update1", "update2"}, event : Events, other : Events]
    <3>1. call[t] \in CallState BY DEF IInv, Typed
    <3>. QED BY <1>1, <3>1 DEF CallState, Idle, RecordStep
  <2>2. PICK e, n : e = call[t].event /\ n = [call[t] EXCEPT !.at = "update2"]
    OBVIOUS
  <2>3. n \in CallState /\ n.at = "update2" BY <2>1, <2>2 DEF CallState
  <2>4. UpdateFinishStatus(t, e, n) BY <1>1, <2>2
  <2>. QED BY <1>1, <2>1, <2>2, <2>3, <2>4, UpdateFinishStatusOK
<1>2. CASE /\ call[t].at = "update2"
           /\ UpdateFinishStatus(t, call[t].other, Idle)
  <2>1. call[t].other \in Events BY <1>2, Calls DEF IInv
  <2>2. PICK e : e = call[t].other OBVIOUS
  <2>. QED BY <1>2, <2>1, <2>2, IdleCall, UpdateFinishStatusOK
<1>. QED BY <1>1, <1>2 DEF ElapsedTime

-----------------------------------------------------------------------------
(* Appending a command: t is the only one that appends to q, so what is in *)
(* front of the command is what t's earlier steps put there.               *)

LEMMA SepMore ==
  ASSUME NEW x, NEW p, Sep(x, p), pending \subseteq pending'
  PROVE  Sep(x, p)'
BY DEF Sep

LEMMA OwnMore ==
  ASSUME NEW q, NEW r, NEW p, Own(q, r, p), NEW k, pending' = pending \cup {k},
         shared_buf' = shared_buf, ~ (k.kind = "write" /\ k.queue = q /\ k.pos < p)
  PROVE  Own(q, r, p)'
<1>1. \A w \in pending' : w.kind = "write" /\ w.queue = q /\ w.pos < p => w \in pending
  OBVIOUS
<1>. QED BY <1>1 DEF Own

LEMMA EnqueueDevice ==
  ASSUME Typed, DInv, OneUser, NEW t \in Threads, NEW k \in Command, NEW m \in CallState,
         k.queue \in Uses[t], k.pos = tail[k.queue], k.kind # "orphan", Enqueue(k),
         call' = [call EXCEPT ![t] = m], UNCHANGED <<shared_buf, eventVars, historyVars>>,
         m.at \in RecordStep =>
           m.queue \in Uses[t] /\ m.work \subseteq InQueue(m.queue, pending),
         k.kind \in Stamp => call[t].at \in Stamp /\ call[t].queue = k.queue,
         m.at \in Stamp => k.kind = "barrier" /\ m.queue = k.queue,
         k.kind = "copy" => call[t].at = "copy" /\ call[t].rec = k.rec,
         m.at \in {"barrier2", "copy"} =>
           /\ m.queue = k.queue
           /\ \/ k.kind = "write" /\ k.rec = m.rec
              \/ /\ k.kind = "barrier" /\ call[t].at = "barrier2"
                 /\ call[t].queue = k.queue /\ call[t].rec = m.rec
  PROVE  Typed' /\ DInv'
<1>1. PICK q, n : q = k.queue /\ n = tail[q] OBVIOUS
<1>2. /\ q \in Queues /\ n \in Nat /\ pending' = pending \cup {k} /\ k.pos = n
      /\ tail' = [tail EXCEPT ![q] = n + 1] /\ shared_buf' = shared_buf
  BY <1>1 DEF Typed, TypeOK, Enqueue, Command
<1>3. /\ \A c \in pending : c.queue = q => c.pos < n
      /\ \A c \in pending : c.pos \in Nat /\ c.queue \in Queues
      /\ tail'[q] = n + 1 /\ \A p \in Queues : p # q => tail'[p] = tail[p]
  BY <1>1, <1>2 DEF Typed, TypeOK, Command
<1>4. call'[t] = m /\ \A u \in Threads \ {t} : call'[u] = call[u]
  BY DEF Typed
<1>5. Typed'
  <2>1. call' \in [Threads -> CallState] BY DEF Typed
  <2>2. \A u \in Threads : call'[u].at # "idle" => call'[u].event \in Events
    BY <2>1 DEF CallState, Idle
  <2>3. TypeOK'
    BY <1>2, <2>2 DEF Typed, TypeOK, eventVars, historyVars
  <2>4. \A c \in pending' : c.pos < tail'[c.queue] BY <1>1, <1>2, <1>3 DEF Typed
  <2>5. \A c, d \in pending' : c.queue = d.queue /\ c.pos = d.pos => c = d
    BY <1>1, <1>2, <1>3 DEF Typed
  <2>6. \A u \in Threads : call'[u].at \in RecordStep =>
          /\ call'[u].queue \in Uses[u]
          /\ call'[u].work \subseteq InQueue(call'[u].queue, pending')
    BY <1>2, <1>4 DEF Typed, InQueue
  <2>7. \A e \in Events : before'[e] \subseteq { c \in pending' : c.kind = "work" }
    BY <1>2 DEF Typed, historyVars
  <2>8. NoStrayWrite' BY <1>2 DEF Typed, NoStrayWrite
  <2>. QED BY <2>1, <2>3, <2>4, <2>5, <2>6, <2>7, <2>8 DEF Typed
<1>6. \A u \in Threads \ {t} : call[u].at \in RecordStep => call[u].queue # q
  BY <1>1 DEF OneUser, Typed
<1>7. Separated'
  <2>1. ASSUME NEW x \in pending', NEW y \in pending', x.queue = y.queue,
               x.kind # "barrier", y.kind \in Stamp, x.pos < y.pos
        PROVE  Sep(x, y.pos)'
    <3>1. CASE y # k
      <4>1. x # k /\ x \in pending /\ y \in pending
        BY <1>1, <1>2, <1>3, <2>1, <3>1
      <4>2. Sep(x, y.pos) BY <2>1, <4>1 DEF DInv, Separated
      <4>. QED BY <1>2, <4>2, SepMore
    <3>2. CASE y = k
      <4>1. x \in pending BY <1>2, <2>1, <3>2
      <4>2. Sep(x, n) BY <1>1, <2>1, <3>2, <4>1 DEF DInv, Separated
      <4>. QED BY <1>2, <3>2, <4>2, SepMore
    <3>. QED BY <3>1, <3>2
  <2>2. ASSUME NEW u \in Threads, call'[u].at \in Stamp, NEW p, NEW z,
               p = call'[u].queue, z = tail'[p],
               NEW x \in pending', x.queue = p, x.kind # "barrier"
        PROVE  Sep(x, z)'
    <3>1. CASE u = t
      <4>1. k.kind = "barrier" /\ p = q /\ z = n + 1
        BY <1>1, <1>3, <1>4, <2>2, <3>1
      <4>2. x \in pending /\ x.pos < n BY <1>2, <1>3, <2>2, <4>1
      <4>. QED BY <1>1, <1>2, <1>3, <2>2, <4>1, <4>2 DEF Sep
    <3>2. CASE u # t
      <4>1. call'[u] = call[u] /\ p # q
        BY <1>4, <1>6, <2>2, <3>2 DEF Stamp, RecordStep
      <4>2. x \in pending /\ p \in Queues BY <1>1, <1>2, <1>3, <2>2, <4>1
      <4>3. z = tail[p] BY <1>3, <2>2, <4>1, <4>2
      <4>4. Sep(x, z) BY <2>2, <4>1, <4>2, <4>3 DEF DInv, Separated
      <4>. QED BY <1>2, <4>4, SepMore
    <3>. QED BY <3>1, <3>2
  <2>3. ASSUME NEW u \in Threads, call'[u].at \in Stamp,
               NEW x \in pending', x.queue = call'[u].queue, x.kind # "barrier"
        PROVE  Sep(x, tail[call[u].queue])'
    <3>1. PICK p, z : p = call'[u].queue /\ z = tail'[p] OBVIOUS
    <3>2. Sep(x, z)' BY <2>2, <2>3, <3>1
    <3>. QED BY <3>1, <3>2 DEF Sep
  <2>. QED BY <2>1, <2>3 DEF Separated
<1>8. Owned'
  <2>1. ASSUME NEW c \in pending', c.kind = "copy" PROVE Own(c.queue, c.rec, c.pos)'
    <3>1. CASE c # k
      <4>1. c \in pending BY <1>2, <3>1
      <4>2. Own(c.queue, c.rec, c.pos) BY <2>1, <4>1 DEF DInv, Owned
      <4>3. ~ (k.kind = "write" /\ k.queue = c.queue /\ k.pos < c.pos)
        BY <1>1, <1>2, <1>3, <4>1
      <4>. QED BY <1>2, <4>2, <4>3, OwnMore
    <3>2. CASE c = k
      <4>1. Own(q, c.rec, n) BY <1>1, <2>1, <3>2 DEF DInv, Owned, Stamp
      <4>2. k.kind # "write" BY <2>1, <3>2
      <4>. QED BY <1>1, <1>2, <3>2, <4>1, <4>2, OwnMore
    <3>. QED BY <3>1, <3>2
  <2>2. ASSUME NEW u \in Threads, call'[u].at \in {"barrier2", "copy"}, NEW p, NEW r, NEW z,
               p = call'[u].queue, r = call'[u].rec, z = tail'[p]
        PROVE  Own(p, r, z)'
    <3>1. CASE u = t
      <4>1. p = q /\ z = n + 1 /\ m.rec = r /\ m.at \in {"barrier2", "copy"}
        BY <1>1, <1>3, <1>4, <2>2, <3>1
      <4>2. CASE k.kind = "write" /\ k.rec = r
        <5>1. \A w \in pending' : w.rec # r => w # k BY <4>2
        <5>. QED BY <1>1, <1>2, <1>3, <4>1, <4>2, <5>1 DEF Own
      <4>3. CASE /\ k.kind = "barrier" /\ call[t].at = "barrier2"
                 /\ call[t].queue = q /\ call[t].rec = r
        <5>1. Own(q, r, n) BY <1>1, <4>3 DEF DInv, Owned
        <5>2. \A w \in pending' : w.kind = "write" /\ w.queue = q => w \in pending /\ w.pos < n
          BY <1>2, <1>3, <4>3
        <5>3. \A v \in pending : v.pos \in Nat BY <1>3
        <5>. QED BY <1>2, <4>1, <5>1, <5>2, <5>3 DEF Own
      <4>. QED BY <1>1, <4>1, <4>2, <4>3
    <3>2. CASE u # t
      <4>1. call'[u] = call[u] /\ p # q
        BY <1>4, <1>6, <2>2, <3>2 DEF RecordStep
      <4>2. call[u] \in RecordCall BY <2>2, <4>1, Calls DEF RecordStep
      <4>3. p \in Queues BY <2>2, <4>1, <4>2 DEF RecordCall
      <4>4. z = tail[p] BY <1>3, <2>2, <4>1, <4>3
      <4>5. Own(p, r, z) BY <2>2, <4>1, <4>4 DEF DInv, Owned
      <4>. QED BY <1>1, <1>2, <4>1, <4>5, OwnMore
    <3>. QED BY <3>1, <3>2
  <2>3. ASSUME NEW u \in Threads, call'[u].at \in {"barrier2", "copy"}
        PROVE  Own(call[u].queue, call[u].rec, tail[call[u].queue])'
    <3>1. PICK p, r, z : p = call'[u].queue /\ r = call'[u].rec /\ z = tail'[p] OBVIOUS
    <3>2. Own(p, r, z)' BY <2>2, <2>3, <3>1
    <3>. QED BY <3>1, <3>2 DEF Own
  <2>. QED BY <2>1, <2>3 DEF Owned
<1>. QED BY <1>5, <1>7, <1>8 DEF DInv

(* The copies of an event after a command was appended. *)
LEMMA CopiesAfter ==
  ASSUME NEW k, Enqueue(k), NEW e
  PROVE  Copies(e)' = IF k.kind = "copy" /\ k.event = e THEN Copies(e) \cup {k} ELSE Copies(e)
BY DEF Enqueue, Copies

LEMMA SubmitOK ==
  ASSUME OneUser, IInv, NEW t \in Threads, NEW q \in Queues, Submit(t, q)
  PROVE  IInv'
<1>. DEFINE k == [queue |-> q, pos |-> tail[q], kind |-> "work"]
<1>0. /\ Typed /\ LockHeld /\ DInv /\ \A f \in Events : OneEvent(f)
      /\ call[t] = Idle /\ q \in Uses[t] /\ Enqueue(k)
      /\ UNCHANGED <<shared_buf, eventVars, call, historyVars>>
  BY EventByEvent DEF IInv, Submit
<1>1. k \in Command BY <1>0 DEF Typed, TypeOK, Command
<1>2. k.kind = "work" /\ k.queue = q /\ k.pos = tail[k.queue] OBVIOUS
<1>. HIDE DEF k
<1>3. call' = [call EXCEPT ![t] = Idle] BY <1>0 DEF Typed
<1>4. Typed' /\ DInv'
  BY <1>0, <1>1, <1>2, <1>3, IdleCall, EnqueueDevice DEF Stamp, RecordStep
<1>5. LockHeld' BY <1>0 DEF LockHeld, eventVars
<1>6. ASSUME NEW e \in Events PROVE OneEvent(e)'
  <2>1. Copies(e)' = Copies(e) BY <1>0, <1>2, CopiesAfter
  <2>2. SameEvent(e) BY <1>0, <2>1 DEF SameEvent, eventVars, historyVars
  <2>3. \A u \in Threads : SameCall(u, e)
    BY <1>0 DEF SameCall, Records, Publishes, Waits
  <2>. QED BY <1>0, <2>2, <2>3, KeepEvent
<1>. QED BY <1>4, <1>5, <1>6, Together

(* The call of t goes on to its next append. *)
GoesOn(t, m, to) ==
  /\ call' = [call EXCEPT ![t] = m] /\ m.at = to
  /\ m.event = call[t].event /\ m.queue = call[t].queue
  /\ m.rec = call[t].rec /\ m.work = call[t].work
  /\ m.queue \in Uses[t] /\ m.queue \in Queues /\ m.event \in Events
  /\ m.rec \in Record /\ m.work \subseteq InQueue(m.queue, pending)
  /\ call'[t] = m /\ \A u \in Threads \ {t} : call'[u] = call[u]

LEMMA NextAppend ==
  ASSUME IInv, NEW t \in Threads, call[t].at \in RecordStep, NEW to \in RecordStep,
         call' = [call EXCEPT ![t].at = to], UNCHANGED mtx
  PROVE  LockHeld' /\ \E m \in CallState : GoesOn(t, m, to)
<1>1. call[t] \in RecordCall BY Calls DEF IInv
<1>2. PICK m : m = [call[t] EXCEPT !.at = to] OBVIOUS
<1>3. m \in RecordCall /\ m.at = to BY <1>1, <1>2 DEF RecordCall
<1>4. /\ m \in CallState /\ m.event = call[t].event /\ m.queue = call[t].queue
      /\ m.rec = call[t].rec /\ m.work = call[t].work
  BY <1>1, <1>2, <1>3 DEF RecordCall, CallState
<1>5. call' = [call EXCEPT ![t] = m] BY <1>2
<1>6. call'[t] = m /\ \A u \in Threads \ {t} : call'[u] = call[u]
  BY <1>5 DEF IInv, Typed
<1>7. /\ m.queue \in Uses[t] /\ m.queue \in Queues /\ m.event \in Events
      /\ m.rec \in Record /\ m.work \subseteq InQueue(m.queue, pending)
  BY <1>3, <1>4 DEF IInv, Typed, RecordCall
<1>8. \A e \in Events : Holds(t, e)' <=> Holds(t, e)
  BY <1>3, <1>4, <1>6 DEF Holds, Records, Waits, RecordStep
<1>9. LockHeld' BY <1>6, <1>8, LockSame DEF IInv
<1>10. GoesOn(t, m, to) BY <1>3, <1>4, <1>5, <1>6, <1>7 DEF GoesOn
<1>. QED BY <1>4, <1>9, <1>10

(* The events do not notice an append that is not the copy. *)
LEMMA AppendEvents ==
  ASSUME IInv, NEW t \in Threads, NEW k, Enqueue(k), k.kind # "copy",
         call[t].at \in RecordStep \ {"publish"},
         call'[t].at \in RecordStep \ {"publish"},
         call'[t].event = call[t].event, call'[t].queue = call[t].queue,
         call'[t].rec = call[t].rec, call'[t].work = call[t].work,
         \A u \in Threads \ {t} : call'[u] = call[u],
         UNCHANGED <<shared_buf, eventVars, historyVars>>
  PROVE  \A e \in Events : OneEvent(e)'
<1>1. ASSUME NEW e \in Events PROVE OneEvent(e)'
  <2>1. OneEvent(e) BY EventByEvent DEF IInv
  <2>2. SameEvent(e) BY CopiesAfter DEF SameEvent, eventVars, historyVars
  <2>3. SameCall(t, e) BY DEF SameCall, Records, Publishes, Waits, RecordStep
  <2>4. ASSUME NEW u \in Threads \ {t} PROVE SameCall(u, e)
    BY DEF SameCall, Records, Publishes, Waits
  <2>. QED BY <2>1, <2>2, <2>3, <2>4, KeepEvent
<1>. QED BY <1>1

LEMMA RecordBarrierOK ==
  ASSUME OneUser, IInv, NEW t \in Threads, NEW from, NEW to,
         \/ from = "barrier1" /\ to = "write"
         \/ from = "barrier2" /\ to = "copy",
         RecordBarrier(t, from, to)
  PROVE  IInv'
<1>0. /\ call[t].at = from /\ call' = [call EXCEPT ![t].at = to]
      /\ UNCHANGED <<shared_buf, eventVars, historyVars>>
  BY DEF RecordBarrier, Advance
<1>1. /\ from \in RecordStep /\ to \in RecordStep /\ from # "publish" /\ to # "publish"
      /\ to \in Stamp /\ (to = "copy" => from = "barrier2")
  BY DEF RecordStep, Stamp
<1>2. UNCHANGED mtx BY <1>0 DEF eventVars
<1>3. LockHeld' /\ \E m \in CallState : GoesOn(t, m, to)
  BY <1>0, <1>1, <1>2, NextAppend
<1>4. PICK m \in CallState : GoesOn(t, m, to) BY <1>3
<1>. DEFINE k == [queue |-> m.queue, pos |-> tail[m.queue], kind |-> "barrier"]
<1>5. Enqueue(k) BY <1>4 DEF RecordBarrier, GoesOn
<1>6. k \in Command /\ k.kind = "barrier" /\ k.queue = m.queue /\ k.pos = tail[k.queue]
  BY <1>4 DEF GoesOn, IInv, Typed, TypeOK, Command
<1>. HIDE DEF k
<1>7. Typed' /\ DInv'
  <2>1. /\ k.kind \notin Stamp /\ m.at # "barrier2" /\ k.kind # "copy"
        /\ k.queue \in Uses[t] /\ call' = [call EXCEPT ![t] = m]
        /\ m.queue \in Uses[t] /\ m.work \subseteq InQueue(m.queue, pending)
    BY <1>1, <1>4, <1>6 DEF GoesOn, Stamp
  <2>2. m.at \in {"barrier2", "copy"} =>
          /\ m.queue = k.queue /\ k.kind = "barrier" /\ call[t].at = "barrier2"
          /\ call[t].queue = k.queue /\ call[t].rec = m.rec
    BY <1>0, <1>1, <1>4, <1>6, <2>1 DEF GoesOn
  <2>. QED BY <1>0, <1>5, <1>6, <2>1, <2>2, EnqueueDevice DEF IInv
<1>8. \A e \in Events : OneEvent(e)'
  <2>1. /\ call[t].at \in RecordStep \ {"publish"} /\ call'[t].at \in RecordStep \ {"publish"}
        /\ call'[t].event = call[t].event /\ call'[t].queue = call[t].queue
        /\ call'[t].rec = call[t].rec /\ call'[t].work = call[t].work
        /\ \A u \in Threads \ {t} : call'[u] = call[u]
    BY <1>0, <1>1, <1>4 DEF GoesOn
  <2>. QED BY <1>0, <1>5, <1>6, <2>1, AppendEvents
<1>. QED BY <1>3, <1>7, <1>8, Together

LEMMA RecordWriteOK ==
  ASSUME OneUser, IInv, NEW t \in Threads, RecordTimestamp(t, "write", "barrier2")
  PROVE  IInv'
<1>0. /\ call[t].at = "write" /\ call' = [call EXCEPT ![t].at = "barrier2"]
      /\ UNCHANGED <<shared_buf, eventVars, historyVars>>
  BY DEF RecordTimestamp, Advance
<1>1. "write" \in RecordStep /\ "barrier2" \in RecordStep /\ "write" \in Stamp /\ "barrier2" \notin Stamp
  BY DEF RecordStep, Stamp
<1>2. UNCHANGED mtx BY <1>0 DEF eventVars
<1>3. LockHeld' /\ \E m \in CallState : GoesOn(t, m, "barrier2")
  BY <1>0, <1>1, <1>2, NextAppend
<1>4. PICK m \in CallState : GoesOn(t, m, "barrier2") BY <1>3
<1>. DEFINE k == [queue |-> m.queue, pos |-> tail[m.queue], kind |-> "write",
                  event |-> m.event, rec |-> m.rec]
<1>5. Enqueue(k) BY <1>4 DEF RecordTimestamp, GoesOn
<1>6. /\ k \in Command /\ k.kind = "write" /\ k.queue = m.queue /\ k.pos = tail[k.queue]
      /\ k.rec = m.rec
  BY <1>4 DEF GoesOn, IInv, Typed, TypeOK, Command
<1>. HIDE DEF k
<1>7. Typed' /\ DInv'
  <2>1. /\ m.at \notin Stamp /\ k.kind # "copy" /\ call[t].at \in Stamp
        /\ call[t].queue = k.queue
        /\ k.queue \in Uses[t] /\ call' = [call EXCEPT ![t] = m]
        /\ m.queue \in Uses[t] /\ m.work \subseteq InQueue(m.queue, pending)
    BY <1>0, <1>1, <1>4, <1>6 DEF GoesOn
  <2>. QED BY <1>0, <1>5, <1>6, <2>1, EnqueueDevice DEF IInv
<1>8. \A e \in Events : OneEvent(e)'
  <2>1. /\ call[t].at \in RecordStep \ {"publish"} /\ call'[t].at \in RecordStep \ {"publish"}
        /\ call'[t].event = call[t].event /\ call'[t].queue = call[t].queue
        /\ call'[t].rec = call[t].rec /\ call'[t].work = call[t].work
        /\ \A u \in Threads \ {t} : call'[u] = call[u]
    BY <1>0, <1>1, <1>4 DEF GoesOn
  <2>. QED BY <1>0, <1>5, <1>6, <2>1, AppendEvents
<1>. QED BY <1>3, <1>7, <1>8, Together

(* The copy: the event has none yet, and all its recording's work is in    *)
(* front of it.                                                            *)
LEMMA RecordCopyOK ==
  ASSUME OneUser, IInv, NEW t \in Threads, RecordTimestamp(t, "copy", "publish")
  PROVE  IInv'
<1>0. /\ call[t].at = "copy" /\ call' = [call EXCEPT ![t].at = "publish"]
      /\ UNCHANGED <<shared_buf, eventVars, historyVars>>
      /\ \A f \in Events : OneEvent(f)
  BY EventByEvent DEF RecordTimestamp, Advance, IInv
<1>1. "copy" \in RecordStep /\ "publish" \in RecordStep /\ "copy" \in Stamp /\ "publish" \notin Stamp
  BY DEF RecordStep, Stamp
<1>2. UNCHANGED mtx BY <1>0 DEF eventVars
<1>3. LockHeld' /\ \E m \in CallState : GoesOn(t, m, "publish")
  BY <1>0, <1>1, <1>2, NextAppend
<1>4. PICK m \in CallState : GoesOn(t, m, "publish") BY <1>3
<1>. PICK k : k = [queue |-> m.queue, pos |-> tail[m.queue], kind |-> "copy",
                   event |-> m.event, rec |-> m.rec]
  OBVIOUS
<1>5. Enqueue(k) BY <1>4 DEF RecordTimestamp, GoesOn
<1>6. /\ k \in Command /\ k.kind = "copy" /\ k.queue = m.queue /\ k.pos = tail[k.queue]
      /\ k.rec = m.rec /\ k.event = m.event
  BY <1>4 DEF GoesOn, IInv, Typed, TypeOK, Command
<1>7. Typed' /\ DInv'
  <2>1. /\ m.at \notin Stamp /\ m.at \notin {"barrier2", "copy"}
        /\ call[t].at \in Stamp /\ call[t].queue = k.queue /\ call[t].rec = k.rec
        /\ k.queue \in Uses[t] /\ call' = [call EXCEPT ![t] = m]
        /\ m.queue \in Uses[t] /\ m.work \subseteq InQueue(m.queue, pending)
    BY <1>0, <1>1, <1>4, <1>6 DEF GoesOn
  <2>. QED BY <1>0, <1>5, <1>6, <2>1, EnqueueDevice DEF IInv
<1>8. PICK e \in Events : e = m.event BY <1>4 DEF GoesOn
<1>9. /\ call'[t].at = "publish" /\ call'[t].event = e /\ call[t].event = e
      /\ call'[t].rec = k.rec /\ call'[t].queue = k.queue /\ call'[t].work = m.work
      /\ \A u \in Threads \ {t} : call'[u] = call[u]
  BY <1>4, <1>6, <1>8 DEF GoesOn
<1>10. \A f \in Events :
         /\ event_status'[f] = event_status[f] /\ signaled'[f] = signaled[f]
         /\ timestamp'[f] = timestamp[f] /\ latest'[f] = latest[f] /\ before'[f] = before[f]
  BY <1>0 DEF eventVars, historyVars
<1>11. ASSUME NEW f \in Events, f # e PROVE OneEvent(f)'
  <2>1. SameEvent(f)
    BY <1>5, <1>6, <1>8, <1>10, <1>11, CopiesAfter DEF SameEvent
  <2>2. ~ Holds(t, f) /\ ~ Holds(t, f)'
    BY <1>9, <1>11 DEF Holds, Records, Waits
  <2>3. \A u \in Threads : SameCall(u, f) BY <1>9, <2>2, OtherEvent
  <2>. QED BY <1>0, <2>1, <2>3, KeepEvent
<1>12. OneEvent(e)'
  <2>1. Records(t, e) /\ ~ Publishes(t, e)
    BY <1>0, <1>1, <1>9 DEF Records, Publishes
  <2>2. event_status[e] # "RECORDING" /\ ~ signaled[e] /\ Copies(e) = {}
    BY <1>0, <2>1 DEF OneEvent, CallOK
  <2>3. Copies(e)' = {k} BY <1>5, <1>6, <1>8, <2>2, CopiesAfter
  <2>4. Publishes(t, e)' /\ Records(t, e)' BY <1>1, <1>9 DEF Publishes, Records
  <2>5. \A x \in m.work : x.pos < k.pos
    <3>1. m.work \subseteq InQueue(k.queue, pending) BY <1>4, <1>6 DEF GoesOn
    <3>. QED BY <1>6, <3>1 DEF IInv, Typed, InQueue
  <2>6. CopyOf(k)'
    BY <1>6, <1>8, <1>9, <2>4, <2>5 DEF CopyOf
  <2>7. CopiesOf(e)' BY <1>6, <1>8, <1>10, <2>2, <2>3, <2>6 DEF CopiesOf
  <2>8. EventOK(e)' BY <1>10, <2>2, <2>4 DEF EventOK
  <2>9. ASSUME NEW u \in Threads PROVE CallOK(u, e)'
    <3>1. CASE u = t
      <4>1. ~ Waits(t, e)' BY <1>9 DEF Waits
      <4>. QED BY <1>10, <2>2, <2>3, <2>4, <3>1, <4>1 DEF CallOK, Waits
    <3>2. CASE u # t
      <4>1. ~ Holds(u, e)
        <5>1. Holds(t, e) BY <2>1 DEF Holds
        <5>. QED BY <3>2, <5>1, LockMeans DEF IInv
      <4>2. ~ Records(u, e)' /\ ~ Publishes(u, e)' /\ ~ Waits(u, e)'
        BY <1>1, <1>9, <3>2, <4>1 DEF Holds, Records, Publishes, Waits
      <4>. QED BY <4>2 DEF CallOK, Waits
    <3>. QED BY <3>1, <3>2
  <2>. QED BY <2>7, <2>8, <2>9 DEF OneEvent
<1>13. \A f \in Events : OneEvent(f)' BY <1>11, <1>12
<1>. QED BY <1>3, <1>7, <1>13, Together

(* An event that is destroyed has no copy in a list. *)
LEMMA DestroyOK ==
  ASSUME ~ ReRecord, IInv, NEW t \in Threads, NEW e \in Events, Destroy(t, e)
  PROVE  IInv'
<1>0. /\ Typed /\ LockHeld /\ DInv /\ \A f \in Events : OneEvent(f)
      /\ event_status[e] # "RECORDING" /\ \A u \in Threads : ~ UsesEvent(u, e)
      /\ call[t] = Idle /\ UNCHANGED <<tail, shared_buf, mtx, call, recs>>
  BY EventByEvent DEF IInv, Destroy
<1>1. \A u \in Threads : ~ Holds(u, e)
  BY <1>0 DEF Holds, Records, Waits, UsesEvent, RecordStep
<1>2. Copies(e) = {} BY <1>0, <1>1, FreeEvent
<1>3. pending' = pending
  <2>1. \A c \in pending : Orphaned(c, e) = c BY <1>2 DEF Orphaned, Copies
  <2>2. pending' = { Orphaned(c, e) : c \in pending } BY DEF Destroy
  <2>. QED BY <2>1, <2>2
<1>4. Typed' /\ DInv'
  <2>1. call' = [call EXCEPT ![t] = Idle] BY <1>0 DEF Typed
  <2>2. /\ event_status' \in [Events -> {"INIT", "RECORDING", "RECORDED"}]
        /\ signaled' \in [Events -> BOOLEAN] /\ timestamp' \in [Events -> Record]
        /\ latest' \in [Events -> Record]
    BY <1>0, EventAssumption DEF Destroy, Typed, TypeOK, Record
  <2>3. before' \in [Events -> SUBSET { c \in pending : c.kind = "work" }]
    BY <1>0 DEF Destroy, Typed, TypeOK
  <2>4. UNCHANGED deviceVars BY <1>0, <1>3 DEF deviceVars
  <2>5. mtx' \in [Events -> Threads \cup {NoThread}] /\ recs' \in Record
    BY <1>0 DEF Typed, TypeOK
  <2>6. Idle.at \notin Stamp \cup {"barrier2"} /\ Idle.at \notin RecordStep
    BY IdleCall DEF Stamp, RecordStep
  <2>. QED BY <1>0, <2>1, <2>2, <2>3, <2>4, <2>5, <2>6, IdleCall, EventStep
<1>5. LockHeld' BY <1>0 DEF LockHeld
<1>6. ASSUME NEW f \in Events PROVE OneEvent(f)'
  <2>1. Copies(f)' = Copies(f) BY <1>3 DEF Copies
  <2>2. \A u \in Threads : SameCall(u, f)
    BY <1>0 DEF SameCall, Records, Publishes, Waits
  <2>3. CASE f # e
    <3>1. SameEvent(f) BY <1>0, <2>1, <2>3 DEF Destroy, SameEvent, Typed, TypeOK
    <3>. QED BY <1>0, <2>2, <3>1, KeepEvent
  <2>4. CASE f = e
    <3>1. event_status'[e] = "INIT" /\ ~ signaled'[e]
      BY <1>0 DEF Destroy, Typed, TypeOK
    <3>2. \A u \in Threads : ~ Records(u, e)' /\ ~ Publishes(u, e)' /\ ~ Waits(u, e)'
      <4>1. \A u \in Threads : ~ Records(u, e) /\ ~ Publishes(u, e) /\ ~ Waits(u, e)
        BY <1>0, <1>1, FreeEvent
      <4>. QED BY <2>2, <2>4, <4>1 DEF SameCall
    <3>3. CopiesOf(e)' BY <1>2, <2>1, <2>4 DEF CopiesOf
    <3>4. EventOK(e)' BY <3>1 DEF EventOK
    <3>5. \A u \in Threads : CallOK(u, e)' BY <3>2 DEF CallOK, Waits
    <3>. QED BY <2>4, <3>3, <3>4, <3>5 DEF OneEvent
  <2>. QED BY <2>3, <2>4
<1>. QED BY <1>4, <1>5, <1>6, Together

-----------------------------------------------------------------------------
LEMMA StepOK ==
  ASSUME ~ ReRecord, OneUser, IInv, [Next]_vars
  PROVE  IInv'
<1>1. CASE Next
  <2>1. ASSUME NEW t \in Threads, Call(t) PROVE IInv'
    <3>1. CASE \E q \in Queues : Submit(t, q) BY <3>1, SubmitOK
    <3>2. CASE \E q \in Queues, e \in Events : RecordBegin(t, e, q)
      BY <3>2, RecordBeginOK
    <3>3. CASE \E e \in Events : WaitBegin(t, e) BY <3>3, WaitBeginOK
    <3>4. CASE \E e \in Events : PollBegin(t, e) BY <3>4, PollBeginOK
    <3>5. CASE \E e, f \in Events : ElapsedBegin(t, e, f) BY <3>5, ElapsedBeginOK
    <3>6. CASE \E e \in Events : Destroy(t, e) BY <3>6, DestroyOK
    <3>. QED BY <2>1, <3>1, <3>2, <3>3, <3>4, <3>5, <3>6 DEF Call
  <2>2. ASSUME NEW t \in Threads, Continue(t) PROVE IInv'
    <3>1. CASE RecordStream(t)
      <4>1. CASE RecordBarrier(t, "barrier1", "write") BY <4>1, RecordBarrierOK
      <4>2. CASE RecordTimestamp(t, "write", "barrier2") BY <4>2, RecordWriteOK
      <4>3. CASE RecordBarrier(t, "barrier2", "copy") BY <4>3, RecordBarrierOK
      <4>4. CASE RecordTimestamp(t, "copy", "publish") BY <4>4, RecordCopyOK
      <4>5. CASE RecordPublish(t) BY <4>5, RecordPublishOK
      <4>. QED BY <3>1, <4>1, <4>2, <4>3, <4>4, <4>5 DEF RecordStream
    <3>2. CASE WaitEnd(t) BY <3>2, WaitEndOK
    <3>3. CASE ElapsedTime(t) BY <3>3, ElapsedTimeOK
    <3>4. CASE HipEventQuery(t) BY <3>4, HipEventQueryOK
    <3>. QED BY <2>2, <3>1, <3>2, <3>3, <3>4 DEF Continue
  <2>3. ASSUME NEW t \in Threads, RecordError(t) PROVE IInv'
    BY <2>3, RecordErrorOK
  <2>4. ASSUME NEW c \in pending, Complete(c) PROVE IInv'
    BY <2>4, CompleteTyped, CompleteDevice, CompleteEvents DEF IInv
  <2>. QED BY <1>1, <2>1, <2>2, <2>3, <2>4 DEF Next
<1>2. CASE UNCHANGED vars
  <2>1. UNCHANGED <<pending, tail, shared_buf, event_status, signaled, timestamp, mtx,
                    call, recs, latest, before>>
    BY <1>2 DEF vars, deviceVars, eventVars, historyVars
  <2>2. call' = call /\ Typed /\ LockHeld /\ DInv /\ \A f \in Events : OneEvent(f)
    BY <2>1, EventByEvent DEF IInv
  <2>3. Typed' /\ LockHeld'
    BY <2>1, <2>2 DEF Typed, TypeOK, LockHeld, InQueue, NoStrayWrite
  <2>4. DInv' BY <2>1, <2>2 DEF DInv, Separated, Owned, Sep, Own
  <2>5. ASSUME NEW e \in Events PROVE OneEvent(e)'
    <3>1. SameEvent(e) BY <2>1 DEF SameEvent, Copies
    <3>2. \A u \in Threads : SameCall(u, e)
      BY <2>1 DEF SameCall, Records, Publishes, Waits
    <3>. QED BY <2>2, <3>1, <3>2, KeepEvent
  <2>. QED BY <2>3, <2>4, <2>5, Together
<1>. QED BY <1>1, <1>2

THEOREM Invariant == ASSUME ~ ReRecord, OneUser PROVE Spec => []IInv
<1>1. Init => IInv BY InitOK
<1>2. IInv /\ [Next]_vars => IInv' BY StepOK
<1>. QED BY <1>1, <1>2, PTL DEF Spec

(* The mutex of an event is held by exactly the recordStream() or wait()   *)
(* call that works on it, and is free again after an exception.            *)
THEOREM StateCorrect == ASSUME ~ ReRecord, OneUser PROVE Spec => []StateOK
<1>1. IInv => StateOK BY DEF IInv, Typed, StateOK
<1>. QED BY <1>1, Invariant, PTL

(* When hipEventSynchronize has returned, or hipEventElapsedTime found the *)
(* event finished, all work that was in the queue when the event was       *)
(* recorded is done.                                                       *)
THEOREM FinishedCorrect == ASSUME ~ ReRecord, OneUser PROVE Spec => []FinishedCoversWork
<1>1. IInv => FinishedCoversWork
  BY DEF IInv, EInv, EventsOK, FinishedCoversWork, isFinished, Recording, Publishes, RecordStep
<1>. QED BY <1>1, Invariant, PTL

(* The timestamp of a finished event is the one of its last recording: the *)
(* two barriers of recordStream() keep apart the clock values that pass    *)
(* through the one buffer of a queue.                                      *)
THEOREM TimestampCorrect == ASSUME ~ ReRecord, OneUser PROVE Spec => []TimestampIsOwn
<1>1. IInv => TimestampIsOwn
  BY DEF IInv, EInv, EventsOK, TimestampIsOwn, isFinished, Recording, Publishes, RecordStep
<1>. QED BY <1>1, Invariant, PTL

(* The device writes no timestamp into the memory of a destroyed event:    *)
(* an event whose recording was seen to finish, or failed, has no copy in  *)
(* any list.                                                               *)
THEOREM StrayCorrect == ASSUME ~ ReRecord, OneUser PROVE Spec => []NoStrayWrite
<1>1. IInv => NoStrayWrite BY DEF IInv, Typed
<1>. QED BY <1>1, Invariant, PTL
=============================================================================
