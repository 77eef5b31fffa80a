----------------------------- MODULE StreamWork -----------------------------
(***************************************************************************)
(* The work on the streams of Streams: hipMemcpyAsync and the like, the    *)
(* copies that block, and hipDeviceSynchronize.  The API layer decides     *)
(* which queue each step of a call goes to; what a queue promises is       *)
(* StreamSync, which Level0Queue implements.  The OpenCL queue enqueues    *)
(* its only copy without waiting, and most of it is not implemented.       *)
(***************************************************************************)
EXTENDS Streams

CONSTANTS
  Workers,      \* threads that copy
  Syncers,      \* threads that call hipDeviceSynchronize
  Positions,    \* bound: operations outstanding on a queue
  MaxRows       \* bound: rows of a copy

ASSUME WorkAssumption ==
  /\ Workers \cup Syncers \subseteq Threads
  /\ MaxRows \in Nat

VARIABLES
  work,         \* work[t]: the copy or synchronisation t is in
  outstanding,  \* StreamSync: operations submitted and not completed
  waiting,      \* StreamSync: threads inside a wait
  owed          \* StreamSync: what they wait for

Sync == INSTANCE StreamSync

registry == vars
queues == <<outstanding, waiting, owed>>
workVars == <<registry, queues, work>>

NoWork == [at |-> "idle", what |-> "nothing", mine |-> {}]

WorkInit ==
  /\ Init /\ Sync!Init
  /\ work = [t \in Threads |-> NoWork]

-----------------------------------------------------------------------------
(* mine: the operations the call answers for that are not completed yet.   *)
(* moved: since the call began the active queue has changed; for a walk    *)
(* over the context, its vector has got other memory.                      *)
Enter(t, w) == work' = [work EXCEPT ![t] = w]
Begin(t, w) ==
  /\ call[t] = Idle /\ work[t].at = "idle"
  /\ Enter(t, w)
Succeed(t) == Enter(t, [work[t] EXCEPT !.at = "success"])

(* A call that reports an error; rows it has submitted stay submitted.     *)
FailCall(t) == Enter(t, NoWork)

Ops(q) == { o \in Sync!Operation : o.queue = q }

(* hipMemcpyAsync, hipMemsetAsync: the stream has to be listed by the      *)
(* active device.  Not implemented on OpenCL.                              *)
MemcpyAsync(t, s) ==
  /\ t \in Workers /\ call[t] = Idle /\ work[t].at = "idle"
  /\ s \in streams /\ findQueue(s) # {} /\ backend = "Level0"
  /\ \E o \in Ops(s) : Sync!Submit(o)
  /\ UNCHANGED <<registry, work>>

(* hipMemcpy, hipMemset and what is built on them: one operation on the    *)
(* active queue, and a finish() of that queue.                             *)
Memcpy(t) ==
  /\ t \in Workers /\ backend = "Level0"
  /\ \E o \in Ops(active_q) :
       /\ Sync!SubmitAndWait(t, o)
       /\ Begin(t, [at |-> "wait", what |-> "copy", mine |-> {o}, moved |-> FALSE, then |-> "return"])
  /\ UNCHANGED registry

(* CHIPQueueOpenCL::memCopy passes CL_FALSE and returns.                   *)
MemcpyOpenCL(t) ==
  /\ t \in Workers /\ backend = "OpenCL"
  /\ \E o \in Ops(active_q) :
       /\ Sync!Submit(o)
       /\ Begin(t, [at |-> "success", what |-> "copy", mine |-> {o}, moved |-> FALSE])
  /\ UNCHANGED registry

-----------------------------------------------------------------------------
(* hipMemcpy2D hands the active queue on to hipMemcpy2DAsync for all rows; *)
(* hipMemcpy2DToArray and hipMemcpy3D ask for it row by row.               *)
CopyRows(t, n, handsOn) ==
  /\ t \in Workers
  /\ Begin(t, [at |-> "rows", what |-> "copy", mine |-> {}, moved |-> FALSE, left |-> n,
               stream |-> IF handsOn THEN {active_q} ELSE {}])
  /\ UNCHANGED <<registry, queues>>

RowQueue(t) == IF work[t].stream = {} THEN {active_q} ELSE work[t].stream

(* hipMemcpyAsync of a row: the queue is looked up again. *)
Row(t) ==
  /\ work[t].at = "rows" /\ work[t].left > 0 /\ backend = "Level0"
  /\ \E q \in RowQueue(t) : \E o \in Ops(q) :
       /\ findQueue(q) # {}
       /\ Sync!Submit(o)
       /\ Enter(t, [work[t] EXCEPT !.left = @ - 1, !.mine = @ \cup {o}])
  /\ UNCHANGED registry

(* From host to host the row is copied on the spot. *)
RowOnHost(t) ==
  /\ work[t].at = "rows" /\ work[t].left > 0
  /\ \E q \in RowQueue(t) : findQueue(q) # {}
  /\ Enter(t, [work[t] EXCEPT !.left = @ - 1])
  /\ UNCHANGED <<registry, queues>>

(* The driver refuses the row, the device has changed and does not list    *)
(* the queue, or the backend (OpenCL) has no memCopyAsync.                 *)
RowFails(t) ==
  /\ work[t].at = "rows" /\ work[t].left > 0
  /\ FailCall(t)
  /\ UNCHANGED <<registry, queues>>

(* Slip: the copy returns when its last row is submitted.                  *)
FinishRowsSkipped(t) ==
  /\ work[t].at = "rows" /\ work[t].left = 0
  /\ Succeed(t)
  /\ UNCHANGED <<registry, queues>>

(* The active queue, asked for once more, is finished.  On OpenCL finish() *)
(* does nothing.                                                           *)
FinishRows(t) ==
  /\ work[t].at = "rows" /\ work[t].left = 0
  /\ IF backend = "OpenCL" THEN Succeed(t) /\ UNCHANGED queues
     ELSE /\ Sync!BeginWait(t, {active_q})
          /\ Enter(t, [at |-> "wait", what |-> "copy", mine |-> work[t].mine,
                       moved |-> work[t].moved, then |-> "return"])
  /\ UNCHANGED registry

-----------------------------------------------------------------------------
(* hipDeviceSynchronize answers for what is outstanding on any queue.  The *)
(* loop of finishAll takes the ends of the vector once: what is pushed     *)
(* later it does not visit.                                                *)
DeviceSynchronize(t) ==
  /\ t \in Syncers
  /\ Begin(t, [at |-> "walk", what |-> "sync", mine |-> outstanding, moved |-> FALSE,
               next |-> 1, last |-> Len(chip_queues[Context])])
  /\ UNCHANGED <<registry, queues>>

(* The element the loop is at: in memory that is freed there is anything.  *)
WalkReads(t) ==
  IF work[t].moved \/ work[t].next > Len(chip_queues[Context]) THEN Queues
  ELSE {chip_queues[Context][work[t].next]}

FinishNext(t) ==
  /\ work[t].at = "walk" /\ work[t].next <= work[t].last
  /\ \E q \in WalkReads(t) \cap built : Sync!BeginWait(t, {q})
  /\ Enter(t, [at |-> "wait", what |-> "sync", mine |-> work[t].mine, moved |-> work[t].moved,
               next |-> work[t].next, last |-> work[t].last, then |-> "walk"])
  /\ UNCHANGED registry

Constructing == \E t \in Threads : call[t].at \in {"create", "store"}

(* What the loop finds is not a queue, not yet or not any more.            *)
FinishDangling(t) ==
  /\ work[t].at = "walk" /\ work[t].next <= work[t].last
  /\ work[t].moved \/ ~(WalkReads(t) \subseteq built)
  /\ Enter(t, [at |-> "crashed", what |-> "sync", mine |-> {},
               moved |-> work[t].moved \/ Constructing])
  /\ UNCHANGED <<registry, queues>>

(* Slip: the last queue is left out.                                       *)
AllFinishedButOne(t) ==
  /\ work[t].at = "walk" /\ work[t].next >= work[t].last
  /\ Succeed(t)
  /\ UNCHANGED <<registry, queues>>

AllFinished(t) ==
  /\ work[t].at = "walk" /\ work[t].next > work[t].last
  /\ Succeed(t)
  /\ UNCHANGED <<registry, queues>>

(* finish() returns ... *)
WaitEnds(t) ==
  /\ work[t].at = "wait"
  /\ Sync!Return(t)
  /\ IF work[t].then = "return" THEN Succeed(t)
     ELSE Enter(t, [at |-> "walk", what |-> "sync", mine |-> work[t].mine,
                    moved |-> work[t].moved, next |-> work[t].next + 1,
                    last |-> work[t].last])
  /\ UNCHANGED registry

(* ... or throws, and the call reports the error. *)
WaitFails(t) ==
  /\ work[t].at = "wait"
  /\ Sync!Fail(t)
  /\ FailCall(t)
  /\ UNCHANGED registry

(* The application takes notice of the result. *)
Acknowledge(t) ==
  /\ work[t].at = "success"
  /\ Enter(t, NoWork)
  /\ UNCHANGED <<registry, queues>>

(* The device completes an operation. *)
Complete(o) ==
  /\ Sync!Complete(o)
  /\ work' = [t \in Threads |-> [work[t] EXCEPT !.mine = @ \ {o}]]
  /\ UNCHANGED registry

(* A step of Streams: a thread is in one call at a time.  A push_back on   *)
(* the vector of the context may give it other memory.                     *)
Manage(t) ==
  /\ work[t].at = "idle"
  /\ Step(t)
  /\ \E reallocated \in BOOLEAN :
       /\ reallocated => chip_queues'[Context] # chip_queues[Context]
       /\ work' = [u \in Threads |->
            IF \/ work[u].what = "copy" /\ active_q' # active_q
               \/ work[u].what = "sync" /\ reallocated
            THEN [work[u] EXCEPT !.moved = TRUE] ELSE work[u]]
  /\ UNCHANGED queues

Work(t) ==
  \/ \E s \in Queues : MemcpyAsync(t, s)
  \/ Memcpy(t) \/ MemcpyOpenCL(t)
  \/ \E n \in 0..MaxRows, handsOn \in BOOLEAN : CopyRows(t, n, handsOn)
  \/ Row(t) \/ RowOnHost(t) \/ RowFails(t) \/ FinishRows(t)
  \/ DeviceSynchronize(t) \/ FinishNext(t) \/ FinishDangling(t) \/ AllFinished(t)
  \/ WaitEnds(t) \/ WaitFails(t) \/ Acknowledge(t)

(* A process that has crashed stays as it is. *)
Crashed == \E t \in Threads : work[t].at = "crashed"
Down == Crashed /\ UNCHANGED workVars

WorkNext ==
  \/ ~Crashed /\ \E t \in Threads : Manage(t) \/ Work(t)
  \/ ~Crashed /\ \E o \in Sync!Operation : Complete(o)
  \/ Down

WorkSpec == WorkInit /\ [][WorkNext]_workVars

-----------------------------------------------------------------------------
(* A blocking copy that returns hipSuccess has made its copy: all of its   *)
(* rows are done, unless another thread has moved the active queue while   *)
(* it ran.  On Level Zero only: the OpenCL queue does not wait.            *)
BlockingCopyDone ==
  \A t \in Threads :
    backend = "Level0" /\ work[t].at = "success" /\ work[t].what = "copy"
      => work[t].moved \/ work[t].mine = {}

(* hipDeviceSynchronize returns when all that was outstanding before it is *)
(* done, on whatever stream: of any device, destroyed meanwhile, or among  *)
(* others that are being made; unless a push_back has moved the vector     *)
(* under its loop.  The OpenCL context lists no queue.                     *)
DeviceSyncDrains ==
  \A t \in Threads :
    backend = "Level0" /\ work[t].at = "success" /\ work[t].what = "sync"
      => work[t].moved \/ work[t].mine = {}

(* hipDeviceSynchronize calls finish() on no queue but one whose           *)
(* constructor is through, unless a constructor threw and left its queue   *)
(* in the vector of the context, a thread is making a stream at the time,  *)
(* or a push_back has moved the vector under its loop.                     *)
FinishesBuiltQueues ==
  \A t \in Threads : work[t].at = "crashed" => work[t].moved \/ thrown # {}
=============================================================================
