---------------------------- MODULE Level0Queue ----------------------------
(***************************************************************************)
(* CHIPQueueLevel0: a HIP stream implemented by one Level Zero immediate   *)
(* command list and ONE finish event.                                      *)
(*                                                                         *)
(* Every asynchronous operation appends a command to the list.  finish()   *)
(* takes no lock and makes three driver calls: it appends a barrier that   *)
(* signals the queue's finish event, blocks until that event is signalled, *)
(* and resets it.  Several host threads may be anywhere inside finish() of *)
(* the same queue at once.                                                 *)
(*                                                                         *)
(* The device side (pending, Ready, Complete) is the part of Level Zero    *)
(* the queue relies on: a barrier completes after every command appended   *)
(* before it and holds back every command appended after it; between two   *)
(* barriers commands complete in any order.                                *)
(***************************************************************************)
EXTENDS Integers

CONSTANTS
  Threads,     \* host threads of the application
  Queues,      \* the queues registered in the context (its chip_queues)
  Uses,        \* Uses[t]: the queues thread t submits asynchronous work to
  Waits,       \* Waits[t]: the queues thread t makes blocking calls on
  Syncers,     \* the threads that call hipDeviceSynchronize
  Faults,      \* driver calls of finish() that may report an error
  MaxPending   \* bound: no call is made on a list that has grown this long

ASSUME QueueAssumption ==
  /\ Uses \in [Threads -> SUBSET Queues]
  /\ Waits \in [Threads -> SUBSET Queues]
  /\ Syncers \subseteq Threads
  /\ Faults \subseteq {"append", "sync", "reset"}
  /\ MaxPending \in Nat

VARIABLES
  pending,     \* commands appended to the lists and not yet completed
  tail,        \* tail[q]: position of the next command in q's list
  signaled,    \* signaled[q]: q's finish_event is signalled
  pc,          \* pc[t]: where thread t is inside finish()
  cur,         \* cur[t]: the queue t is finishing
  todo,        \* todo[t]: queues finishAll() has not reached yet
  owed         \* owed[t]: history, the work t's call still has to wait for

deviceVars == <<pending, tail, signaled>>
threadVars == <<pc, cur, todo, owed>>
vars == <<pending, tail, signaled, pc, cur, todo, owed>>

Command == [queue : Queues, pos : Nat, kind : {"work", "barrier"}]

InQueue(q, cs) == { c \in cs : c.queue = q }
WorkIn(Q, cs) == { c \in cs : c.queue \in Q /\ c.kind = "work" }

TypeOK ==
  /\ pending \subseteq Command
  /\ tail \in [Queues -> Nat]
  /\ signaled \in [Queues -> BOOLEAN]
  /\ pc \in [Threads -> {"idle", "append", "sync", "reset"}]
  /\ cur \in [Threads -> Queues]
  /\ todo \in [Threads -> SUBSET Queues]
  /\ owed \in [Threads -> SUBSET Command]

Init ==
  /\ pending = {}
  /\ tail = [q \in Queues |-> 0]
  /\ signaled = [q \in Queues |-> FALSE]
  /\ pc = [t \in Threads |-> "idle"]
  /\ cur \in [Threads -> Queues]
  /\ todo = [t \in Threads |-> {}]
  /\ owed = [t \in Threads |-> {}]

-----------------------------------------------------------------------------
(* The device.                                                             *)

(* Commands wait for the barriers appended before them, barriers for every *)
(* command appended before them.                                           *)
Ready(c) ==
  \A d \in InQueue(c.queue, pending) :
    d.pos < c.pos => c.kind = "work" /\ d.kind = "work"

(* Once a list is empty its positions are numbered from 0 again: only the  *)
(* order of the commands in the list matters.                              *)
Complete(c) ==
  /\ c \in pending
  /\ Ready(c)
  /\ pending' = pending \ {c}
  /\ tail' = [tail EXCEPT ![c.queue] =
                IF InQueue(c.queue, pending) = {c} THEN 0 ELSE @]
  /\ signaled' = [signaled EXCEPT ![c.queue] = @ \/ c.kind = "barrier"]
  /\ owed' = [t \in Threads |-> owed[t] \ {c}]
  /\ UNCHANGED <<pc, cur, todo>>

-----------------------------------------------------------------------------
(* Calls.  An append the driver refuses throws before anything is changed. *)

Item(q, kind) == [queue |-> q, pos |-> tail[q], kind |-> kind]

AppendCommand(q, kind) ==
  /\ pending' = pending \cup {Item(q, kind)}
  /\ tail' = [tail EXCEPT ![q] = @ + 1]

MayCall(t, q) == pc[t] = "idle" /\ tail[q] < MaxPending

(* launch, memCopyAsync, memFillAsync, memCopy2DAsync, memCopy3DAsync,     *)
(* memCopyToTexture: one command, and back to the caller.                  *)
AsyncOperation(t, q) ==
  /\ q \in Uses[t] /\ MayCall(t, q)
  /\ AppendCommand(q, "work")
  /\ UNCHANGED <<signaled, pc, cur, todo, owed>>

(* memCopy (and memFill, memCopy2D, memCopy3D of the base class): append   *)
(* the operation, then finish() the same queue.                            *)
MemCopy(t, q) ==
  /\ q \in Waits[t] /\ MayCall(t, q)
  /\ AppendCommand(q, "work")
  /\ pc' = [pc EXCEPT ![t] = "append"]
  /\ todo' = [todo EXCEPT ![t] = {q}]
  /\ owed' = [owed EXCEPT ![t] = WorkIn({q}, pending \cup {Item(q, "work")})]
  /\ UNCHANGED <<signaled, cur>>

HipStreamSynchronize(t, q) ==
  /\ q \in Waits[t] /\ MayCall(t, q)
  /\ pc' = [pc EXCEPT ![t] = "append"]
  /\ todo' = [todo EXCEPT ![t] = {q}]
  /\ owed' = [owed EXCEPT ![t] = WorkIn({q}, pending)]
  /\ UNCHANGED <<deviceVars, cur>>

(* Slip: finishAll() finishes one queue of the context only. *)
FinishAllSkipsOne(t) ==
  /\ t \in Syncers /\ pc[t] = "idle"
  /\ \A q \in Queues : tail[q] < MaxPending
  /\ pc' = [pc EXCEPT ![t] = "append"]
  /\ \E q \in Queues : todo' = [todo EXCEPT ![t] = {q}]
  /\ owed' = [owed EXCEPT ![t] = WorkIn(Queues, pending)]
  /\ UNCHANGED <<deviceVars, cur>>

(* hipDeviceSynchronize: CHIPContext::finishAll() finishes the queues of   *)
(* the context one after the other.                                        *)
FinishAll(t) ==
  /\ t \in Syncers /\ pc[t] = "idle"
  /\ \A q \in Queues : tail[q] < MaxPending
  /\ pc' = [pc EXCEPT ![t] = "append"]
  /\ todo' = [todo EXCEPT ![t] = Queues]
  /\ owed' = [owed EXCEPT ![t] = WorkIn(Queues, pending)]
  /\ UNCHANGED <<deviceVars, cur>>

-----------------------------------------------------------------------------
(* finish(), one action per driver call.                                   *)

(* Slip: the barrier does not signal the finish event. *)
FinishAppendUnsignaled(t, q) ==
  /\ pc[t] = "append" /\ q \in todo[t]
  /\ AppendCommand(q, "work")
  /\ pc' = [pc EXCEPT ![t] = "sync"]
  /\ cur' = [cur EXCEPT ![t] = q]
  /\ todo' = [todo EXCEPT ![t] = @ \ {q}]
  /\ UNCHANGED <<signaled, owed>>

FinishAppend(t, q) ==
  /\ pc[t] = "append" /\ q \in todo[t]
  /\ AppendCommand(q, "barrier")
  /\ pc' = [pc EXCEPT ![t] = "sync"]
  /\ cur' = [cur EXCEPT ![t] = q]
  /\ todo' = [todo EXCEPT ![t] = @ \ {q}]
  /\ UNCHANGED <<signaled, owed>>

(* Slip: the wait gives up before the event is signalled. *)
FinishSyncTimedOut(t) ==
  /\ pc[t] = "sync"
  /\ pc' = [pc EXCEPT ![t] = "reset"]
  /\ UNCHANGED <<deviceVars, cur, todo, owed>>

FinishSync(t) ==
  /\ pc[t] = "sync" /\ signaled[cur[t]]
  /\ pc' = [pc EXCEPT ![t] = "reset"]
  /\ UNCHANGED <<deviceVars, cur, todo, owed>>

(* Slip: the finish event is not reset. *)
FinishResetForgotten(t) ==
  /\ pc[t] = "reset"
  /\ pc' = [pc EXCEPT ![t] = IF todo[t] = {} THEN "idle" ELSE "append"]
  /\ UNCHANGED <<deviceVars, cur, todo, owed>>

FinishReset(t) ==
  /\ pc[t] = "reset"
  /\ signaled' = [signaled EXCEPT ![cur[t]] = FALSE]
  /\ pc' = [pc EXCEPT ![t] = IF todo[t] = {} THEN "idle" ELSE "append"]
  /\ UNCHANGED <<pending, tail, cur, todo, owed>>

(* A driver call of finish() fails: the exception leaves finish(), and     *)
(* finishAll() with it, before the call has any effect.  What was done     *)
(* before (the barrier, the signalled event) stays.                        *)
FinishError(t) ==
  /\ pc[t] \in Faults
  /\ pc' = [pc EXCEPT ![t] = "idle"]
  /\ todo' = [todo EXCEPT ![t] = {}]
  /\ owed' = [owed EXCEPT ![t] = {}]
  /\ UNCHANGED <<deviceVars, cur>>

-----------------------------------------------------------------------------
Finish(t) ==
  \/ \E q \in Queues : FinishAppend(t, q)
  \/ FinishSync(t)
  \/ FinishReset(t)

Call(t) ==
  \/ \E q \in Queues : \/ AsyncOperation(t, q)
                       \/ MemCopy(t, q)
                       \/ HipStreamSynchronize(t, q)
  \/ FinishAll(t)

Next ==
  \/ \E t \in Threads : Call(t) \/ Finish(t) \/ FinishError(t)
  \/ \E c \in pending : Complete(c)

Spec == Init /\ [][Next]_vars

(* The device works off every list, and a thread inside finish() is        *)
(* scheduled; nothing obliges a thread to make a call.                     *)
Fairness ==
  /\ \A q \in Queues : WF_vars(\E c \in InQueue(q, pending) : Complete(c))
  /\ \A t \in Threads : WF_vars(Finish(t))

FairSpec == Spec /\ Fairness

-----------------------------------------------------------------------------
(* Usage: the queues a thread may be finishing.                            *)
Reach(t) == IF t \in Syncers THEN Queues ELSE Waits[t]

(* No queue is finished by two threads, whoever submits work to it, and    *)
(* the driver calls that touch the finish event succeed.                   *)
SingleOwner ==
  /\ \A s, t \in Threads : s # t => Reach(s) \cap Reach(t) = {}
  /\ Faults \subseteq {"append"}

(* A blocking call that returns without an error has waited for all the    *)
(* work that had been submitted to its queues: finish() is "Wait for this  *)
(* queue to finish" (CHIPBackend.hh).  The owed work of a thread is        *)
(* cleared only by completions and by errors, so a thread that is back in  *)
(* the application must be owed nothing.                                   *)
ReturnsDrained == \A t \in Threads : pc[t] = "idle" => owed[t] = {}

(* The finish event belongs to at most one barrier at a time: while it is  *)
(* signalled no barrier that would signal it is pending, so a wait never   *)
(* takes the signal of another finish() for its own.                       *)
OneBarrier ==
  \A q \in Queues :
    /\ \A b, c \in InQueue(q, pending) :
         b.kind = "barrier" /\ c.kind = "barrier" => b = c
    /\ signaled[q] => \A c \in InQueue(q, pending) : c.kind = "work"

(* The inductive strengthening of ReturnsDrained, in named parts.          *)

(* Positions are fresh and name a command of the queue. *)
PositionsOK ==
  /\ \A c \in pending : c.pos < tail[c.queue]
  /\ \A c \in pending : c.kind = "work" => c.pos < MaxPending
  /\ \A c, d \in pending : c.queue = d.queue /\ c.pos = d.pos => c = d

(* A thread keeps to its queues, and has none left when it is not calling. *)
CallsOK ==
  \A t \in Threads :
    /\ todo[t] \subseteq Reach(t)
    /\ pc[t] = "idle" => todo[t] = {}
    /\ pc[t] \in {"sync", "reset"} => cur[t] \in Reach(t)

(* What a call is owed is outstanding work on queues it has yet to finish. *)
OwedOK ==
  \A t \in Threads :
    /\ owed[t] \subseteq WorkIn(Queues, pending)
    /\ \A c \in owed[t] :
         c.queue \in todo[t] \/ (pc[t] = "sync" /\ c.queue = cur[t])

(* A pending barrier is the one some thread waits for behind its own work, *)
(* and a signalled event is seen by a thread whose work is done.           *)
EventOK ==
  /\ \A b \in pending : b.kind = "barrier" =>
       /\ ~signaled[b.queue]
       /\ \E t \in Threads : pc[t] = "sync" /\ cur[t] = b.queue
       /\ \A t \in Threads : pc[t] = "sync" /\ cur[t] = b.queue =>
            \A c \in InQueue(b.queue, owed[t]) : c.pos < b.pos
  /\ \A q \in Queues : signaled[q] =>
       /\ \E t \in Threads : pc[t] \in {"sync", "reset"} /\ cur[t] = q
       /\ \A t \in Threads : pc[t] = "sync" /\ cur[t] = q =>
            InQueue(q, owed[t]) = {}

IInv == TypeOK /\ PositionsOK /\ CallsOK /\ OwedOK /\ OneBarrier /\ EventOK

(* finish() returns (or reports an error): no thread is left blocked on an *)
(* event that nobody will signal.                                          *)
FinishReturns == \A t \in Threads : pc[t] # "idle" ~> pc[t] = "idle"

-----------------------------------------------------------------------------
(* The queue implements StreamSync.                                        *)

WorkOps(cs) == { [queue |-> c.queue, pos |-> c.pos] : c \in WorkIn(Queues, cs) }

Sync == INSTANCE StreamSync WITH
  Positions   <- 0 .. MaxPending - 1,
  outstanding <- WorkOps(pending),
  waiting     <- { t \in Threads : pc[t] # "idle" },
  owed        <- [t \in Threads |-> WorkOps(owed[t])]

(* Seen from the application the queue is a StreamSync: whatever the list, *)
(* the barriers and the finish event do, each step is a submission, a      *)
(* completion, the start or the end of a blocking call, or invisible.      *)
ImplementsStreamSync == Sync!Spec
=============================================================================
