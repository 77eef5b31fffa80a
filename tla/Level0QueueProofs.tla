------------------------- MODULE Level0QueueProofs -------------------------
(***************************************************************************)
(* Proofs about Level0Queue: while no queue is finished by two threads and *)
(* the event calls of the driver succeed, a blocking call returns only     *)
(* when the work it found on its queues is done, for any number of         *)
(* threads and queues.                                                     *)
(***************************************************************************)
EXTENDS Level0Queue, TLAPS

(* The initial states satisfy the inductive invariant. *)
LEMMA InitInv == Init => IInv
  BY QueueAssumption
  DEF Init, IInv, TypeOK, PositionsOK, CallsOK, OwedOK, OneBarrier, EventOK,
      Command, InQueue, WorkIn

(* Two threads that may finish the same queue are the same thread. *)
LEMMA OneFinisher ==
  ASSUME SingleOwner, NEW s \in Threads, NEW t \in Threads,
         NEW q \in Reach(s), q \in Reach(t)
  PROVE  s = t
  BY DEF SingleOwner

(* The queues a thread makes blocking calls on are among those it may      *)
(* finish.                                                                 *)
LEMMA WaitsReach ==
  ASSUME NEW t \in Threads
  PROVE  Waits[t] \subseteq Reach(t) /\ Reach(t) \subseteq Queues
  BY QueueAssumption DEF Reach

(* A thread about to finish a queue finds no barrier and no signal there:  *)
(* either would need another thread inside finish() of the same queue.     *)
LEMMA FreshFinish ==
  ASSUME SingleOwner, IInv, NEW t \in Threads, NEW q \in Reach(t),
         pc[t] \in {"idle", "append"}
  PROVE  /\ ~signaled[q]
         /\ \A b \in pending : b.queue = q => b.kind = "work"
         /\ \A s \in Threads : pc[s] \in {"sync", "reset"} => cur[s] # q
  <1>1. \A s \in Threads : pc[s] \in {"sync", "reset"} => cur[s] # q
    <2> SUFFICES ASSUME NEW s \in Threads, pc[s] \in {"sync", "reset"},
                        cur[s] = q
                 PROVE  FALSE
      OBVIOUS
    <2>1. q \in Reach(s)
      BY DEF IInv, CallsOK
    <2>2. s = t
      BY <2>1, OneFinisher
    <2> QED BY <2>2
  <1>2. q \in Queues
    BY WaitsReach
  <1>3. ~signaled[q]
    BY <1>1, <1>2 DEF IInv, EventOK
  <1>4. \A b \in pending : b.queue = q => b.kind = "work"
    <2> SUFFICES ASSUME NEW b \in pending, b.queue = q, b.kind # "work"
                 PROVE  FALSE
      OBVIOUS
    <2>1. b.kind = "barrier"
      BY DEF IInv, TypeOK, Command
    <2>2. \E s \in Threads : pc[s] = "sync" /\ cur[s] = b.queue
      BY <2>1 DEF IInv, EventOK
    <2> QED BY <2>2, <1>1
  <1> QED BY <1>1, <1>3, <1>4

-----------------------------------------------------------------------------
(* Appending a command keeps the positions of a queue distinct. *)
LEMMA AppendPositions ==
  ASSUME TypeOK, PositionsOK, NEW q \in Queues,
         NEW k \in {"work", "barrier"}, AppendCommand(q, k),
         k = "work" => tail[q] < MaxPending
  PROVE  /\ pending' \subseteq Command
         /\ tail' \in [Queues -> Nat]
         /\ PositionsOK'
         /\ Item(q, k) \in Command
         /\ \A c \in pending : c.queue = q => c.pos < Item(q, k).pos
  <1>1. Item(q, k) \in Command
    BY DEF TypeOK, Item, Command
  <1>2. /\ pending' \subseteq Command
        /\ tail' \in [Queues -> Nat]
    BY <1>1 DEF TypeOK, AppendCommand
  <1>3. \A c \in pending : c.queue \in Queues /\ c.pos \in Nat
    BY DEF TypeOK, Command
  <1>4. /\ Item(q, k).queue = q
        /\ Item(q, k).pos = tail[q]
        /\ Item(q, k).kind = k
        /\ tail[q] \in Nat
    BY DEF Item, TypeOK
  <1>5. \A p \in Queues : /\ tail'[p] = IF p = q THEN tail[q] + 1 ELSE tail[p]
                          /\ tail[p] \in Nat
    BY DEF AppendCommand, TypeOK
  <1>6. \A c \in pending' : c.pos < tail'[c.queue]
    BY <1>3, <1>4, <1>5 DEF PositionsOK, AppendCommand
  <1>7. \A c, d \in pending' : c.queue = d.queue /\ c.pos = d.pos => c = d
    BY <1>3, <1>4 DEF PositionsOK, AppendCommand
  <1>8. \A c \in pending' : c.kind = "work" => c.pos < MaxPending
    BY <1>4 DEF PositionsOK, AppendCommand
  <1> QED BY <1>1, <1>2, <1>4, <1>6, <1>7, <1>8 DEF PositionsOK

(* A call that only starts or appends work disturbs no finish(). *)
LEMMA AsyncInv ==
  ASSUME SingleOwner, IInv, NEW t \in Threads, NEW q \in Queues,
         AsyncOperation(t, q)
  PROVE  IInv'
  <1> USE DEF AsyncOperation, MayCall
  <1>1. /\ PositionsOK'
        /\ pending' \subseteq Command
        /\ tail' \in [Queues -> Nat]
    BY AppendPositions DEF IInv
  <1>2. pending' = pending \cup {Item(q, "work")}
    BY DEF AppendCommand
  <1>3. Item(q, "work").kind = "work" /\ Item(q, "work").queue = q
    BY DEF Item
  <1>4. TypeOK'
    BY <1>1 DEF IInv, TypeOK
  <1>5. CallsOK'
    BY DEF IInv, CallsOK, Reach
  <1>6. OwedOK'
    BY <1>2 DEF IInv, OwedOK, WorkIn
  <1>7. OneBarrier'
    BY <1>2, <1>3 DEF IInv, OneBarrier, InQueue
  <1>8. EventOK'
    BY <1>2, <1>3 DEF IInv, EventOK, InQueue
  <1> QED BY <1>1, <1>4, <1>5, <1>6, <1>7, <1>8 DEF IInv

(* A blocking operation starts with nothing left over from earlier calls,  *)
(* and owes exactly the work of its own queue.                             *)
LEMMA MemCopyInv ==
  ASSUME SingleOwner, IInv, NEW t \in Threads, NEW q \in Queues, MemCopy(t, q)
  PROVE  IInv'
  <1> USE DEF MemCopy, MayCall
  <1>1. /\ PositionsOK'
        /\ pending' \subseteq Command
        /\ tail' \in [Queues -> Nat]
        /\ Item(q, "work") \in Command
    BY AppendPositions DEF IInv
  <1>2. pending' = pending \cup {Item(q, "work")}
    BY DEF AppendCommand
  <1>3. Item(q, "work").kind = "work" /\ Item(q, "work").queue = q
    BY DEF Item
  <1>4. q \in Reach(t) /\ pc[t] = "idle"
    BY WaitsReach DEF MayCall
  <1>5. /\ ~signaled[q]
        /\ \A b \in pending : b.queue = q => b.kind = "work"
    BY <1>4, FreshFinish
  <1>6. TypeOK'
    BY <1>1 DEF IInv, TypeOK, WorkIn
  <1>7. CallsOK'
    BY <1>4 DEF IInv, CallsOK, TypeOK, Reach
  <1>8. OwedOK'
    BY <1>1, <1>2 DEF IInv, OwedOK, TypeOK, WorkIn
  <1>9. OneBarrier'
    BY <1>2, <1>3 DEF IInv, OneBarrier, InQueue
  <1>10. EventOK'
    BY <1>2, <1>3, <1>4 DEF IInv, EventOK, InQueue, TypeOK
  <1> QED BY <1>1, <1>6, <1>7, <1>8, <1>9, <1>10 DEF IInv

(* A wait for a set Q of queues owes the work it finds there. *)
LEMMA BeginFinishInv ==
  ASSUME SingleOwner, IInv, NEW t \in Threads, NEW Q \in SUBSET Reach(t),
         pc[t] = "idle",
         pc' = [pc EXCEPT ![t] = "append"],
         todo' = [todo EXCEPT ![t] = Q],
         owed' = [owed EXCEPT ![t] = WorkIn(Q, pending)],
         UNCHANGED <<deviceVars, cur>>
  PROVE  IInv'
  <1> USE DEF deviceVars
  <1>1. Q \subseteq Queues
    BY WaitsReach
  <1>2. TypeOK'
    BY <1>1 DEF IInv, TypeOK, WorkIn
  <1>3. PositionsOK'
    BY DEF IInv, PositionsOK
  <1>4. CallsOK'
    BY DEF IInv, CallsOK, TypeOK, Reach
  <1>5. OwedOK'
    BY <1>1 DEF IInv, OwedOK, TypeOK, WorkIn
  <1>6. OneBarrier'
    BY DEF IInv, OneBarrier, InQueue
  <1>7. EventOK'
    BY DEF IInv, EventOK, InQueue, TypeOK
  <1> QED BY <1>2, <1>3, <1>4, <1>5, <1>6, <1>7 DEF IInv

(* Calling finish() on one queue or on all of them. *)
LEMMA CallInv ==
  ASSUME SingleOwner, IInv, NEW t \in Threads, Call(t)
  PROVE  IInv'
  <1>1. CASE \E q \in Queues : AsyncOperation(t, q)
    BY <1>1, AsyncInv
  <1>2. CASE \E q \in Queues : MemCopy(t, q)
    BY <1>2, MemCopyInv
  <1>3. CASE \E q \in Queues : HipStreamSynchronize(t, q)
    <2>1. PICK q \in Queues : HipStreamSynchronize(t, q)
      BY <1>3
    <2>2. {q} \in SUBSET Reach(t)
      BY <2>1, WaitsReach DEF HipStreamSynchronize, MayCall
    <2> QED BY <2>1, <2>2, BeginFinishInv DEF HipStreamSynchronize, MayCall
  <1>4. CASE FinishAll(t)
    <2>1. Queues \in SUBSET Reach(t)
      BY <1>4 DEF FinishAll, Reach
    <2> QED BY <1>4, <2>1, BeginFinishInv DEF FinishAll
  <1> QED BY <1>1, <1>2, <1>3, <1>4 DEF Call

-----------------------------------------------------------------------------
(* The barrier of finish() is the only one of its queue, behind all the    *)
(* work the thread is owed there.                                          *)
LEMMA FinishAppendInv ==
  ASSUME SingleOwner, IInv, NEW t \in Threads, NEW q \in Queues,
         FinishAppend(t, q)
  PROVE  IInv'
  <1> USE DEF FinishAppend
  <1> DEFINE b == Item(q, "barrier")
  <1>1. /\ PositionsOK'
        /\ pending' \subseteq Command
        /\ tail' \in [Queues -> Nat]
        /\ b \in Command
        /\ \A c \in pending : c.queue = q => c.pos < b.pos
    BY AppendPositions DEF IInv
  <1>2. pending' = pending \cup {b}
    BY DEF AppendCommand
  <1>3. b.kind = "barrier" /\ b.queue = q
    BY DEF Item
  <1>4. q \in Reach(t)
    BY DEF IInv, CallsOK
  <1>5. /\ ~signaled[q]
        /\ \A c \in pending : c.queue = q => c.kind = "work"
        /\ \A s \in Threads : pc[s] \in {"sync", "reset"} => cur[s] # q
    BY <1>4, FreshFinish
  <1> HIDE DEF b
  <1>6. TypeOK'
    BY <1>1 DEF IInv, TypeOK
  <1>7. CallsOK'
    BY <1>4 DEF IInv, CallsOK, TypeOK, Reach
  <1>8. OwedOK'
    BY <1>2 DEF IInv, OwedOK, TypeOK, WorkIn
  <1>9. OneBarrier'
    BY <1>2, <1>3, <1>5 DEF IInv, OneBarrier, InQueue
  <1>10. EventOK'
    <2>1. \A s \in Threads : pc'[s] = "sync" /\ cur'[s] = q => s = t
      BY <1>5 DEF IInv, TypeOK
    <2>2. pc'[t] = "sync" /\ cur'[t] = q /\ owed' = owed /\ signaled' = signaled
      BY DEF IInv, TypeOK
    <2>3. \A c \in InQueue(q, owed[t]) : c.pos < b.pos
      BY <1>1 DEF IInv, OwedOK, WorkIn, InQueue
    <2>4. \A s \in Threads : s # t => pc'[s] = pc[s] /\ cur'[s] = cur[s]
      BY DEF IInv, TypeOK
    <2>5. pc[t] = "append"
      OBVIOUS
    <2> QED BY <1>2, <1>3, <1>5, <2>1, <2>2, <2>3, <2>4, <2>5
            DEF IInv, EventOK, InQueue
  <1> QED BY <1>1, <1>6, <1>7, <1>8, <1>9, <1>10 DEF IInv

(* The wait ends: nothing is owed on the queue that was waited for. *)
LEMMA FinishSyncInv ==
  ASSUME SingleOwner, IInv, NEW t \in Threads, FinishSync(t)
  PROVE  IInv'
  <1> USE DEF FinishSync, deviceVars
  <1>1. cur[t] \in Queues
    BY DEF IInv, TypeOK
  <1>2. InQueue(cur[t], owed[t]) = {}
    BY <1>1 DEF IInv, EventOK
  <1>3. TypeOK'
    BY DEF IInv, TypeOK
  <1>4. PositionsOK' /\ OneBarrier'
    BY DEF IInv, PositionsOK, OneBarrier, InQueue
  <1>5. CallsOK'
    BY DEF IInv, CallsOK, TypeOK, Reach
  <1>6. OwedOK'
    BY <1>2 DEF IInv, OwedOK, TypeOK, WorkIn, InQueue
  <1>7. EventOK'
    <2>1. \A b \in pending : b.kind = "barrier" => b.queue # cur[t]
      BY DEF IInv, EventOK
    <2> QED BY <2>1 DEF IInv, EventOK, InQueue, TypeOK
  <1> QED BY <1>3, <1>4, <1>5, <1>6, <1>7 DEF IInv

(* Resetting the event leaves no other thread waiting for it. *)
LEMMA FinishResetInv ==
  ASSUME SingleOwner, IInv, NEW t \in Threads, FinishReset(t)
  PROVE  IInv'
  <1> USE DEF FinishReset
  <1>1. TypeOK'
    BY DEF IInv, TypeOK
  <1>2. PositionsOK'
    BY DEF IInv, PositionsOK
  <1>3. CallsOK'
    BY DEF IInv, CallsOK, TypeOK, Reach
  <1>4. OwedOK'
    BY DEF IInv, OwedOK, TypeOK, WorkIn
  <1>5. OneBarrier'
    BY DEF IInv, OneBarrier, InQueue, TypeOK
  <1>6. EventOK'
    BY DEF IInv, EventOK, InQueue, TypeOK
  <1> QED BY <1>1, <1>2, <1>3, <1>4, <1>5, <1>6 DEF IInv

(* Only the append of the barrier can fail, and it leaves nothing behind. *)
LEMMA FinishErrorInv ==
  ASSUME SingleOwner, IInv, NEW t \in Threads, FinishError(t)
  PROVE  IInv'
  <1> USE DEF FinishError, deviceVars
  <1>0. pc[t] = "append"
    BY DEF SingleOwner
  <1>1. TypeOK'
    BY DEF IInv, TypeOK
  <1>2. PositionsOK' /\ OneBarrier'
    BY DEF IInv, PositionsOK, OneBarrier, InQueue
  <1>3. CallsOK'
    BY DEF IInv, CallsOK, TypeOK, Reach
  <1>4. OwedOK'
    BY DEF IInv, OwedOK, TypeOK, WorkIn
  <1>5. EventOK'
    BY <1>0 DEF IInv, EventOK, InQueue, TypeOK
  <1> QED BY <1>1, <1>2, <1>3, <1>4, <1>5 DEF IInv

-----------------------------------------------------------------------------
(* A completion frees the calls that waited for the command; a barrier     *)
(* completes only when the work in front of it has.                        *)
LEMMA CompleteInv ==
  ASSUME SingleOwner, IInv, NEW c \in pending, Complete(c)
  PROVE  IInv'
  <1> USE DEF Complete
  <1>1. c \in Command /\ c.queue \in Queues
    BY DEF IInv, TypeOK, Command
  <1>2. /\ \A q \in Queues : q # c.queue => /\ tail'[q] = tail[q]
                                            /\ signaled'[q] = signaled[q]
        /\ tail'[c.queue] = IF InQueue(c.queue, pending) = {c}
                               THEN 0 ELSE tail[c.queue]
        /\ signaled'[c.queue] = (signaled[c.queue] \/ c.kind = "barrier")
    BY <1>1 DEF IInv, TypeOK
  <1>3. \A t \in Threads : owed'[t] = owed[t] \ {c}
    OBVIOUS
  <1>4. TypeOK'
    BY <1>1 DEF IInv, TypeOK
  <1>5. PositionsOK'
    <2>1. \A d \in pending' : d \in pending /\ d # c /\ d.queue \in Queues
      BY DEF IInv, TypeOK, Command
    <2>2. \A d \in pending' : d.pos < tail'[d.queue]
      BY <1>2, <2>1 DEF IInv, PositionsOK, InQueue
    <2> QED BY <2>1, <2>2 DEF IInv, PositionsOK
  <1>6. CallsOK'
    BY DEF IInv, CallsOK, Reach
  <1>7. OwedOK'
    BY <1>3 DEF IInv, OwedOK, WorkIn
  <1>8. CASE c.kind = "work"
    <2>1. signaled' = signaled
      BY <1>8, <1>1 DEF IInv, TypeOK
    <2>2. OneBarrier'
      BY <2>1 DEF IInv, OneBarrier, InQueue
    <2>3. EventOK'
      BY <1>3, <2>1 DEF IInv, EventOK, InQueue
    <2> QED BY <1>4, <1>5, <1>6, <1>7, <2>2, <2>3 DEF IInv
  <1>9. CASE c.kind = "barrier"
    <2> DEFINE q == c.queue
    <2>1. \A d \in pending : d.queue = q /\ d.kind = "barrier" => d = c
      BY <1>1, <1>9 DEF IInv, OneBarrier, InQueue
    <2>2. \A d \in pending' : d.queue = q => d.kind = "work"
      BY <2>1 DEF IInv, TypeOK, Command
    <2>3. OneBarrier'
      BY <1>2, <2>2 DEF IInv, OneBarrier, InQueue
    <2>4. \A t \in Threads : pc[t] = "sync" /\ cur[t] = q =>
            InQueue(q, owed[t]) = {}
      <3> SUFFICES ASSUME NEW t \in Threads, pc[t] = "sync", cur[t] = q,
                          NEW d \in InQueue(q, owed[t])
                   PROVE  FALSE
        OBVIOUS
      <3>1. d.pos < c.pos
        BY <1>9 DEF IInv, EventOK
      <3>2. d \in InQueue(q, pending)
        BY DEF IInv, OwedOK, WorkIn, InQueue
      <3> QED BY <1>9, <3>1, <3>2 DEF Ready
    <2>5. \E t \in Threads : pc[t] = "sync" /\ cur[t] = q
      BY <1>9 DEF IInv, EventOK
    <2>6. \A b \in pending' : b.kind = "barrier" =>
            b \in pending /\ b.queue \in Queues /\ b.queue # q
      BY <2>2 DEF IInv, TypeOK, Command
    <2>7. EventOK'
      <3>1. \A t \in Threads, p \in Queues :
              InQueue(p, owed'[t]) \subseteq InQueue(p, owed[t])
        BY <1>3 DEF InQueue
      <3>2. \A b \in pending' : b.kind = "barrier" =>
             /\ ~signaled'[b.queue]
             /\ \E t \in Threads : pc'[t] = "sync" /\ cur'[t] = b.queue
             /\ \A t \in Threads : pc'[t] = "sync" /\ cur'[t] = b.queue =>
                  \A d \in InQueue(b.queue, owed'[t]) : d.pos < b.pos
        BY <1>2, <2>6, <3>1 DEF IInv, EventOK
      <3>3. \A p \in Queues : signaled'[p] =>
             /\ \E t \in Threads : pc'[t] \in {"sync", "reset"} /\ cur'[t] = p
             /\ \A t \in Threads : pc'[t] = "sync" /\ cur'[t] = p =>
                  InQueue(p, owed'[t]) = {}
        <4> SUFFICES ASSUME NEW p \in Queues, signaled'[p]
                     PROVE  /\ \E t \in Threads : /\ pc[t] \in {"sync", "reset"}
                                                  /\ cur[t] = p
                            /\ \A t \in Threads : pc[t] = "sync" /\ cur[t] = p =>
                                 InQueue(p, owed[t]) = {}
          BY <3>1
        <4>1. CASE p = q
          BY <4>1, <2>4, <2>5
        <4>2. CASE p # q
          BY <4>2, <1>2 DEF IInv, EventOK
        <4> QED BY <4>1, <4>2
      <3> QED BY <3>2, <3>3 DEF EventOK, InQueue
    <2> QED BY <1>4, <1>5, <1>6, <1>7, <2>3, <2>7 DEF IInv
  <1> QED BY <1>1, <1>8, <1>9 DEF Command

(* One step of any thread or of the device keeps the invariant. *)
LEMMA NextInv ==
  ASSUME SingleOwner, IInv, [Next]_vars
  PROVE  IInv'
  <1>1. ASSUME NEW t \in Threads, Call(t) PROVE IInv'
    BY <1>1, CallInv
  <1>2. ASSUME NEW t \in Threads, Finish(t) PROVE IInv'
    BY <1>2, FinishAppendInv, FinishSyncInv, FinishResetInv DEF Finish
  <1>3. ASSUME NEW t \in Threads, FinishError(t) PROVE IInv'
    BY <1>3, FinishErrorInv
  <1>4. ASSUME NEW c \in pending, Complete(c) PROVE IInv'
    BY <1>4, CompleteInv
  <1>5. CASE UNCHANGED vars
    BY <1>5 DEF vars, IInv, TypeOK, PositionsOK, CallsOK, OwedOK, OneBarrier,
                EventOK, InQueue, Reach
  <1> QED BY <1>1, <1>2, <1>3, <1>4, <1>5 DEF Next

(* The invariant says of a thread that is not calling that it is owed      *)
(* nothing.                                                                *)
LEMMA InvReturnsDrained == IInv => ReturnsDrained
  <1> SUFFICES ASSUME IInv, NEW t \in Threads, pc[t] = "idle"
               PROVE  owed[t] = {}
    BY DEF ReturnsDrained
  <1>1. todo[t] = {}
    BY DEF IInv, CallsOK
  <1> QED BY <1>1 DEF IInv, OwedOK

(* The inductive invariant holds in every reachable state. *)
THEOREM Invariance == ASSUME SingleOwner PROVE Spec => []IInv
  <1>1. Init => IInv
    BY InitInv
  <1>2. IInv /\ [Next]_vars => IInv'
    BY NextInv
  <1> QED BY <1>1, <1>2, PTL DEF Spec

(* finish(), and with it every blocking call, returns only when all work   *)
(* submitted to its queues before the call has completed.                  *)
THEOREM BlockingCallsDrain == ASSUME SingleOwner PROVE Spec => []ReturnsDrained
  BY Invariance, InvReturnsDrained, PTL

-----------------------------------------------------------------------------
(* Level0Queue implements StreamSync: the mapped operations, one lemma per *)
(* way pending changes.                                                    *)

OpOf(c) == [queue |-> c.queue, pos |-> c.pos]

LEMMA OpsOfQueues ==
  ASSUME NEW cs \in SUBSET Command, NEW Q \in SUBSET Queues
  PROVE  Sync!On(Q, WorkOps(cs)) = WorkOps(WorkIn(Q, cs))
  BY DEF Sync!On, WorkOps, WorkIn, Command

LEMMA OpsAppendWork ==
  ASSUME NEW cs \in SUBSET Command, NEW q \in Queues
  PROVE  WorkOps(cs \cup {Item(q, "work")}) =
           WorkOps(cs) \cup {OpOf(Item(q, "work"))}
  BY DEF WorkOps, WorkIn, Item, OpOf

LEMMA OpsAppendBarrier ==
  ASSUME NEW cs \in SUBSET Command, NEW q \in Queues
  PROVE  WorkOps(cs \cup {Item(q, "barrier")}) = WorkOps(cs)
  BY DEF WorkOps, WorkIn, Item

(* Positions name the commands of a queue, so removing a command removes   *)
(* its operation and no other.                                             *)
LEMMA OpsComplete ==
  ASSUME TypeOK, PositionsOK, NEW c \in pending, NEW cs \in SUBSET pending
  PROVE  WorkOps(cs \ {c}) =
           IF c.kind = "work" THEN WorkOps(cs) \ {OpOf(c)} ELSE WorkOps(cs)
  <1>1. \A d \in cs : d \in pending /\ d \in Command
    BY DEF TypeOK
  <1>2. c \in Command
    BY DEF TypeOK
  <1>3. \A d \in cs : OpOf(d) = OpOf(c) => d = c
    BY <1>1 DEF PositionsOK, OpOf
  <1>4. CASE c.kind = "work"
    <2>1. ASSUME NEW o PROVE o \in WorkOps(cs \ {c}) <=> o \in WorkOps(cs) \ {OpOf(c)}
      BY <1>3 DEF WorkOps, WorkIn, OpOf
    <2> QED BY <1>4, <2>1
  <1>5. CASE c.kind # "work"
    <2>1. WorkIn(Queues, cs \ {c}) = WorkIn(Queues, cs)
      BY <1>5 DEF WorkIn
    <2> QED BY <1>5, <2>1 DEF WorkOps
  <1> QED BY <1>4, <1>5

(* The position a call appends at is one of the abstract names, not in use. *)
LEMMA FreshOp ==
  ASSUME TypeOK, PositionsOK, NEW q \in Queues, tail[q] < MaxPending
  PROVE  /\ OpOf(Item(q, "work")) \in Sync!Operation
         /\ OpOf(Item(q, "work")) \notin WorkOps(pending)
         /\ OpOf(Item(q, "work")).queue = q
         /\ Item(q, "work") \in Command
  <1>1. tail[q] \in 0 .. MaxPending - 1 /\ tail[q] \in Nat
    BY QueueAssumption DEF TypeOK
  <1>2. OpOf(Item(q, "work")) = [queue |-> q, pos |-> tail[q]]
    BY DEF OpOf, Item
  <1>3. \A c \in pending : c.queue = q => c.pos # tail[q]
    BY <1>1 DEF PositionsOK, TypeOK, Command
  <1>4. \A o \in WorkOps(pending) : o.queue = q => o.pos # tail[q]
    BY <1>3 DEF WorkOps, WorkIn
  <1> QED BY <1>1, <1>2, <1>4 DEF Sync!Operation, Item, Command

(* Every step of the queue is a step of StreamSync or changes nothing it   *)
(* can see.                                                                *)
LEMMA StepRefines ==
  ASSUME SingleOwner, IInv, [Next]_vars
  PROVE  [Sync!Next]_(Sync!vars)
  <1> USE DEF IInv
  <1> DEFINE busy == { t \in Threads : pc[t] # "idle" }
  <1> DEFINE ops == WorkOps(pending)
  <1> DEFINE need == [t \in Threads |-> WorkOps(owed[t])]
  <1>0. pending \in SUBSET Command
    BY DEF TypeOK
  <1>1. ASSUME NEW t \in Threads, NEW q \in Queues, AsyncOperation(t, q)
        PROVE  Sync!Next
    <2> DEFINE o == OpOf(Item(q, "work"))
    <2>1. o \in Sync!Operation /\ o \notin ops
      BY <1>1, FreshOp DEF AsyncOperation, MayCall
    <2>2. ops' = ops \cup {o} /\ busy' = busy /\ need' = need
      BY <1>0, <1>1, OpsAppendWork DEF AsyncOperation, AppendCommand
    <2>3. Sync!Submit(o)
      BY <2>1, <2>2 DEF Sync!Submit
    <2> QED BY <2>1, <2>3 DEF Sync!Next
  <1>2. ASSUME NEW t \in Threads, NEW q \in Queues, MemCopy(t, q)
        PROVE  Sync!Next
    <2> DEFINE o == OpOf(Item(q, "work"))
    <2> DEFINE i == Item(q, "work")
    <2>1. o \in Sync!Operation /\ o \notin ops /\ o.queue = q /\ i \in Command
      BY <1>2, FreshOp DEF MemCopy, MayCall
    <2>2. ops' = ops \cup {o}
      BY <1>0, <1>2, OpsAppendWork DEF MemCopy, AppendCommand
    <2>3. t \notin busy /\ busy' = busy \cup {t}
      BY <1>2 DEF MemCopy, MayCall, TypeOK
    <2>4. Sync!On({o.queue}, ops \cup {o}) = WorkOps(WorkIn({q}, pending \cup {i}))
      <3>1. pending \cup {i} \in SUBSET Command /\ {q} \in SUBSET Queues
        BY <1>0, <2>1
      <3>2. ops \cup {o} = WorkOps(pending \cup {i})
        BY <1>0, OpsAppendWork
      <3> HIDE DEF i, o, ops
      <3> QED BY <2>1, <3>1, <3>2, OpsOfQueues
    <2>5. owed' = [owed EXCEPT ![t] = WorkIn({q}, pending \cup {i})]
      BY <1>2 DEF MemCopy
    <2>6. need' = [need EXCEPT ![t] = WorkOps(WorkIn({q}, pending \cup {i}))]
      <3> HIDE DEF i
      <3> QED BY <2>5 DEF TypeOK
    <2>7. ASSUME NEW x \in Sync!Operation, x = o
          PROVE  Sync!SubmitAndWait(t, x)
      <3> HIDE DEF i, o
      <3> QED BY <2>1, <2>2, <2>3, <2>4, <2>6, <2>7 DEF Sync!SubmitAndWait
    <2>8. o \in Sync!Operation
      BY <2>1
    <2> HIDE DEF i, o
    <2>9. \E x \in Sync!Operation : Sync!SubmitAndWait(t, x)
      BY <2>7, <2>8
    <2> QED BY <2>9 DEF Sync!Next
  <1>3. ASSUME NEW t \in Threads, NEW Q \in SUBSET Queues, pc[t] = "idle",
               pc' = [pc EXCEPT ![t] = "append"],
               owed' = [owed EXCEPT ![t] = WorkIn(Q, pending)],
               pending' = pending
        PROVE  Sync!Next
    <2>1. t \notin busy /\ busy' = busy \cup {t} /\ ops' = ops
      BY <1>3 DEF TypeOK
    <2>2. need' = [need EXCEPT ![t] = Sync!On(Q, ops)]
      BY <1>0, <1>3, OpsOfQueues DEF TypeOK
    <2>3. Sync!BeginWait(t, Q)
      BY <2>1, <2>2 DEF Sync!BeginWait
    <2> QED BY <2>3 DEF Sync!Next
  <1>4. ASSUME NEW t \in Threads, Call(t) PROVE Sync!Next
    <2>1. CASE \E q \in Queues : AsyncOperation(t, q) \/ MemCopy(t, q)
      BY <2>1, <1>1, <1>2
    <2>2. CASE \E q \in Queues : HipStreamSynchronize(t, q)
      <3>1. PICK q \in Queues : HipStreamSynchronize(t, q)
        BY <2>2
      <3>2. {q} \in SUBSET Queues
        OBVIOUS
      <3> QED BY <3>1, <3>2, <1>3 DEF HipStreamSynchronize, MayCall, deviceVars
    <2>3. CASE FinishAll(t)
      BY <2>3, <1>3 DEF FinishAll, deviceVars
    <2> QED BY <1>4, <2>1, <2>2, <2>3 DEF Call
  <1>5. ASSUME NEW t \in Threads, Finish(t)
        PROVE  Sync!Next \/ UNCHANGED Sync!vars
    <2>1. ASSUME NEW q \in Queues, FinishAppend(t, q)
          PROVE  UNCHANGED Sync!vars
      <3>1. ops' = ops
        BY <1>0, <2>1, OpsAppendBarrier DEF FinishAppend, AppendCommand
      <3>2. busy' = busy /\ need' = need
        BY <2>1 DEF FinishAppend, TypeOK
      <3> QED BY <3>1, <3>2 DEF Sync!vars
    <2>2. CASE FinishSync(t)
      <3>1. busy' = busy /\ need' = need /\ ops' = ops
        BY <2>2 DEF FinishSync, TypeOK, deviceVars
      <3> QED BY <3>1 DEF Sync!vars
    <2>3. CASE FinishReset(t) /\ todo[t] # {}
      <3>1. busy' = busy /\ need' = need /\ ops' = ops
        BY <2>3 DEF FinishReset, TypeOK
      <3> QED BY <3>1 DEF Sync!vars
    <2>4. CASE FinishReset(t) /\ todo[t] = {}
      <3>1. owed[t] = {}
        BY <2>4 DEF FinishReset, OwedOK
      <3>2. need[t] = {}
        BY <3>1 DEF WorkOps, WorkIn
      <3>3. t \in busy /\ busy' = busy \ {t} /\ ops' = ops /\ need' = need
        BY <2>4 DEF FinishReset, TypeOK
      <3>4. Sync!Return(t)
        BY <3>2, <3>3 DEF Sync!Return
      <3> QED BY <3>4 DEF Sync!Next
    <2> QED BY <1>5, <2>1, <2>2, <2>3, <2>4 DEF Finish
  <1>6. ASSUME NEW t \in Threads, FinishError(t) PROVE Sync!Next
    <2>1. WorkOps({}) = {}
      BY DEF WorkOps, WorkIn
    <2>2. t \in busy /\ busy' = busy \ {t} /\ ops' = ops
      BY <1>6 DEF FinishError, TypeOK, deviceVars, SingleOwner
    <2>3. need' = [need EXCEPT ![t] = {}]
      BY <1>6, <2>1 DEF FinishError, TypeOK
    <2>4. Sync!Fail(t)
      BY <2>2, <2>3 DEF Sync!Fail
    <2> QED BY <2>4 DEF Sync!Next
  <1>7. ASSUME NEW c \in pending, Complete(c)
        PROVE  Sync!Next \/ UNCHANGED Sync!vars
    <2>1. busy' = busy
      BY <1>7 DEF Complete
    <2>2. \A t \in Threads : owed[t] \in SUBSET pending
      BY DEF OwedOK, WorkIn
    <2>3. CASE c.kind # "work"
      <3>1. ops' = ops /\ need' = need
        BY <1>7, <2>2, <2>3, OpsComplete DEF Complete
      <3> QED BY <2>1, <3>1 DEF Sync!vars
    <2>4. CASE c.kind = "work"
      <3>1. /\ ops' = ops \ {OpOf(c)}
            /\ need' = [t \in Threads |-> need[t] \ {OpOf(c)}]
        BY <1>7, <2>2, <2>4, OpsComplete DEF Complete
      <3>2. OpOf(c) \in ops
        BY <1>0, <2>4 DEF WorkOps, WorkIn, OpOf, Command
      <3>3. OpOf(c) \in Sync!Operation
        BY <1>0, <2>4, QueueAssumption
        DEF PositionsOK, OpOf, Command, Sync!Operation
      <3>4. Sync!Complete(OpOf(c))
        BY <2>1, <3>1, <3>2 DEF Sync!Complete
      <3> QED BY <3>3, <3>4 DEF Sync!Next
    <2> QED BY <2>3, <2>4
  <1>8. CASE UNCHANGED vars
    BY <1>8 DEF vars, Sync!vars
  <1> QED BY <1>4, <1>5, <1>6, <1>7, <1>8 DEF Next

(* The initial states of the queue are initial states of StreamSync. *)
LEMMA InitRefines == Init => Sync!Init
  BY DEF Init, Sync!Init, WorkOps, WorkIn

(* The command list with its one finish event keeps StreamSync's promise:  *)
(* operations complete in any order, and a blocking call returns when the  *)
(* operations it named have completed.                                     *)
THEOREM QueueImplementsSync == ASSUME SingleOwner PROVE Spec => ImplementsStreamSync
  <1>1. IInv /\ [Next]_vars => [Sync!Next]_(Sync!vars)
    BY StepRefines
  <1> QED BY <1>1, InitRefines, Invariance, PTL
      DEF Spec, Sync!Spec, ImplementsStreamSync
=============================================================================
