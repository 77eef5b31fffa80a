---------------------------- MODULE StreamsProofs ----------------------------
(* What the vectors of queues and the active queue guarantee, and what the *)
(* copies and synchronisations on them do, for any number of devices and   *)
(* streams, and for how many threads.                                      *)
EXTENDS StreamWork, SequenceLemmas

(* What may be left to do of a construction, and the part of it that comes *)
(* after the constructor is through.                                       *)
Todos ==
  IF backend = "Level0"
    THEN { <<"context", "device", "build", "again">>, <<"device", "build", "again">>,
           <<"build", "again">>, <<"again">> }
    ELSE { <<"build", "device", "again">>, <<"device", "again">>, <<"again">> }
AfterBuild == { <<"device", "again">>, <<"again">> }

(* s may be the vector of device d. *)
Proper(d, s) ==
  s # <<>> /\ Head(s) = Primary[d] /\ \A q \in ToSet(s) : home[q] = d

Creating(t) == call[t].at \in {"create", "store"}

Typed ==
  /\ backend \in {"Level0", "OpenCL"}
  /\ chip_queues \in [Devices \cup {Context} -> Seq(DOMAIN home)]
  /\ active_dev \in Devices /\ active_q \in Queues
  /\ DOMAIN call = Threads
  /\ home \in [DOMAIN home -> Devices] /\ DOMAIN home \subseteq Queues
  /\ streams \subseteq built /\ built \subseteq DOMAIN home /\ thrown \subseteq DOMAIN home

CallTyped(t) ==
  /\ call[t].at \in {"idle", "create", "store", "remove", "set"}
  /\ Creating(t) =>
       /\ t \in Creators
       /\ call[t].queue \in DOMAIN home /\ home[call[t].queue] = call[t].dev
       /\ call[t].todo \in Todos
       /\ call[t].todo \in AfterBuild => call[t].queue \in built
  /\ call[t].at = "store" =>
       /\ Head(call[t].todo) # "build"
       /\ call[t].vector = IF Head(call[t].todo) = "context" THEN Context ELSE call[t].dev
       /\ call[t].seen \in Seq(DOMAIN home)
       /\ call[t].vector # Context => Proper(call[t].dev, call[t].seen)
  /\ call[t].at = "remove" => t \in Creators /\ call[t].queue \notin Primaries
  /\ call[t].at = "set" => t \in Setters /\ call[t].dev \in Devices

IInv ==
  /\ Typed
  /\ \A d \in Devices : Proper(d, chip_queues[d])
  /\ \A t \in Threads : CallTyped(t)

-----------------------------------------------------------------------------
(* The steps of a construction follow each other.                          *)
LEMMA TodoFacts ==
  ASSUME Typed, NEW todo \in Todos
  PROVE  /\ Len(todo) \in Nat \ {0}
         /\ Len(todo) = 1 => Head(todo) = "again" /\ todo \in AfterBuild
         /\ Len(todo) # 1 => /\ Tail(todo) \in Todos /\ Tail(todo) # Construction
                             /\ Head(todo) # "again"
         /\ Tail(todo) \in AfterBuild /\ Len(todo) # 1
              => todo \in AfterBuild \/ Head(todo) = "build"
         /\ Head(todo) = "build" => Len(todo) # 1
         /\ Head(todo) \in {"context", "device", "build", "again"}
         /\ backend = "Level0" => (todo = Construction <=> Head(todo) = "context")
<1>1. CASE todo = <<"context", "device", "build", "again">> /\ backend = "Level0"
  BY <1>1 DEF Todos, AfterBuild, Construction
<1>2. CASE todo = <<"device", "build", "again">> /\ backend = "Level0"
  BY <1>2 DEF Todos, AfterBuild, Construction
<1>3. CASE todo = <<"build", "again">> /\ backend = "Level0"
  BY <1>3 DEF Todos, AfterBuild, Construction
<1>4. CASE todo = <<"again">>
  BY <1>4 DEF Todos, AfterBuild, Construction
<1>5. CASE todo = <<"build", "device", "again">> /\ backend # "Level0"
  BY <1>5 DEF Todos, AfterBuild, Construction
<1>6. CASE todo = <<"device", "again">> /\ backend # "Level0"
  BY <1>6 DEF Todos, AfterBuild, Construction
<1>. QED BY <1>1, <1>2, <1>3, <1>4, <1>5, <1>6 DEF Todos

LEMMA ConstructionIsTodo ==
  ASSUME Typed
  PROVE  Construction \in Todos /\ Construction \notin AfterBuild
<1>1. CASE backend = "Level0" BY <1>1 DEF Construction, Todos, AfterBuild
<1>2. CASE backend # "Level0" BY <1>2 DEF Construction, Todos, AfterBuild
<1>. QED BY <1>1, <1>2

LEMMA PrimariesList ==
  IsFiniteSet(Primaries) /\ Primaries \subseteq Queues
<1>1. Primaries \subseteq Queues BY StreamsAssumption DEF Primaries
<1>. QED BY <1>1, StreamsAssumption, FS_Subset

LEMMA InitOK == Init => IInv
<1>. SUFFICES ASSUME Init PROVE IInv
  OBVIOUS
<1>1. DOMAIN home = Primaries BY DEF Init
<1>2. \A d \in Devices : Primary[d] \in Primaries /\ home[Primary[d]] = d
  BY StreamsAssumption DEF Init, Primaries
<1>3. home \in [Primaries -> Devices]
  BY <1>1, <1>2 DEF Init, Primaries
<1>4. \A d \in Devices : chip_queues[d] = <<Primary[d]>>
  BY StreamsAssumption DEF Init
<1>5. chip_queues[Context] \in Seq(Primaries)
  <2>1. SetToSeq(Primaries) \in Seq(Primaries) BY PrimariesList, SetToSeqProperties
  <2>2. <<>> \in Seq(Primaries) OBVIOUS
  <2>. QED BY <2>1, <2>2, StreamsAssumption DEF Init
<1>6. chip_queues \in [Devices \cup {Context} -> Seq(DOMAIN home)]
  <2>0. ASSUME NEW d \in Devices PROVE chip_queues[d] \in Seq(Primaries)
    <3>1. <<Primary[d]>> \in Seq(Primaries) BY <1>2
    <3>. QED BY <3>1, <1>4
  <2>1. \A x \in Devices \cup {Context} : chip_queues[x] \in Seq(DOMAIN home)
    BY <2>0, <1>1, <1>5
  <2>. QED BY <2>1 DEF Init
<1>7. Typed
  BY <1>1, <1>2, <1>3, <1>6, PrimariesList DEF Init, Typed
<1>8. ASSUME NEW d \in Devices PROVE Proper(d, chip_queues[d])
  BY <1>2, <1>4 DEF Proper, ToSet
<1>9. \A t \in Threads : CallTyped(t)
  BY DEF Init, Idle, CallTyped, Creating
<1>. QED BY <1>7, <1>8, <1>9 DEF IInv

-----------------------------------------------------------------------------
(* home and built only grow.                                               *)
Grows ==
  /\ DOMAIN home \subseteq DOMAIN home' /\ built \subseteq built'
  /\ \A q \in DOMAIN home : home'[q] = home[q]

LEMMA ProperKept ==
  ASSUME Grows, NEW d, NEW s \in Seq(DOMAIN home), Proper(d, s)
  PROVE  Proper(d, s)' /\ s \in Seq(DOMAIN home')
<1>1. ToSet(s) \subseteq DOMAIN home BY DEF ToSet
<1>. QED BY <1>1 DEF Proper, Grows

(* A thread that does not move stays in order. *)
LEMMA OthersKept ==
  ASSUME NEW s, CallTyped(s), call'[s] = call[s], backend' = backend, Grows
  PROVE  CallTyped(s)'
<1>1. Todos' = Todos BY DEF Todos
<1>2. call[s].at = "store" /\ call[s].vector # Context =>
        Proper(call[s].dev, call[s].seen)'
  <2>1. ASSUME call[s].at = "store", call[s].vector # Context
        PROVE  Proper(call[s].dev, call[s].seen)'
    <3>. DEFINE d == call[s].dev
                v == call[s].seen
    <3>1. v \in Seq(DOMAIN home) /\ Proper(d, v) BY <2>1 DEF CallTyped
    <3>. HIDE DEF d, v
    <3>2. ToSet(v) \subseteq DOMAIN home BY <3>1 DEF ToSet
    <3>3. v # <<>> /\ Head(v) = Primary[d] /\ \A q \in ToSet(v) : home'[q] = d
      BY <3>1, <3>2 DEF Proper, Grows
    <3>4. call'[s].dev = d /\ call'[s].seen = v BY DEF d, v
    <3>. QED BY <3>3, <3>4 DEF Proper
  <2>. QED BY <2>1
<1>. QED BY <1>1, <1>2 DEF CallTyped, Creating, Grows

(* A step of thread t that leaves it in order, and the vectors alone.      *)
LEMMA CallStepOK ==
  ASSUME IInv, NEW t \in Threads, NEW c, Become(t, c), CallTyped(t)', Grows,
         Typed', UNCHANGED <<backend, chip_queues>>
  PROVE  IInv'
<1>1. \A s \in Threads \ {t} : call'[s] = call[s]
  BY DEF Become, IInv, Typed
<1>2. \A s \in Threads \ {t} : CallTyped(s)'
  BY <1>1, OthersKept DEF IInv, Typed
<1>3. \A d \in Devices : Proper(d, chip_queues[d])'
  <2>1. ASSUME NEW d \in Devices PROVE Proper(d, chip_queues[d])'
    <3>1. chip_queues[d] \in Seq(DOMAIN home) /\ Proper(d, chip_queues[d])
      BY DEF IInv, Typed
    <3>2. ToSet(chip_queues[d]) \subseteq DOMAIN home BY <3>1 DEF ToSet
    <3>. QED BY <3>1, <3>2 DEF Proper, Grows
  <2>. QED BY <2>1
<1>. QED BY <1>2, <1>3 DEF IInv

LEMMA StreamCreateOK ==
  ASSUME IInv, NEW t \in Threads, NEW q \in Queues, StreamCreate(t, q)
  PROVE  IInv'
<1>. USE DEF StreamCreate
<1>1. /\ DOMAIN home' = DOMAIN home \cup {q} /\ q \notin DOMAIN home
      /\ home'[q] = active_dev /\ \A x \in DOMAIN home : home'[x] = home[x]
  OBVIOUS
<1>2. Grows BY <1>1 DEF Grows
<1>3. Typed'
  <2>1. home' \in [DOMAIN home' -> Devices]
    BY <1>1 DEF IInv, Typed
  <2>2. chip_queues' \in [Devices \cup {Context} -> Seq(DOMAIN home')]
    <3>1. \A s \in Seq(DOMAIN home) : s \in Seq(DOMAIN home') BY <1>1
    <3>. QED BY <3>1 DEF IInv, Typed
  <2>. QED BY <1>1, <2>1, <2>2 DEF IInv, Typed, Become
<1>4. CallTyped(t)'
  <2>1. /\ call'[t].at = "create" /\ call'[t].queue = q /\ call'[t].dev = active_dev
        /\ call'[t].todo = Construction
    BY DEF Become, IInv, Typed
  <2>2. Construction \in Todos' /\ Construction \notin AfterBuild
    BY ConstructionIsTodo DEF IInv, Todos
  <2>. QED BY <1>1, <2>1, <2>2 DEF CallTyped, Creating
<1>. QED BY <1>2, <1>3, <1>4, CallStepOK

(* Steps that leave home alone.                                            *)
LEMMA SimpleStepOK ==
  ASSUME IInv, NEW t \in Threads, NEW c, Become(t, c), CallTyped(t)',
         built \subseteq built', built' \subseteq DOMAIN home,
         thrown' \subseteq DOMAIN home, streams' = streams,
         active_dev' \in Devices, active_q' \in Queues,
         UNCHANGED <<backend, chip_queues, home>>
  PROVE  IInv'
<1>1. Grows BY DEF Grows
<1>2. Typed' BY DEF IInv, Typed, Become
<1>. QED BY <1>1, <1>2, CallStepOK

LEMMA RegisterOK ==
  ASSUME IInv, NEW t \in Threads, Register(t)
  PROVE  IInv'
<1>. DEFINE x == IF Head(call[t].todo) = "context" THEN Context ELSE call[t].dev
<1>1. CallTyped(t) /\ Creating(t) /\ call[t].queue \in DOMAIN home
      /\ home[call[t].queue] = call[t].dev /\ call[t].dev \in Devices
  BY DEF IInv, Register, Creating, CallTyped, Typed
<1>2. x \in Devices \cup {Context} /\ (x # Context => x = call[t].dev)
  BY <1>1
<1>3. Become(t, Reading(call[t], x)) BY DEF Register
<1>4. /\ call'[t].at = "store" /\ call'[t].queue = call[t].queue
      /\ call'[t].dev = call[t].dev /\ call'[t].todo = call[t].todo
      /\ call'[t].vector = x /\ call'[t].seen = chip_queues[x]
  BY <1>3 DEF Become, Reading, IInv, Typed
<1>5. Todos' = Todos /\ UNCHANGED <<backend, home, built>> BY DEF Register, Todos
<1>6. call'[t].vector # Context => Proper(call[t].dev, call[t].seen)'
  <2>1. ASSUME x # Context PROVE Proper(call[t].dev, call[t].seen)'
    <3>1. Proper(call[t].dev, chip_queues[x]) BY <2>1, <1>1, <1>2 DEF IInv
    <3>. QED BY <3>1, <1>4, <1>5 DEF Proper
  <2>. QED BY <2>1, <1>4
<1>7. call'[t].seen \in Seq(DOMAIN home') BY <1>2, <1>4, <1>5 DEF IInv, Typed
<1>8. CallTyped(t)'
  <2>1. Head(call'[t].todo) # "build"
    BY <1>4 DEF Register
  <2>. HIDE DEF x
  <2>2. call'[t].vector = IF Head(call'[t].todo) = "context" THEN Context ELSE call'[t].dev
    BY <1>4 DEF x
  <2>3. Creating(t)' BY <1>4 DEF Creating
  <2>. QED BY <1>1, <1>4, <1>5, <1>6, <1>7, <2>1, <2>2, <2>3 DEF CallTyped
<1>. QED BY <1>3, <1>8, SimpleStepOK DEF Register, IInv, Typed

(* The rest of a construction, once its next step is made.                 *)
LEMMA CreateNextOK ==
  ASSUME IInv, NEW t \in Threads, Creating(t), Become(t, CreateNext(call[t])),
         UNCHANGED <<backend, home>>,
         built \subseteq built',
         Head(call[t].todo) = "build" => call[t].queue \in built'
  PROVE  CallTyped(t)'
<1>1. CallTyped(t) /\ call[t].todo \in Todos /\ Todos' = Todos
  BY DEF IInv, CallTyped, Todos
<1>2. CASE Len(call[t].todo) = 1
  <2>1. call'[t].at = "idle" BY <1>2 DEF Become, CreateNext, Idle, IInv, Typed
  <2>. QED BY <2>1 DEF CallTyped, Creating
<1>3. CASE Len(call[t].todo) # 1
  <2>1. /\ call'[t].at = "create" /\ call'[t].queue = call[t].queue
        /\ call'[t].dev = call[t].dev /\ call'[t].todo = Tail(call[t].todo)
    BY <1>3 DEF Become, CreateNext, IInv, Typed
  <2>2. /\ Tail(call[t].todo) \in Todos
        /\ Tail(call[t].todo) \in AfterBuild
              => call[t].todo \in AfterBuild \/ Head(call[t].todo) = "build"
    BY <1>1, <1>3, TodoFacts DEF IInv
  <2>. QED BY <1>1, <2>1, <2>2 DEF CallTyped, Creating
<1>. QED BY <1>2, <1>3

LEMMA BuildOK ==
  ASSUME IInv, NEW t \in Threads, Build(t)
  PROVE  IInv'
<1>. USE DEF Build
<1>1. Creating(t) /\ call[t].queue \in DOMAIN home
  BY DEF Creating, IInv, CallTyped
<1>2. CallTyped(t)' BY <1>1, CreateNextOK
<1>. QED BY <1>1, <1>2, SimpleStepOK DEF IInv, Typed

LEMMA IdleOK ==
  ASSUME IInv, NEW t \in Threads, Become(t, Idle)
  PROVE  CallTyped(t)'
<1>1. call'[t].at = "idle" BY DEF Become, Idle, IInv, Typed
<1>. QED BY <1>1 DEF CallTyped, Creating

LEMMA OtherStepsOK ==
  ASSUME IInv, NEW t \in Threads,
         \/ BuildFails(t) \/ \E s \in Queues : StreamDestroy(t, s)
         \/ \E d \in Devices : SetDevice(t, d)
         \/ SetQueue(t)
  PROVE  IInv'
<1>1. CASE BuildFails(t)
  <2>1. call[t].queue \in DOMAIN home
    BY <1>1 DEF BuildFails, Creating, IInv, CallTyped
  <2>. QED BY <1>1, <2>1, IdleOK, SimpleStepOK DEF BuildFails, IInv, Typed
<1>2. ASSUME NEW s \in Queues, StreamDestroy(t, s) PROVE IInv'
  <2>1. Become(t, [at |-> "remove", queue |-> s])
    BY <1>2 DEF StreamDestroy, findQueue
  <2>2. call'[t].at = "remove" /\ call'[t].queue = s
    BY <2>1 DEF Become, IInv, Typed
  <2>3. CallTyped(t)' BY <1>2, <2>2 DEF CallTyped, Creating, StreamDestroy
  <2>. QED BY <1>2, <2>1, <2>3, SimpleStepOK DEF StreamDestroy, IInv, Typed
<1>3. ASSUME NEW d \in Devices, SetDevice(t, d) PROVE IInv'
  <2>1. call'[t].at = "set" /\ call'[t].dev = d
    BY <1>3 DEF SetDevice, Become, IInv, Typed
  <2>2. CallTyped(t)' BY <1>3, <2>1 DEF CallTyped, Creating, SetDevice
  <2>. QED BY <1>3, <2>2, SimpleStepOK DEF SetDevice, IInv, Typed
<1>4. CASE SetQueue(t)
  <2>1. call[t].dev \in Devices BY <1>4 DEF SetQueue, IInv, CallTyped
  <2>2. chip_queues[call[t].dev] \in Seq(DOMAIN home) /\ DOMAIN home \subseteq Queues
    BY <2>1 DEF IInv, Typed
  <2>3. active_q' \in Queues BY <1>4, <2>2 DEF SetQueue
  <2>. QED BY <1>4, <2>3, IdleOK, SimpleStepOK DEF SetQueue, IInv, Typed
<1>. QED BY <1>1, <1>2, <1>3, <1>4

(* A step that changes one vector, to one that may be that vector.         *)
LEMMA VectorStepOK ==
  ASSUME IInv, NEW t \in Threads, NEW c, Become(t, c), CallTyped(t)',
         NEW x \in Devices \cup {Context}, NEW s \in Seq(DOMAIN home),
         x # Context => Proper(x, s),
         chip_queues' = [chip_queues EXCEPT ![x] = s],
         streams' \subseteq built,
         UNCHANGED <<backend, active_dev, active_q, home, built, thrown>>
  PROVE  IInv'
<1>1. chip_queues' \in [Devices \cup {Context} -> Seq(DOMAIN home)]
      /\ chip_queues'[x] = s
      /\ \A y \in (Devices \cup {Context}) \ {x} : chip_queues'[y] = chip_queues[y]
  BY DEF IInv, Typed
<1>2. Typed' BY <1>1 DEF IInv, Typed, Become
<1>3. \A d \in Devices : Proper(d, chip_queues[d])'
  <2>1. ASSUME NEW d \in Devices PROVE Proper(d, chip_queues[d])'
    <3>1. CASE d = x BY <3>1, <1>1, StreamsAssumption DEF Proper
    <3>2. CASE d # x BY <3>2, <1>1 DEF Proper, IInv
    <3>. QED BY <3>1, <3>2
  <2>. QED BY <2>1
<1>4. \A u \in Threads : CallTyped(u)'
  <2>1. ASSUME NEW u \in Threads, u # t PROVE CallTyped(u)'
    <3>1. call'[u] = call[u] /\ Grows BY <2>1 DEF Become, IInv, Typed, Grows
    <3>. QED BY <3>1, OthersKept DEF IInv
  <2>. QED BY <2>1
<1>. QED BY <1>2, <1>3, <1>4 DEF IInv

(* What StoreVector stores. *)
LEMMA StoredVector ==
  ASSUME IInv, NEW t \in Threads, call[t].at = "store"
  PROVE  /\ call[t].vector \in Devices \cup {Context}
         /\ call[t].queue \in DOMAIN home /\ home[call[t].queue] = call[t].dev
         /\ call[t].vector # Context => call[t].vector = call[t].dev
         /\ Append(call[t].seen, call[t].queue) \in Seq(DOMAIN home)
         /\ ToSet(Append(call[t].seen, call[t].queue))
              = ToSet(call[t].seen) \cup {call[t].queue}
         /\ call[t].vector # Context =>
              Proper(call[t].vector, Append(call[t].seen, call[t].queue))
<1>. DEFINE s == call[t].seen
            q == call[t].queue
            d == call[t].dev
<1>1. /\ q \in DOMAIN home /\ home[q] = d /\ d \in Devices
      /\ s \in Seq(DOMAIN home)
      /\ call[t].vector = IF Head(call[t].todo) = "context" THEN Context ELSE d
      /\ call[t].vector # Context => Proper(d, s)
  BY DEF IInv, Typed, CallTyped, Creating
<1>. HIDE DEF s, q, d
<1>2. /\ Append(s, q) \in Seq(DOMAIN home)
      /\ ToSet(Append(s, q)) = ToSet(s) \cup {q}
  BY <1>1, AppendSet
<1>3. s # <<>> => Append(s, q) # <<>> /\ Head(Append(s, q)) = Head(s)
  BY <1>1, <1>2, HeadTailAppend, AppendProperties
<1>4. Proper(d, s) => Proper(d, Append(s, q))
  BY <1>1, <1>2, <1>3 DEF Proper
<1>5. call[t].vector \in Devices \cup {Context}
      /\ (call[t].vector # Context => call[t].vector = d)
  BY <1>1
<1>. QED BY <1>1, <1>2, <1>4, <1>5 DEF s, q, d

LEMMA StoreVectorOK ==
  ASSUME IInv, NEW t \in Threads, StoreVector(t)
  PROVE  IInv'
<1>1. /\ Creating(t) /\ call[t].at = "store" /\ Head(call[t].todo) # "build"
      /\ call[t].todo \in Todos
      /\ call[t].todo \in AfterBuild => call[t].queue \in built
  BY DEF StoreVector, Creating, IInv, CallTyped
<1>2. Become(t, CreateNext(call[t])) /\ UNCHANGED <<backend, home, built>>
  BY DEF StoreVector
<1>3. CallTyped(t)' BY <1>1, <1>2, CreateNextOK
<1>4. streams' \subseteq built
  <2>1. Len(call[t].todo) = 1 => call[t].queue \in built
    BY <1>1, TodoFacts DEF IInv
  <2>. QED BY <2>1 DEF StoreVector, IInv, Typed
<1>5. CASE chip_queues' = chip_queues
  <2>1. Head(call[t].todo) # "build" /\ Grows BY <1>1, <1>2 DEF Grows
  <2>2. Typed' BY <1>4, <1>5 DEF StoreVector, IInv, Typed, Become
  <2>. QED BY <1>2, <1>3, <1>5, <2>1, <2>2, CallStepOK
<1>6. CASE chip_queues' = [chip_queues EXCEPT ![call[t].vector] =
                             Append(call[t].seen, call[t].queue)]
  <2>. DEFINE x == call[t].vector
              s == Append(call[t].seen, call[t].queue)
  <2>1. x \in Devices \cup {Context} /\ s \in Seq(DOMAIN home)
        /\ (x # Context => Proper(x, s))
    BY <1>1, StoredVector
  <2>2. chip_queues' = [chip_queues EXCEPT ![x] = s] BY <1>6
  <2>. HIDE DEF x, s
  <2>. QED BY <1>2, <1>3, <1>4, <2>1, <2>2, VectorStepOK DEF StoreVector
<1>. QED BY <1>5, <1>6 DEF StoreVector

LEMMA RemoveQueueOK ==
  ASSUME IInv, NEW t \in Threads, RemoveQueue(t)
  PROVE  IInv'
<1>. DEFINE q == call[t].queue
            s == RemoveFirst(chip_queues[active_dev], q)
<1>1. Become(t, Idle) /\ CallTyped(t)' BY IdleOK DEF RemoveQueue
<1>2. CASE UNCHANGED <<chip_queues, streams>>
  BY <1>1, <1>2, SimpleStepOK DEF RemoveQueue, IInv, Typed
<1>3. CASE /\ chip_queues' = [chip_queues EXCEPT ![active_dev] = s]
           /\ streams' = streams \ {q}
  <2>1. /\ chip_queues[active_dev] \in Seq(DOMAIN home) /\ active_dev \in Devices
        /\ Proper(active_dev, chip_queues[active_dev])
    BY DEF IInv, Typed
  <2>2. q # Primary[active_dev]
    BY <2>1 DEF RemoveQueue, IInv, CallTyped, Primaries
  <2>. HIDE DEF q
  <2>3. s \in Seq(DOMAIN home) /\ s # <<>> /\ Head(s) = Primary[active_dev]
        /\ ToSet(s) \subseteq ToSet(chip_queues[active_dev])
    BY <2>1, <2>2, RemoveFirstHead, RemoveFirstProperties DEF Proper
  <2>. HIDE DEF s
  <2>4. Proper(active_dev, s) BY <2>1, <2>3 DEF Proper
  <2>5. streams' \subseteq built BY <1>3 DEF IInv, Typed
  <2>. QED BY <1>1, <1>3, <2>1, <2>3, <2>4, <2>5, VectorStepOK DEF RemoveQueue
<1>. QED BY <1>2, <1>3 DEF RemoveQueue

LEMMA StepOK == IInv /\ [Next]_vars => IInv'
<1>. SUFFICES ASSUME IInv, [Next]_vars PROVE IInv'
  OBVIOUS
<1>1. CASE UNCHANGED vars
  <2>1. Grows BY <1>1 DEF Grows, vars
  <2>2. \A t \in Threads : CallTyped(t)'
    BY <1>1, <2>1, OthersKept DEF IInv, vars
  <2>3. Typed' BY <1>1 DEF IInv, Typed, vars
  <2>4. \A d \in Devices : Proper(d, chip_queues[d])'
    BY <1>1 DEF IInv, Proper, vars
  <2>. QED BY <2>2, <2>3, <2>4 DEF IInv
<1>. QED
  BY <1>1, StreamCreateOK, RegisterOK, BuildOK, OtherStepsOK, StoreVectorOK,
     RemoveQueueOK DEF Next, Step

LEMMA Invariant == Spec => []IInv
BY InitOK, StepOK, PTL DEF Spec

(* No device lists a queue that was made for another one, however many     *)
(* threads create, destroy and switch.                                     *)
THEOREM StateCorrect == Spec => []StateOK
<1>1. IInv => StateOK
  <2>. SUFFICES ASSUME IInv PROVE StateOK
    OBVIOUS
  <2>1. DOMAIN chip_queues = Devices \cup {Context}
        /\ \A x \in DOMAIN chip_queues : Listed(x) \subseteq DOMAIN home
    BY DEF IInv, Typed, Listed, ToSet
  <2>2. ToSet(home) \subseteq Devices BY DEF IInv, Typed, ToSet
  <2>3. DeviceListsOwn BY DEF IInv, Proper, DeviceListsOwn, Listed
  <2>. QED BY <2>1, <2>2, <2>3 DEF IInv, Typed, StateOK, TypeOK
<1>. QED BY <1>1, Invariant, PTL

-----------------------------------------------------------------------------
(* One thread at most calls hipSetDevice.                                  *)
OneSetter == \A s, t \in Setters : s = t

SetterInv ==
  /\ \A t \in Threads : call[t].at = "set" => call[t].dev = active_dev
  /\ (\A t \in Threads : call[t].at # "set") => active_q = Primary[active_dev]

(* The steps of the calls other than hipSetDevice. *)
LEMMA OtherCalls ==
  ASSUME IInv, NEW t \in Threads, Step(t),
         ~ SetQueue(t), \A d \in Devices : ~ SetDevice(t, d)
  PROVE  /\ UNCHANGED <<active_dev, active_q>>
         /\ call[t].at # "set" /\ call'[t].at # "set"
         /\ \A s \in Threads \ {t} : call'[s] = call[s]
<1>. USE DEF Become
<1>0. DOMAIN call = Threads BY DEF IInv, Typed
<1>1. ASSUME NEW q \in Queues, StreamCreate(t, q)
      PROVE  call[t].at # "set" /\ call'[t].at # "set"
  BY <1>0, <1>1 DEF StreamCreate, Idle
<1>2. ASSUME NEW q \in Queues, StreamDestroy(t, q)
      PROVE  call[t].at # "set" /\ call'[t].at # "set"
  BY <1>0, <1>2 DEF StreamDestroy, Idle
<1>3. CASE Register(t) \/ StoreVector(t) \/ Build(t) \/ BuildFails(t) \/ RemoveQueue(t)
  BY <1>0, <1>3
     DEF Register, Reading, StoreVector, Build, BuildFails, RemoveQueue, CreateNext, Idle
<1>4. \A s \in Threads \ {t} : call'[s] = call[s]
  BY <1>0 DEF Step, StreamCreate, StreamDestroy, Register, StoreVector, Build,
              BuildFails, RemoveQueue
<1>5. UNCHANGED <<active_dev, active_q>>
  BY DEF Step, StreamCreate, StreamDestroy, Register, StoreVector, Build,
         BuildFails, RemoveQueue
<1>. QED BY <1>1, <1>2, <1>3, <1>4, <1>5 DEF Step

LEMMA SetterStep ==
  ASSUME OneSetter, IInv, SetterInv, [Next]_vars
  PROVE  SetterInv'
<1>0. DOMAIN call = Threads BY DEF IInv, Typed
<1>1. CASE UNCHANGED vars BY <1>1 DEF SetterInv, vars
<1>2. ASSUME NEW t \in Threads, NEW d \in Devices, SetDevice(t, d) PROVE SetterInv'
  <2>1. call'[t].at = "set" /\ call'[t].dev = d /\ active_dev' = d
        /\ t \in Setters /\ call[t].at = "idle"
    BY <1>0, <1>2 DEF SetDevice, Become, Idle
  <2>2. ASSUME NEW s \in Threads, s # t PROVE call'[s].at # "set"
    BY <1>0, <1>2, <2>1, <2>2 DEF SetDevice, Become, IInv, CallTyped, OneSetter
  <2>. QED BY <2>1, <2>2 DEF SetterInv
<1>3. ASSUME NEW t \in Threads, SetQueue(t) PROVE SetterInv'
  <2>1. active_q' = Primary[active_dev] /\ active_dev' = active_dev
    BY <1>3 DEF SetQueue, SetterInv, IInv, Proper, Typed
  <2>2. call'[t].at # "set" /\ \A s \in Threads \ {t} : call'[s] = call[s]
    BY <1>0, <1>3 DEF SetQueue, Become, Idle
  <2>. QED BY <2>1, <2>2 DEF SetterInv
<1>4. ASSUME NEW t \in Threads, Step(t), ~ SetQueue(t),
             \A d \in Devices : ~ SetDevice(t, d)
      PROVE  SetterInv'
  BY <1>4, OtherCalls DEF SetterInv
<1>. QED BY <1>1, <1>2, <1>3, <1>4 DEF Next

(* While no thread is switching, the active queue is the first queue of    *)
(* the active device, if one thread does all the switching: whatever other *)
(* threads create and destroy meanwhile.                                   *)
THEOREM ActiveCorrect ==
  ASSUME OneSetter
  PROVE  Spec => []ActiveIsPrimary
<1>1. Init => SetterInv BY DEF Init, SetterInv, Idle
<1>2. IInv /\ SetterInv /\ [Next]_vars => SetterInv' BY SetterStep
<1>3. IInv /\ SetterInv => ActiveIsPrimary
  BY DEF IInv, Typed, Proper, SetterInv, ActiveIsPrimary
<1>. QED BY <1>1, <1>2, <1>3, Invariant, PTL DEF Spec

-----------------------------------------------------------------------------
(* One thread at most creates and destroys streams.                        *)
OneCreator == \A s, t \in Creators : s = t

CreatorInv ==
  /\ \A t \in Threads : call[t].at = "store" => call[t].seen = chip_queues[call[t].vector]
  /\ \A t \in Threads :
       backend = "Level0" /\ Creating(t) /\ call[t].todo # Construction
         => call[t].queue \in Listed(Context)
  /\ StreamsAreFound /\ ContextKnowsStreams

LEMMA CreatorInit == Init => CreatorInv
<1>. SUFFICES ASSUME Init PROVE CreatorInv
  OBVIOUS
<1>1. StreamsAreFound
  <2>1. ASSUME NEW q \in Primaries PROVE q \in Listed(home[q])
    <3>1. home[q] \in Devices /\ Primary[home[q]] = q BY DEF Init, Primaries
    <3>2. chip_queues[home[q]] = <<q>> BY <3>1, StreamsAssumption DEF Init
    <3>. QED BY <3>2 DEF Listed, ToSet
  <2>. QED BY <2>1 DEF Init, StreamsAreFound
<1>2. ContextKnowsStreams
  BY PrimariesList, SetToSeqProperties DEF Init, ContextKnowsStreams, Listed
<1>. QED BY <1>1, <1>2 DEF Init, CreatorInv, Idle, Creating

(* Nobody but the creator touches the vectors or is at work on a queue.    *)
LEMMA CreatorAlone ==
  ASSUME OneCreator, IInv, NEW t \in Creators, NEW s \in Threads, s # t
  PROVE  ~ Creating(s)
BY DEF OneCreator, IInv, CallTyped

LEMMA CreatorStep ==
  ASSUME OneCreator, IInv, CreatorInv, NEW t \in Threads, Step(t)
  PROVE  CreatorInv'
<1>. USE DEF CreatorInv
<1>0. DOMAIN call = Threads BY DEF IInv, Typed
<1>1. ASSUME NEW d \in Devices, SetDevice(t, d) PROVE CreatorInv'
  <2>1. call'[t].at = "set" /\ \A s \in Threads \ {t} : call'[s] = call[s]
    BY <1>0, <1>1 DEF SetDevice, Become
  <2>. QED
    BY <2>1, <1>1 DEF SetDevice, Creating, Listed, StreamsAreFound,
                      ContextKnowsStreams, Construction
<1>2. CASE SetQueue(t) \/ BuildFails(t)
  <2>1. call'[t].at = "idle" /\ \A s \in Threads \ {t} : call'[s] = call[s]
    BY <1>0, <1>2 DEF SetQueue, BuildFails, Become, Idle
  <2>2. UNCHANGED <<backend, chip_queues, home, streams>>
    BY <1>2 DEF SetQueue, BuildFails
  <2>. QED
    BY <2>1, <2>2 DEF Creating, Listed, StreamsAreFound, ContextKnowsStreams, Construction
<1>3. ASSUME NEW q \in Queues, StreamDestroy(t, q) PROVE CreatorInv'
  <2>1. call'[t].at = "remove" /\ \A s \in Threads \ {t} : call'[s] = call[s]
    BY <1>0, <1>3 DEF StreamDestroy, Become
  <2>. QED
    BY <2>1, <1>3 DEF StreamDestroy, Creating, Listed, StreamsAreFound,
                      ContextKnowsStreams, Construction
<1>4. ASSUME NEW q \in Queues, StreamCreate(t, q) PROVE CreatorInv'
  <2>1. call'[t].at = "create" /\ call'[t].todo = Construction
        /\ \A s \in Threads \ {t} : call'[s] = call[s]
    BY <1>0, <1>4 DEF StreamCreate, Become
  <2>2. UNCHANGED <<backend, chip_queues, streams>> /\ Construction' = Construction
        /\ \A x \in DOMAIN home : home'[x] = home[x]
    BY <1>4 DEF StreamCreate, Construction
  <2>3. streams \subseteq DOMAIN home BY DEF IInv, Typed
  <2>4. StreamsAreFound' BY <2>2, <2>3 DEF StreamsAreFound, Listed
  <2>. QED BY <2>1, <2>2, <2>4 DEF Creating, Listed, ContextKnowsStreams
<1>5. CASE Register(t)
  <2>. DEFINE x == IF Head(call[t].todo) = "context" THEN Context ELSE call[t].dev
  <2>1. Become(t, Reading(call[t], x)) BY <1>5 DEF Register
  <2>. HIDE DEF x
  <2>2. /\ call'[t].at = "store" /\ call'[t].seen = chip_queues[call'[t].vector]
        /\ call'[t].todo = call[t].todo /\ call'[t].queue = call[t].queue
        /\ \A s \in Threads \ {t} : call'[s] = call[s]
    BY <1>0, <2>1 DEF Become, Reading
  <2>3. UNCHANGED <<backend, chip_queues, home, streams, Construction>> /\ Creating(t)
    BY <1>5 DEF Register, Construction, Creating
  <2>. QED BY <2>2, <2>3 DEF Creating, Listed, StreamsAreFound, ContextKnowsStreams
<1>6. CASE Build(t)
  <2>1. Head(call[t].todo) = "build" /\ Creating(t) /\ call[t].todo \in Todos
    BY <1>6 DEF Build, Creating, IInv, CallTyped
  <2>2. Len(call[t].todo) # 1 BY <2>1, TodoFacts DEF IInv
  <2>3. backend = "Level0" => call[t].todo # Construction
    BY <2>1, TodoFacts DEF IInv
  <2>4. /\ call'[t].at = "create" /\ call'[t].queue = call[t].queue
        /\ \A s \in Threads \ {t} : call'[s] = call[s]
    BY <1>0, <1>6, <2>2 DEF Build, Become, CreateNext
  <2>5. UNCHANGED <<backend, chip_queues, home, streams, Construction>>
    BY <1>6 DEF Build, Construction
  <2>. QED
    BY <2>1, <2>3, <2>4, <2>5 DEF Creating, Listed, StreamsAreFound, ContextKnowsStreams
<1>7. CASE StoreVector(t)
  <2>. DEFINE q == call[t].queue
              x == call[t].vector
              s == Append(call[t].seen, q)
  <2>1. Creating(t) /\ call[t].at = "store" /\ t \in Creators /\ call[t].todo \in Todos
        /\ call[t].vector = IF Head(call[t].todo) = "context" THEN Context ELSE call[t].dev
    BY <1>7 DEF StoreVector, Creating, IInv, CallTyped
  <2>2. \A u \in Threads \ {t} : ~ Creating(u) BY <2>1, CreatorAlone
  <2>3. \A u \in Threads \ {t} : call'[u] = call[u]
    BY <1>0, <1>7 DEF StoreVector, Become
  <2>4. /\ x \in Devices \cup {Context} /\ home[q] = call[t].dev
        /\ ToSet(s) = ToSet(chip_queues[x]) \cup {q}
    BY <2>1, StoredVector
  <2>5. \/ chip_queues' = chip_queues /\ Head(call[t].todo) = "device"
        \/ chip_queues' = [chip_queues EXCEPT ![x] = s]
    BY <1>7 DEF StoreVector
  <2>6. DOMAIN chip_queues = Devices \cup {Context} BY DEF IInv, Typed
  <2>. HIDE DEF s
  <2>7. /\ \A y \in Devices \cup {Context} : ToSet(chip_queues[y]) \subseteq ToSet(chip_queues'[y])
        /\ Head(call[t].todo) # "device" => q \in ToSet(chip_queues'[x])
    BY <2>4, <2>5, <2>6
  <2>8. UNCHANGED <<backend, home, Construction>>
        /\ streams' = (IF Len(call[t].todo) = 1 THEN streams \cup {q} ELSE streams)
    BY <1>7 DEF StoreVector, Construction
  <2>9. /\ Len(call[t].todo) = 1 => Head(call[t].todo) = "again"
        /\ backend = "Level0" => (call[t].todo = Construction <=> Head(call[t].todo) = "context")
        /\ backend = "Level0" /\ Len(call[t].todo) = 1 => call[t].todo # Construction
    BY <2>1, TodoFacts DEF IInv
  <2>10. backend = "Level0" => q \in ToSet(chip_queues'[Context])
    <3>1. CASE call[t].todo = Construction /\ backend = "Level0"
      <4>1. Head(call[t].todo) = "context" BY <3>1, <2>9
      <4>2. Head(call[t].todo) # "device" /\ x = Context BY <4>1, <2>1
      <4>. QED BY <4>2, <2>7
    <3>2. CASE call[t].todo # Construction
      BY <3>2, <2>1, <2>7 DEF Listed
    <3>. QED BY <3>1, <3>2
  <2>11. StreamsAreFound'
    <3>1. ASSUME NEW e \in streams PROVE e \in ToSet(chip_queues'[home[e]])
      <4>1. e \in ToSet(chip_queues[home[e]]) BY DEF StreamsAreFound, Listed
      <4>2. home[e] \in Devices BY DEF IInv, Typed
      <4>. QED BY <4>1, <4>2, <2>7
    <3>2. ASSUME Len(call[t].todo) = 1 PROVE q \in ToSet(chip_queues'[home[q]])
      <4>1. Head(call[t].todo) = "again" BY <3>2, <2>9
      <4>2. x = home[q] /\ Head(call[t].todo) # "device" BY <4>1, <2>1, <2>4
      <4>. QED BY <4>2, <2>7
    <3>. QED BY <3>1, <3>2, <2>8 DEF StreamsAreFound, Listed
  <2>12. ContextKnowsStreams'
    BY <2>7, <2>8, <2>10 DEF ContextKnowsStreams, Listed
  <2>13. call'[t].at # "store" /\ (Creating(t)' => call'[t].queue = q)
    BY <1>0, <1>7 DEF StoreVector, Become, CreateNext, Idle, Creating
  <2>14. \A u \in Threads \ {t} : ~ Creating(u)' /\ call'[u].at # "store"
    BY <2>2, <2>3 DEF Creating
  <2>15. \A u \in Threads :
           backend' = "Level0" /\ Creating(u)' /\ call'[u].todo # Construction'
             => call'[u].queue \in Listed(Context)'
    BY <2>8, <2>10, <2>13, <2>14 DEF Listed
  <2>. QED BY <2>11, <2>12, <2>13, <2>14, <2>15
<1>8. CASE RemoveQueue(t)
  <2>. DEFINE q == call[t].queue
              r == RemoveFirst(chip_queues[active_dev], q)
  <2>1. t \in Creators /\ active_dev \in Devices BY <1>8 DEF RemoveQueue, IInv, CallTyped, Typed
  <2>2. call'[t].at = "idle" /\ \A u \in Threads \ {t} : call'[u] = call[u]
    BY <1>0, <1>8 DEF RemoveQueue, Become, Idle
  <2>3. \A u \in Threads : ~ Creating(u)' /\ call'[u].at # "store"
    BY <2>1, <2>2, CreatorAlone DEF Creating
  <2>4. CASE UNCHANGED <<chip_queues, streams>>
    BY <1>8, <2>3, <2>4 DEF RemoveQueue, Listed, StreamsAreFound, ContextKnowsStreams
  <2>5. CASE /\ chip_queues' = [chip_queues EXCEPT ![active_dev] = r]
             /\ streams' = streams \ {q}
    <3>1. chip_queues[active_dev] \in Seq(DOMAIN home)
          /\ DOMAIN chip_queues = Devices \cup {Context}
      BY <2>1 DEF IInv, Typed
    <3>2. ToSet(chip_queues[active_dev]) \ {q} \subseteq ToSet(r)
      BY <3>1, RemoveFirstProperties
    <3>. HIDE DEF r
    <3>3. chip_queues'[Context] = chip_queues[Context]
      BY <2>1, <2>5, <3>1, StreamsAssumption
    <3>4. \A y \in Devices : ToSet(chip_queues[y]) \ {q} \subseteq ToSet(chip_queues'[y])
      BY <2>1, <2>5, <3>1, <3>2
    <3>5. \A e \in streams : home[e] \in Devices BY DEF IInv, Typed
    <3>6. StreamsAreFound'
      BY <1>8, <2>5, <3>4, <3>5 DEF RemoveQueue, StreamsAreFound, Listed
    <3>7. ContextKnowsStreams'
      BY <1>8, <2>5, <3>3 DEF RemoveQueue, ContextKnowsStreams, Listed
    <3>. QED BY <2>3, <3>6, <3>7
  <2>. QED BY <1>8, <2>4, <2>5 DEF RemoveQueue
<1>. QED BY <1>1, <1>2, <1>3, <1>4, <1>5, <1>6, <1>7, <1>8 DEF Step

LEMMA CreatorInvariant ==
  ASSUME OneCreator
  PROVE  Spec => []CreatorInv
<1>1. IInv /\ CreatorInv /\ [Next]_vars => CreatorInv'
  <2>1. ASSUME CreatorInv, UNCHANGED vars PROVE CreatorInv'
    BY <2>1 DEF CreatorInv, vars, Creating, Construction, Listed, StreamsAreFound,
                ContextKnowsStreams
  <2>. QED BY <2>1, CreatorStep DEF Next
<1>. QED BY <1>1, CreatorInit, Invariant, PTL DEF Spec

(* A stream is accepted whenever its device is active, until it is         *)
(* destroyed, if one thread creates and destroys: whoever switches.        *)
THEOREM FoundCorrect ==
  ASSUME OneCreator
  PROVE  Spec => []StreamsAreFound
<1>1. CreatorInv => StreamsAreFound BY DEF CreatorInv
<1>. QED BY <1>1, CreatorInvariant, PTL

(* And on Level Zero hipDeviceSynchronize knows it, as long as it is a     *)
(* stream of the application.                                              *)
THEOREM ContextCorrect ==
  ASSUME OneCreator
  PROVE  Spec => []ContextKnowsStreams
<1>1. CreatorInv => ContextKnowsStreams BY DEF CreatorInv
<1>. QED BY <1>1, CreatorInvariant, PTL
-----------------------------------------------------------------------------
(* The work on the streams: a step of it is a step of Streams or leaves    *)
(* Streams alone, so that what holds there holds here.                     *)
LEMMA WorkSteps ==
  ASSUME [WorkNext]_workVars
  PROVE  [Next]_vars
<1>1. CASE UNCHANGED workVars BY <1>1 DEF workVars, registry
<1>2. ASSUME NEW t \in Threads, Manage(t) PROVE Next
  BY <1>2 DEF Manage, Next
<1>3. ASSUME NEW t \in Threads, Work(t) PROVE UNCHANGED vars
  BY <1>3 DEF Work, registry, MemcpyAsync, Memcpy, MemcpyOpenCL, CopyRows, Row, RowOnHost, RowFails,
     FinishRows, DeviceSynchronize, FinishNext, FinishDangling, AllFinished, WaitEnds,
     WaitFails, Acknowledge
<1>4. ASSUME NEW o \in Sync!Operation, Complete(o) PROVE UNCHANGED vars
  BY <1>4 DEF Complete, registry
<1>. QED BY <1>1, <1>2, <1>3, <1>4 DEF WorkNext, Down

(* The copies and synchronisations change nothing that Streams is about:   *)
(* every theorem above holds while they go on.                             *)
THEOREM WorkImplementsStreams == WorkSpec => Spec
BY WorkSteps, PTL DEF WorkSpec, WorkInit, Spec

(* What the API layer asks of the queues is a step of StreamSync.          *)
LEMMA QueueSteps ==
  ASSUME IInv, [WorkNext]_workVars
  PROVE  [Sync!Next]_(Sync!vars)
<1>. USE DEF Sync!Next
<1>1. ASSUME UNCHANGED queues PROVE UNCHANGED Sync!vars BY <1>1 DEF queues, Sync!vars
<1>2. CASE UNCHANGED workVars BY <1>1, <1>2 DEF workVars
<1>3. ASSUME NEW t \in Threads, Manage(t) PROVE UNCHANGED queues
  BY <1>3 DEF Manage
<1>4. ASSUME NEW o \in Sync!Operation, Complete(o) PROVE Sync!Next
  BY <1>4 DEF Complete
<1>5. ASSUME NEW t \in Threads, Work(t) PROVE Sync!Next \/ UNCHANGED queues
  <2>1. ASSUME NEW s \in Queues, MemcpyAsync(t, s) PROVE Sync!Next
    BY <2>1 DEF MemcpyAsync, Ops
  <2>2. CASE Memcpy(t)
    BY <2>2 DEF Memcpy, Ops
  <2>3. CASE MemcpyOpenCL(t)
    BY <2>3 DEF MemcpyOpenCL, Ops
  <2>4. CASE Row(t)
    BY <2>4 DEF Row, Ops
  <2>5. CASE FinishRows(t)
    <3>1. {active_q} \in SUBSET Queues BY DEF IInv, Typed
    <3>. QED BY <2>5, <3>1 DEF FinishRows
  <2>6. CASE FinishNext(t)
    <3>1. PICK q \in WalkReads(t) \cap built : Sync!BeginWait(t, {q})
      BY <2>6 DEF FinishNext
    <3>2. {q} \in SUBSET Queues BY DEF IInv, Typed
    <3>. QED BY <3>1, <3>2
  <2>7. CASE WaitEnds(t) \/ WaitFails(t)
    BY <2>7 DEF WaitEnds, WaitFails
  <2>8. ASSUME \/ \E n \in 0..MaxRows, handsOn \in BOOLEAN : CopyRows(t, n, handsOn)
               \/ RowOnHost(t) \/ RowFails(t) \/ DeviceSynchronize(t) \/ FinishDangling(t)
               \/ AllFinished(t) \/ Acknowledge(t)
        PROVE UNCHANGED queues
    BY <2>8 DEF CopyRows, RowOnHost, RowFails, DeviceSynchronize, FinishDangling, AllFinished,
                Acknowledge
  <2>. QED BY <1>5, <2>1, <2>2, <2>3, <2>4, <2>5, <2>6, <2>7, <2>8 DEF Work
<1>. QED BY <1>1, <1>2, <1>3, <1>4, <1>5 DEF WorkNext, Down

LEMMA RegistryInvariant == WorkSpec => []IInv
BY Invariant, WorkImplementsStreams, PTL

(* Seen through the queues alone the API layer is a behaviour of           *)
(* StreamSync, the specification Level0Queue implements: it waits for no   *)
(* queue but an existing one, and no thread waits twice at a time.         *)
THEOREM WorkImplementsSync == WorkSpec => Sync!Spec
<1>1. WorkInit => Sync!Init BY DEF WorkInit
<1>. QED BY <1>1, QueueSteps, RegistryInvariant, PTL DEF WorkSpec, Sync!Spec

-----------------------------------------------------------------------------
(* The active queue is a primary queue of a device, and those are never    *)
(* destroyed.                                                              *)
PrimariesLive == active_q \in Primaries /\ Primaries \subseteq streams

LEMMA PrimariesStep == IInv /\ PrimariesLive /\ [Next]_vars => PrimariesLive'
<1>. SUFFICES ASSUME IInv, PrimariesLive, [Next]_vars PROVE PrimariesLive'
  OBVIOUS
<1>. USE DEF PrimariesLive
<1>1. CASE UNCHANGED vars BY <1>1 DEF vars
<1>2. ASSUME NEW t \in Threads, SetQueue(t) PROVE PrimariesLive'
  <2>1. call[t].dev \in Devices BY <1>2 DEF SetQueue, IInv, CallTyped
  <2>2. active_q' = Primary[call[t].dev] /\ streams' = streams
    BY <1>2, <2>1 DEF SetQueue, IInv, Proper
  <2>. QED BY <2>1, <2>2 DEF Primaries
<1>3. ASSUME NEW t \in Threads, RemoveQueue(t) PROVE PrimariesLive'
  <2>1. call[t].queue \notin Primaries BY <1>3 DEF RemoveQueue, IInv, CallTyped
  <2>. QED BY <1>3, <2>1 DEF RemoveQueue
<1>4. ASSUME NEW t \in Threads, Step(t), ~ SetQueue(t), ~ RemoveQueue(t)
      PROVE  active_q' = active_q /\ streams \subseteq streams'
  BY <1>4 DEF Step, StreamCreate, StreamDestroy, SetDevice, Register, StoreVector, Build,
              BuildFails
<1>. QED BY <1>1, <1>2, <1>3, <1>4 DEF Next

LEMMA PrimariesInvariant == Spec => []PrimariesLive
<1>1. Init => PrimariesLive BY DEF Init, PrimariesLive, Primaries
<1>. QED BY <1>1, PrimariesStep, Invariant, PTL DEF Spec

-----------------------------------------------------------------------------
(* What a thread is doing and what it answers for.                         *)
Doing(t) ==
  LET w == work[t] IN
  /\ {"at", "what", "mine"} \subseteq DOMAIN w
  /\ w.at \in {"idle", "rows", "walk", "wait", "success", "crashed"}
  /\ w.mine \subseteq outstanding
  /\ w.at # "idle" => call[t] = Idle
  /\ w.at = "idle" => w.what = "nothing"
  /\ w.what # "nothing" => "moved" \in DOMAIN w /\ w.moved \in BOOLEAN
  /\ w.at = "crashed" => w.what = "sync"
  /\ w.at = "rows" =>
       {"left", "stream"} \subseteq DOMAIN w /\ w.what = "copy" /\ w.stream \subseteq Primaries
  /\ w.at = "walk" \/ (w.at = "wait" /\ w.what = "sync") =>
       /\ {"next", "last"} \subseteq DOMAIN w
       /\ w.next \in Nat \ {0} /\ w.last \in Nat /\ w.what = "sync"
  /\ w.at = "wait" => "then" \in DOMAIN w /\ w.then = IF w.what = "sync" THEN "walk" ELSE "return"

(* While the active queue does not move, the rows of a copy are all on it, *)
(* and the wait at the end is for all of them.                             *)
CopyOK(t) ==
  LET w == work[t] IN
  backend = "Level0" /\ w.what = "copy" /\ w.moved = FALSE =>
    /\ w.at = "rows" => w.stream \subseteq {active_q} /\ \A o \in w.mine : o.queue = active_q
    /\ w.at = "wait" => w.mine \subseteq owed[t]
    /\ w.at = "success" => w.mine = {}

(* The threads StreamSync has waiting are those inside a finish().         *)
WorkTyped ==
  /\ DOMAIN work = Threads /\ DOMAIN owed = Threads
  /\ outstanding \subseteq Sync!Operation
  /\ waiting = { t \in Threads : work[t].at = "wait" }

WorkInv == WorkTyped /\ \A t \in Threads : Doing(t) /\ CopyOK(t)

(* A thread that does not move stays in order while others submit.         *)
LEMMA OthersAtWork ==
  ASSUME NEW s, Doing(s), CopyOK(s),
         UNCHANGED <<backend, active_q, call, work[s], owed[s]>>,
         outstanding \subseteq outstanding'
  PROVE  Doing(s)' /\ CopyOK(s)'
BY DEF Doing, CopyOK, Primaries, Idle

LEMMA WorkInitOK == WorkInit => WorkInv
BY DEF WorkInit, Sync!Init, WorkInv, WorkTyped, Doing, CopyOK, NoWork

(* A thread submits, or has the queues alone, and goes on with w.          *)
LEMMA StepTo ==
  ASSUME WorkInv, NEW t \in Threads, NEW w, Enter(t, w),
         UNCHANGED <<backend, active_q, call>>,
         outstanding \subseteq outstanding', outstanding' \subseteq Sync!Operation,
         DOMAIN owed' = Threads, \A s \in Threads \ {t} : owed'[s] = owed[s],
         waiting' = (waiting \ {t}) \cup (IF w.at = "wait" THEN {t} ELSE {}),
         Doing(t)', CopyOK(t)'
  PROVE  WorkInv'
<1>1. /\ DOMAIN work' = Threads /\ work'[t] = w
      /\ \A s \in Threads \ {t} : work'[s] = work[s]
  BY DEF Enter, WorkInv, WorkTyped
<1>2. \A s \in Threads \ {t} : Doing(s)' /\ CopyOK(s)'
  BY <1>1, OthersAtWork DEF WorkInv
<1>3. waiting' = { s \in Threads : work'[s].at = "wait" }
  BY <1>1 DEF WorkInv, WorkTyped
<1>4. WorkTyped' BY <1>1, <1>3 DEF WorkTyped
<1>. QED BY <1>2, <1>4 DEF WorkInv

(* The steps that leave the queues alone. *)
LEMMA QuietSteps ==
  ASSUME IInv, WorkInv, PrimariesLive, NEW t \in Threads, UNCHANGED <<registry, queues>>,
         \/ \E n \in 0..MaxRows, handsOn \in BOOLEAN : CopyRows(t, n, handsOn)
         \/ RowOnHost(t) \/ RowFails(t) \/ DeviceSynchronize(t) \/ FinishDangling(t)
         \/ AllFinished(t) \/ Acknowledge(t)
  PROVE  WorkInv'
<1>. USE DEF WorkInv
<1>0. /\ UNCHANGED <<backend, active_q, call, outstanding, waiting, owed, Primaries>>
      /\ DOMAIN work = Threads
  BY DEF registry, vars, queues, Primaries, WorkTyped
<1>1. ASSUME NEW w, Enter(t, w), w.at # "wait", work[t].at # "wait",
             Doing(t)', CopyOK(t)'
      PROVE  WorkInv'
  <2>1. t \notin waiting BY <1>1 DEF WorkTyped
  <2>. QED BY <1>0, <1>1, <2>1, StepTo DEF WorkTyped
<1>2. ASSUME Enter(t, NoWork), work[t].at # "wait" PROVE WorkInv'
  <2>1. work'[t] = NoWork BY <1>0, <1>2 DEF Enter
  <2>2. Doing(t)' /\ CopyOK(t)' BY <2>1 DEF Doing, CopyOK, NoWork
  <2>. QED BY <1>1, <1>2, <2>2 DEF NoWork
<1>3. CASE RowFails(t) \/ Acknowledge(t)
  BY <1>2, <1>3 DEF RowFails, FailCall, Acknowledge
<1>4. ASSUME NEW n \in 0..MaxRows, NEW handsOn \in BOOLEAN, CopyRows(t, n, handsOn)
      PROVE  WorkInv'
  <2>. DEFINE w == [at |-> "rows", what |-> "copy", mine |-> {}, moved |-> FALSE, left |-> n,
                    stream |-> IF handsOn THEN {active_q} ELSE {}]
  <2>1. Enter(t, w) /\ call[t] = Idle /\ work[t].at = "idle"
    BY <1>4 DEF CopyRows, Begin
  <2>2. work'[t] = w BY <1>0, <2>1 DEF Enter
  <2>3. Doing(t)' /\ CopyOK(t)'
    BY <1>0, <2>1, <2>2 DEF Doing, CopyOK, PrimariesLive, Idle
  <2>. QED BY <1>1, <2>1, <2>3
<1>5. CASE RowOnHost(t)
  <2>. DEFINE w == [work[t] EXCEPT !.left = @ - 1]
  <2>1. Enter(t, w) /\ work[t].at = "rows" BY <1>5 DEF RowOnHost
  <2>2. work'[t] = w BY <1>0, <2>1 DEF Enter
  <2>3. Doing(t) /\ CopyOK(t) OBVIOUS
  <2>4. /\ DOMAIN w = DOMAIN work[t] /\ w.at = "rows" /\ w.what = work[t].what
        /\ w.mine = work[t].mine /\ w.moved = work[t].moved /\ w.stream = work[t].stream
    BY <2>1, <2>3 DEF Doing
  <2>. HIDE DEF w
  <2>5. Doing(t)' /\ CopyOK(t)' BY <1>0, <2>1, <2>2, <2>3, <2>4 DEF Doing, CopyOK, Idle
  <2>. QED BY <1>1, <2>1, <2>4, <2>5
<1>6. CASE DeviceSynchronize(t)
  <2>. DEFINE w == [at |-> "walk", what |-> "sync", mine |-> outstanding, moved |-> FALSE,
                    next |-> 1, last |-> Len(chip_queues[Context])]
  <2>1. Enter(t, w) /\ call[t] = Idle /\ work[t].at = "idle"
    BY <1>6 DEF DeviceSynchronize, Begin
  <2>2. work'[t] = w BY <1>0, <2>1 DEF Enter
  <2>4. w.last \in Nat BY DEF IInv, Typed
  <2>3. Doing(t)' /\ CopyOK(t)' BY <1>0, <2>1, <2>2, <2>4 DEF Doing, CopyOK, Idle
  <2>. QED BY <1>1, <2>1, <2>3
<1>7. CASE FinishDangling(t)
  <2>. DEFINE w == [at |-> "crashed", what |-> "sync", mine |-> {},
                    moved |-> work[t].moved \/ Constructing]
  <2>1. Enter(t, w) /\ work[t].at = "walk" BY <1>7 DEF FinishDangling
  <2>2. work'[t] = w BY <1>0, <2>1 DEF Enter
  <2>4. w.moved \in BOOLEAN OBVIOUS
  <2>3. Doing(t)' /\ CopyOK(t)' BY <1>0, <2>1, <2>2, <2>4 DEF Doing, CopyOK, Idle
  <2>. QED BY <1>1, <2>1, <2>3
<1>8. CASE AllFinished(t)
  <2>. DEFINE w == [work[t] EXCEPT !.at = "success"]
  <2>1. Enter(t, w) /\ work[t].at = "walk" BY <1>8 DEF AllFinished, Succeed
  <2>2. work'[t] = w BY <1>0, <2>1 DEF Enter
  <2>3. Doing(t) OBVIOUS
  <2>4. /\ DOMAIN w = DOMAIN work[t] /\ w.at = "success" /\ w.what = "sync"
        /\ w.mine = work[t].mine /\ w.moved = work[t].moved
    BY <2>1, <2>3 DEF Doing
  <2>. HIDE DEF w
  <2>5. Doing(t)' /\ CopyOK(t)' BY <1>0, <2>1, <2>2, <2>3, <2>4 DEF Doing, CopyOK, Idle
  <2>. QED BY <1>1, <2>1, <2>4, <2>5
<1>. QED BY <1>3, <1>4, <1>5, <1>6, <1>7, <1>8

(* The steps that submit an operation.                                     *)
LEMMA SubmitSteps ==
  ASSUME WorkInv, PrimariesLive, NEW t \in Threads,
         \/ \E s \in Queues : MemcpyAsync(t, s)
         \/ Memcpy(t) \/ MemcpyOpenCL(t) \/ Row(t)
  PROVE  WorkInv'
<1>. USE DEF WorkInv
<1>0. /\ UNCHANGED <<backend, active_q, call, Primaries>>
      /\ DOMAIN work = Threads /\ DOMAIN owed = Threads
      /\ outstanding \subseteq Sync!Operation
  BY DEF registry, vars, WorkTyped, Primaries, MemcpyAsync, Memcpy, MemcpyOpenCL, Row
<1>1. ASSUME NEW o \in Sync!Operation, Sync!Submit(o), NEW w, Enter(t, w), w.at # "wait",
             work[t].at # "wait", Doing(t)', CopyOK(t)'
      PROVE  WorkInv'
  <2>1. /\ outstanding \subseteq outstanding' /\ outstanding' \subseteq Sync!Operation
        /\ UNCHANGED <<owed, waiting>>
    BY <1>0, <1>1 DEF Sync!Submit
  <2>2. t \notin waiting BY <1>1 DEF WorkTyped
  <2>. QED BY <1>0, <1>1, <2>1, <2>2, StepTo
<1>2. ASSUME NEW s \in Queues, MemcpyAsync(t, s) PROVE WorkInv'
  <2>1. PICK o \in Ops(s) : Sync!Submit(o) BY <1>2 DEF MemcpyAsync
  <2>2. o \in Sync!Operation BY DEF Ops
  <2>3. UNCHANGED work /\ work[t].at = "idle" BY <1>2 DEF MemcpyAsync
  <2>4. /\ outstanding \subseteq outstanding' /\ outstanding' \subseteq Sync!Operation
        /\ UNCHANGED <<owed, waiting>>
    BY <1>0, <2>1, <2>2 DEF Sync!Submit
  <2>5. ASSUME NEW u \in Threads PROVE Doing(u)' /\ CopyOK(u)'
    BY <1>0, <2>3, <2>4, OthersAtWork
  <2>6. WorkTyped' BY <2>3, <2>4 DEF WorkTyped
  <2>. QED BY <2>5, <2>6
<1>3. CASE Memcpy(t)
  <2>1. PICK o \in Ops(active_q) :
          /\ Sync!SubmitAndWait(t, o)
          /\ Begin(t, [at |-> "wait", what |-> "copy", mine |-> {o}, moved |-> FALSE,
                       then |-> "return"])
    BY <1>3 DEF Memcpy
  <2>. DEFINE w == [at |-> "wait", what |-> "copy", mine |-> {o}, moved |-> FALSE,
                    then |-> "return"]
  <2>2. o \in Sync!Operation BY DEF Ops
  <2>3. Enter(t, w) /\ call[t] = Idle BY <2>1 DEF Begin
  <2>4. work'[t] = w BY <1>0, <2>3 DEF Enter
  <2>5. /\ outstanding' = outstanding \cup {o} /\ waiting' = waiting \cup {t}
        /\ DOMAIN owed' = Threads /\ \A s \in Threads \ {t} : owed'[s] = owed[s]
        /\ o \in owed'[t]
    BY <1>0, <2>1 DEF Sync!SubmitAndWait, Sync!On
  <2>6. Doing(t)' /\ CopyOK(t)'
    BY <1>0, <2>2, <2>3, <2>4, <2>5 DEF Doing, CopyOK, Idle
  <2>7. w.at = "wait" OBVIOUS
  <2>. HIDE DEF w
  <2>. QED BY <1>0, <2>2, <2>3, <2>5, <2>6, <2>7, StepTo
<1>4. CASE MemcpyOpenCL(t)
  <2>1. PICK o \in Ops(active_q) :
          /\ Sync!Submit(o)
          /\ Begin(t, [at |-> "success", what |-> "copy", mine |-> {o}, moved |-> FALSE])
    BY <1>4 DEF MemcpyOpenCL
  <2>. DEFINE w == [at |-> "success", what |-> "copy", mine |-> {o}, moved |-> FALSE]
  <2>2. o \in Sync!Operation BY DEF Ops
  <2>3. Enter(t, w) /\ call[t] = Idle /\ work[t].at = "idle" BY <2>1 DEF Begin
  <2>4. work'[t] = w BY <1>0, <2>3 DEF Enter
  <2>5. o \in outstanding' BY <2>1 DEF Sync!Submit
  <2>6. backend' # "Level0" BY <1>4 DEF MemcpyOpenCL, registry, vars
  <2>7. Doing(t)' /\ CopyOK(t)'
    BY <1>0, <2>2, <2>3, <2>4, <2>5, <2>6 DEF Doing, CopyOK, Idle
  <2>. QED BY <1>1, <2>1, <2>2, <2>3, <2>7
<1>5. CASE Row(t)
  <2>0. PICK q \in RowQueue(t) : \E o \in Ops(q) :
          /\ Sync!Submit(o)
          /\ Enter(t, [work[t] EXCEPT !.left = @ - 1, !.mine = @ \cup {o}])
    BY <1>5 DEF Row
  <2>1. PICK o \in Ops(q) :
          /\ Sync!Submit(o)
          /\ Enter(t, [work[t] EXCEPT !.left = @ - 1, !.mine = @ \cup {o}])
    BY <2>0
  <2>. DEFINE w == [work[t] EXCEPT !.left = @ - 1, !.mine = @ \cup {o}]
  <2>2. o \in Sync!Operation /\ o.queue = q BY DEF Ops
  <2>3. Enter(t, w) /\ work[t].at = "rows" BY <1>5, <2>1 DEF Row
  <2>4. work'[t] = w BY <1>0, <2>3 DEF Enter
  <2>5. outstanding' = outstanding \cup {o} BY <2>1 DEF Sync!Submit
  <2>6. Doing(t) /\ CopyOK(t) OBVIOUS
  <2>7. /\ DOMAIN w = DOMAIN work[t] /\ w.at = "rows" /\ w.what = work[t].what
        /\ w.mine = work[t].mine \cup {o} /\ w.moved = work[t].moved
        /\ w.stream = work[t].stream
    BY <2>3, <2>6 DEF Doing
  <2>. HIDE DEF w
  <2>8. Doing(t)' BY <1>0, <2>3, <2>4, <2>5, <2>6, <2>7 DEF Doing, Idle
  <2>9. backend = "Level0" /\ w.what = "copy" /\ w.moved = FALSE => q = active_q
    BY <2>3, <2>6, <2>7 DEF CopyOK, RowQueue
  <2>10. CopyOK(t)' BY <1>0, <2>2, <2>3, <2>4, <2>6, <2>7, <2>9 DEF CopyOK
  <2>. QED BY <1>1, <2>1, <2>2, <2>3, <2>7, <2>8, <2>10
<1>. QED BY <1>2, <1>3, <1>4, <1>5

(* The steps that begin or end a wait.                                     *)
LEMMA WaitSteps ==
  ASSUME IInv, WorkInv, PrimariesLive, NEW t \in Threads,
         FinishRows(t) \/ FinishNext(t) \/ WaitEnds(t) \/ WaitFails(t)
  PROVE  WorkInv'
<1>. USE DEF WorkInv
<1>0. /\ UNCHANGED <<backend, active_q, call, outstanding, Primaries>>
      /\ DOMAIN work = Threads /\ DOMAIN owed = Threads
      /\ outstanding \subseteq Sync!Operation
  BY DEF registry, vars, queues, WorkTyped, Primaries, FinishRows, FinishNext, WaitEnds,
         WaitFails, Sync!BeginWait, Sync!Return, Sync!Fail
<1>1. Doing(t) /\ CopyOK(t) OBVIOUS
<1>2. CASE FinishRows(t)
  <2>1. work[t].at = "rows" /\ work[t].what = "copy" BY <1>1, <1>2 DEF FinishRows, Doing
  <2>2. t \notin waiting BY <2>1 DEF WorkTyped
  <2>3. CASE backend = "OpenCL"
    <3>. DEFINE w == [work[t] EXCEPT !.at = "success"]
    <3>1. Enter(t, w) /\ UNCHANGED queues BY <1>2, <2>3 DEF FinishRows, Succeed
    <3>2. work'[t] = w BY <1>0, <3>1 DEF Enter
    <3>3. /\ DOMAIN w = DOMAIN work[t] /\ w.at = "success" /\ w.what = "copy"
          /\ w.mine = work[t].mine /\ w.moved = work[t].moved
      BY <2>1, <1>1 DEF Doing
    <3>. HIDE DEF w
    <3>4. Doing(t)' /\ CopyOK(t)'
      BY <1>0, <1>1, <2>1, <2>3, <3>2, <3>3 DEF Doing, CopyOK, Idle
    <3>. QED BY <1>0, <2>2, <3>1, <3>3, <3>4, StepTo DEF queues
  <2>4. CASE backend # "OpenCL"
    <3>. DEFINE w == [at |-> "wait", what |-> "copy", mine |-> work[t].mine,
                      moved |-> work[t].moved, then |-> "return"]
    <3>1. Enter(t, w) /\ Sync!BeginWait(t, {active_q}) BY <1>2, <2>4 DEF FinishRows
    <3>2. work'[t] = w BY <1>0, <3>1 DEF Enter
    <3>3. /\ waiting' = waiting \cup {t}
          /\ DOMAIN owed' = Threads /\ \A s \in Threads \ {t} : owed'[s] = owed[s]
          /\ owed'[t] = { o \in outstanding : o.queue = active_q }
      BY <1>0, <3>1 DEF Sync!BeginWait, Sync!On
    <3>4. Doing(t)' /\ CopyOK(t)'
      BY <1>0, <1>1, <2>1, <3>2, <3>3 DEF Doing, CopyOK, Idle
    <3>5. w.at = "wait" OBVIOUS
    <3>. HIDE DEF w
    <3>. QED BY <1>0, <3>1, <3>3, <3>4, <3>5, StepTo
  <2>. QED BY <2>3, <2>4
<1>3. CASE FinishNext(t)
  <2>. DEFINE w == [at |-> "wait", what |-> "sync", mine |-> work[t].mine,
                    moved |-> work[t].moved, next |-> work[t].next,
                    last |-> work[t].last, then |-> "walk"]
  <2>1. /\ Enter(t, w) /\ work[t].at = "walk"
        /\ \E q \in WalkReads(t) \cap built : Sync!BeginWait(t, {q})
    BY <1>3 DEF FinishNext
  <2>2. work'[t] = w BY <1>0, <2>1 DEF Enter
  <2>3. /\ waiting' = waiting \cup {t}
        /\ DOMAIN owed' = Threads /\ \A s \in Threads \ {t} : owed'[s] = owed[s]
    BY <1>0, <2>1 DEF Sync!BeginWait
  <2>4. Doing(t)' /\ CopyOK(t)' BY <1>0, <1>1, <2>1, <2>2 DEF Doing, CopyOK, Idle
  <2>5. w.at = "wait" OBVIOUS
  <2>. HIDE DEF w
  <2>. QED BY <1>0, <2>1, <2>3, <2>4, <2>5, StepTo
<1>4. CASE WaitEnds(t)
  <2>1. work[t].at = "wait" /\ Sync!Return(t) BY <1>4 DEF WaitEnds
  <2>2. /\ waiting' = waiting \ {t} /\ UNCHANGED owed /\ owed[t] = {}
    BY <2>1 DEF Sync!Return
  <2>3. CASE work[t].then = "return"
    <3>. DEFINE w == [work[t] EXCEPT !.at = "success"]
    <3>1. Enter(t, w) BY <1>4, <2>3 DEF WaitEnds, Succeed
    <3>2. work'[t] = w BY <1>0, <3>1 DEF Enter
    <3>3. /\ DOMAIN w = DOMAIN work[t] /\ w.at = "success" /\ w.what = work[t].what
          /\ w.mine = work[t].mine /\ w.moved = work[t].moved
      BY <2>1, <1>1 DEF Doing
    <3>. HIDE DEF w
    <3>4. Doing(t)' /\ CopyOK(t)'
      BY <1>0, <1>1, <2>1, <2>2, <3>2, <3>3 DEF Doing, CopyOK, Idle
    <3>. QED BY <1>0, <2>2, <3>1, <3>3, <3>4, StepTo
  <2>4. CASE work[t].then # "return"
    <3>. DEFINE w == [at |-> "walk", what |-> "sync", mine |-> work[t].mine,
                      moved |-> work[t].moved, next |-> work[t].next + 1,
                      last |-> work[t].last]
    <3>1. Enter(t, w) BY <1>4, <2>4 DEF WaitEnds
    <3>2. work'[t] = w BY <1>0, <3>1 DEF Enter
    <3>3. work[t].what = "sync" BY <1>1, <2>1, <2>4 DEF Doing
    <3>4. Doing(t)' /\ CopyOK(t)'
      BY <1>0, <1>1, <2>1, <2>2, <3>2, <3>3 DEF Doing, CopyOK, Idle
    <3>5. w.at # "wait" OBVIOUS
    <3>. HIDE DEF w
    <3>. QED BY <1>0, <2>2, <3>1, <3>4, <3>5, StepTo
  <2>. QED BY <2>3, <2>4
<1>5. CASE WaitFails(t)
  <2>1. work[t].at = "wait" /\ Sync!Fail(t) /\ Enter(t, NoWork)
    BY <1>5 DEF WaitFails, FailCall
  <2>2. /\ waiting' = waiting \ {t}
        /\ DOMAIN owed' = Threads /\ \A s \in Threads \ {t} : owed'[s] = owed[s]
    BY <1>0, <2>1 DEF Sync!Fail
  <2>3. work'[t] = NoWork BY <1>0, <2>1 DEF Enter
  <2>4. Doing(t)' /\ CopyOK(t)' BY <2>3 DEF Doing, CopyOK, NoWork
  <2>5. NoWork.at # "wait" BY DEF NoWork
  <2>. QED BY <1>0, <2>1, <2>2, <2>4, <2>5, StepTo
<1>. QED BY <1>2, <1>3, <1>4, <1>5

LEMMA CompleteStep ==
  ASSUME WorkInv, NEW o \in Sync!Operation, Complete(o)
  PROVE  WorkInv'
<1>. USE DEF WorkInv
<1>0. /\ UNCHANGED <<backend, active_q, call, Primaries, waiting>>
      /\ outstanding' = outstanding \ {o} /\ owed' = [t \in Threads |-> owed[t] \ {o}]
      /\ work' = [t \in Threads |-> [work[t] EXCEPT !.mine = @ \ {o}]]
  BY DEF Complete, registry, vars, Primaries, Sync!Complete
<1>1. ASSUME NEW t \in Threads PROVE Doing(t)' /\ CopyOK(t)' /\ work'[t].at = work[t].at
  <2>. DEFINE w == [work[t] EXCEPT !.mine = @ \ {o}]
  <2>1. Doing(t) /\ CopyOK(t) OBVIOUS
  <2>2. /\ DOMAIN w = DOMAIN work[t] /\ w.at = work[t].at /\ w.what = work[t].what
        /\ w.mine = work[t].mine \ {o}
        /\ w.what # "nothing" => w.moved = work[t].moved
        /\ w.at = "rows" => w.stream = work[t].stream /\ w.left = work[t].left
        /\ w.at = "walk" \/ (w.at = "wait" /\ w.what = "sync")
             => w.next = work[t].next /\ w.last = work[t].last
        /\ w.at = "wait" => w.then = work[t].then
    BY <2>1 DEF Doing
  <2>3. work'[t] = w /\ owed'[t] = owed[t] \ {o} BY <1>0
  <2>. HIDE DEF w
  <2>. QED BY <1>0, <2>1, <2>2, <2>3 DEF Doing, CopyOK, Idle
<1>2. WorkTyped' BY <1>0, <1>1 DEF WorkTyped
<1>. QED BY <1>1, <1>2

(* A step of Streams by t.                                                 *)
LEMMA CallsKept ==
  ASSUME IInv, NEW t \in Threads, Step(t)
  PROVE  /\ UNCHANGED backend
         /\ \A s \in Threads \ {t} : call'[s] = call[s]
BY DEF Step, IInv, Typed, Become, StreamCreate, StreamDestroy, SetDevice, SetQueue,
       Register, StoreVector, Build, BuildFails, RemoveQueue
(* What a step of Streams changes of the work.                             *)
LEMMA ManageWork ==
  ASSUME IInv, WorkInv, NEW t \in Threads, Manage(t), NEW s \in Threads
  PROVE  /\ DOMAIN work'[s] = DOMAIN work[s]
         /\ \A f \in DOMAIN work[s] \ {"moved"} : work'[s][f] = work[s][f]
         /\ work[s].what = "copy" /\ active_q' # active_q => work'[s].moved = TRUE
         /\ work[s].what # "nothing" => work'[s].moved \in {work[s].moved, TRUE}
<1>1. Doing(s) BY DEF WorkInv
<1>2. PICK reallocated \in BOOLEAN :
        work' = [u \in Threads |->
          IF \/ work[u].what = "copy" /\ active_q' # active_q
             \/ work[u].what = "sync" /\ reallocated
          THEN [work[u] EXCEPT !.moved = TRUE] ELSE work[u]]
  BY DEF Manage
<1>3. CASE work'[s] = work[s]
  BY <1>1, <1>2, <1>3 DEF Doing
<1>4. CASE work'[s] # work[s]
  <2>1. work'[s] = [work[s] EXCEPT !.moved = TRUE] BY <1>2, <1>4
  <2>2. work[s].what # "nothing" BY <1>2, <1>4
  <2>3. "moved" \in DOMAIN work[s] BY <1>1, <2>2 DEF Doing
  <2>. QED BY <2>1, <2>3
<1>. QED BY <1>3, <1>4

LEMMA ManageStep ==
  ASSUME IInv, WorkInv, PrimariesLive, NEW t \in Threads, Manage(t)
  PROVE  WorkInv'
<1>. USE DEF WorkInv
<1>0. /\ UNCHANGED <<backend, outstanding, waiting, owed, Primaries>>
      /\ \A s \in Threads \ {t} : call'[s] = call[s]
      /\ work[t].at = "idle"
      /\ DOMAIN work' = Threads
  BY CallsKept DEF Manage, queues, Primaries
<1>1. ASSUME NEW s \in Threads PROVE Doing(s)' /\ CopyOK(s)' /\ work'[s].at = work[s].at
  <2>1. Doing(s) /\ CopyOK(s) OBVIOUS
  <2>2. work[s].at # "idle" => call'[s] = call[s] BY <1>0
  <2>. DEFINE w == work'[s]
  <2>3. /\ DOMAIN w = DOMAIN work[s]
        /\ w.at = work[s].at /\ w.what = work[s].what /\ w.mine = work[s].mine
        /\ w.at = "rows" => w.stream = work[s].stream /\ w.left = work[s].left
        /\ w.at = "walk" \/ (w.at = "wait" /\ w.what = "sync")
             => w.next = work[s].next /\ w.last = work[s].last
        /\ w.at = "wait" => w.then = work[s].then
    BY <2>1, ManageWork DEF Doing
  <2>5. /\ w.what = "copy" /\ active_q' # active_q => w.moved = TRUE
        /\ w.what # "nothing" => w.moved \in {work[s].moved, TRUE}
    BY <2>3, ManageWork
  <2>0. work'[s] = w OBVIOUS
  <2>. HIDE DEF w
  <2>6. Doing(s)'
    <3>1. w.what # "nothing" => "moved" \in DOMAIN w /\ w.moved \in BOOLEAN
      BY <2>1, <2>3, <2>5 DEF Doing
    <3>2. w.at # "idle" => call'[s] = Idle BY <2>1, <2>2, <2>3 DEF Doing
    <3>3. Idle' = Idle BY DEF Idle
    <3>. QED BY <1>0, <2>0, <2>1, <2>3, <3>1, <3>2, <3>3 DEF Doing
  <2>7. CopyOK(s)' BY <1>0, <2>0, <2>1, <2>3, <2>5 DEF CopyOK, Doing
  <2>. QED BY <2>0, <2>3, <2>6, <2>7
<1>2. WorkTyped' BY <1>0, <1>1 DEF WorkTyped
<1>. QED BY <1>1, <1>2

LEMMA WorkStep == IInv /\ PrimariesLive /\ WorkInv /\ [WorkNext]_workVars => WorkInv'
<1>. SUFFICES ASSUME IInv, PrimariesLive, WorkInv, [WorkNext]_workVars PROVE WorkInv'
  OBVIOUS
<1>1. CASE UNCHANGED workVars
  <2>1. UNCHANGED <<backend, active_q, call, work, outstanding, waiting, owed>>
    BY <1>1 DEF workVars, registry, vars, queues
  <2>2. \A s \in Threads : Doing(s)' /\ CopyOK(s)' BY <2>1, OthersAtWork DEF WorkInv
  <2>3. WorkTyped' BY <2>1 DEF WorkInv, WorkTyped
  <2>. QED BY <2>2, <2>3 DEF WorkInv
<1>2. ASSUME NEW t \in Threads, Work(t) PROVE WorkInv'
  <2>1. CASE \/ \E n \in 0..MaxRows, handsOn \in BOOLEAN : CopyRows(t, n, handsOn)
             \/ RowOnHost(t) \/ RowFails(t) \/ DeviceSynchronize(t) \/ FinishDangling(t)
             \/ AllFinished(t) \/ Acknowledge(t)
    <3>1. UNCHANGED <<registry, queues>>
      BY <2>1 DEF CopyRows, RowOnHost, RowFails, DeviceSynchronize, FinishDangling,
                  AllFinished, Acknowledge
    <3>. QED BY <2>1, <3>1, QuietSteps
  <2>. QED BY <1>2, <2>1, SubmitSteps, WaitSteps DEF Work
<1>. QED BY <1>1, <1>2, ManageStep, CompleteStep DEF WorkNext, Down

LEMMA WorkInvariant == WorkSpec => [](IInv /\ PrimariesLive /\ WorkInv)
BY WorkInitOK, WorkStep, RegistryInvariant, PrimariesInvariant, WorkImplementsStreams, PTL
   DEF WorkSpec

(* A blocking copy that succeeds on Level Zero is done, or the active      *)
(* queue has moved while it ran: for any threads that create, destroy and  *)
(* switch meanwhile.                                                       *)
THEOREM BlockingCopyCorrect == WorkSpec => []BlockingCopyDone
<1>1. WorkInv => BlockingCopyDone
  BY DEF WorkInv, Doing, CopyOK, BlockingCopyDone
<1>. QED BY <1>1, WorkInvariant, PTL
-----------------------------------------------------------------------------
(* The queues in the vector of the context from n to m.                    *)
Ahead(q, n, m) == \E k \in n..m : chip_queues[Context][k] = q

(* What hipDeviceSynchronize answers for is waited for now, or is on a     *)
(* queue its loop has still to come to.                                    *)
WalkOK(t) ==
  LET w == work[t] IN
  /\ w.at = "walk" \/ (w.at = "wait" /\ w.what = "sync") => w.last <= Len(chip_queues[Context])
  /\ backend = "Level0" /\ w.what = "sync" /\ w.moved = FALSE =>
       /\ w.at = "walk" => \A o \in w.mine : Ahead(o.queue, w.next, w.last)
       /\ w.at = "wait" => \A o \in w.mine \ owed[t] : Ahead(o.queue, w.next + 1, w.last)
       /\ w.at = "success" => w.mine = {}

(* Every operation is on a queue the context knows.                        *)
OutstandingListed ==
  backend = "Level0" => \A o \in outstanding : Ahead(o.queue, 1, Len(chip_queues[Context]))

WalkInv == OutstandingListed /\ \A t \in Threads : WalkOK(t)

(* With one creator the vector of the context only grows at its end.       *)
ContextGrows ==
  /\ Len(chip_queues[Context]) \in Nat /\ Len(chip_queues'[Context]) \in Nat
  /\ Len(chip_queues[Context]) <= Len(chip_queues'[Context])
  /\ \A k \in 1..Len(chip_queues[Context]) : chip_queues'[Context][k] = chip_queues[Context][k]

LEMMA ContextOnlyGrows ==
  ASSUME IInv, CreatorInv, [Next]_vars
  PROVE  ContextGrows
<1>0. chip_queues[Context] \in Seq(DOMAIN home) /\ Len(chip_queues[Context]) \in Nat
      /\ DOMAIN chip_queues = Devices \cup {Context}
  BY DEF IInv, Typed
<1>1. CASE chip_queues'[Context] = chip_queues[Context]
  BY <1>0, <1>1 DEF ContextGrows
<1>2. ASSUME NEW t \in Threads, StoreVector(t), chip_queues'[Context] # chip_queues[Context]
      PROVE  ContextGrows
  <2>. DEFINE c == call[t]
              s == Append(chip_queues[Context], c.queue)
  <2>1. chip_queues' = [chip_queues EXCEPT ![c.vector] = Append(c.seen, c.queue)]
    BY <1>2 DEF StoreVector
  <2>2. c.vector = Context BY <1>0, <1>2, <2>1
  <2>3. c.seen = chip_queues[Context] BY <1>2, <2>2 DEF StoreVector, CreatorInv
  <2>4. chip_queues'[Context] = s BY <1>0, <2>1, <2>2, <2>3
  <2>5. c.queue \in DOMAIN home BY <1>2 DEF StoreVector, IInv, CallTyped, Creating
  <2>6. /\ Len(s) = Len(chip_queues[Context]) + 1
        /\ \A k \in 1..Len(chip_queues[Context]) : s[k] = chip_queues[Context][k]
    BY <1>0, <2>5, AppendProperties
  <2>. HIDE DEF s
  <2>. QED BY <1>0, <2>4, <2>6 DEF ContextGrows
<1>3. ASSUME NEW t \in Threads, RemoveQueue(t)
      PROVE  chip_queues'[Context] = chip_queues[Context]
  BY <1>0, <1>3, StreamsAssumption DEF RemoveQueue, IInv, Typed
<1>4. ASSUME NEW t \in Threads, Step(t), ~ StoreVector(t), ~ RemoveQueue(t)
      PROVE  chip_queues' = chip_queues
  BY <1>4 DEF Step, StreamCreate, StreamDestroy, SetDevice, SetQueue, Register, Build,
              BuildFails
<1>5. CASE UNCHANGED vars BY <1>1, <1>5 DEF vars
<1>. QED BY <1>1, <1>2, <1>3, <1>4, <1>5 DEF Next

LEMMA AheadKept ==
  ASSUME ContextGrows, NEW q, NEW n \in Nat \ {0}, NEW m \in Nat,
         m <= Len(chip_queues[Context]), Ahead(q, n, m)
  PROVE  Ahead(q, n, m)'
<1>1. PICK k \in n..m : chip_queues[Context][k] = q BY DEF Ahead
<1>2. k \in 1..Len(chip_queues[Context]) BY DEF ContextGrows
<1>3. chip_queues'[Context][k] = q BY <1>1, <1>2 DEF ContextGrows
<1>. QED BY <1>3 DEF Ahead

LEMMA ListedAheadKept ==
  ASSUME ContextGrows, OutstandingListed, UNCHANGED <<backend, outstanding>>
  PROVE  OutstandingListed'
<1>. SUFFICES ASSUME backend = "Level0", NEW o \in outstanding
              PROVE  Ahead(o.queue, 1, Len(chip_queues[Context]))'
  BY DEF OutstandingListed
<1>1. PICK k \in 1..Len(chip_queues[Context]) : chip_queues[Context][k] = o.queue
  BY DEF OutstandingListed, Ahead
<1>2. k \in 1..Len(chip_queues'[Context]) /\ chip_queues'[Context][k] = o.queue
  BY <1>1 DEF ContextGrows
<1>. QED BY <1>2 DEF Ahead

(* A stream of the application is in the vector.                           *)
LEMMA StreamsAhead ==
  ASSUME IInv, CreatorInv, PrimariesLive, backend = "Level0", NEW q \in streams
  PROVE  Ahead(q, 1, Len(chip_queues[Context]))
<1>1. q \in ToSet(chip_queues[Context]) BY DEF CreatorInv, ContextKnowsStreams, Listed
<1>2. chip_queues[Context] \in Seq(DOMAIN home) BY DEF IInv, Typed
<1>. QED BY <1>1, <1>2 DEF ToSet, Ahead

(* Who is not concerned by a step that leaves the vectors alone.           *)
LEMMA OthersWalk ==
  ASSUME NEW s, WalkOK(s), UNCHANGED <<backend, chip_queues, work[s], owed[s]>>
  PROVE  WalkOK(s)'
BY DEF WalkOK, Ahead
(* What is submitted goes to a queue of the context.                       *)
LEMMA ListedKept ==
  ASSUME IInv, CreatorInv, PrimariesLive, WorkInv, OutstandingListed,
         NEW t \in Threads, Work(t)
  PROVE  OutstandingListed'
<1>1. UNCHANGED <<backend, chip_queues>>
  BY DEF Work, registry, vars, MemcpyAsync, Memcpy, MemcpyOpenCL, CopyRows, Row, RowOnHost,
     RowFails, FinishRows, DeviceSynchronize, FinishNext, FinishDangling, AllFinished,
     WaitEnds, WaitFails, Acknowledge
<1>2. ASSUME NEW q \in streams, NEW o \in Ops(q), outstanding' = outstanding \cup {o}
      PROVE  OutstandingListed'
  BY <1>1, <1>2, StreamsAhead DEF OutstandingListed, Ahead, Ops
<1>3. ASSUME NEW q \in Queues, MemcpyAsync(t, q) PROVE OutstandingListed'
  BY <1>2, <1>3 DEF MemcpyAsync, Sync!Submit
<1>4. CASE Memcpy(t) \/ MemcpyOpenCL(t)
  BY <1>2, <1>4 DEF Memcpy, MemcpyOpenCL, Sync!Submit, Sync!SubmitAndWait, PrimariesLive
<1>5. CASE Row(t)
  <2>1. work[t].at = "rows" BY <1>5 DEF Row
  <2>2. RowQueue(t) \subseteq streams
    BY <2>1 DEF RowQueue, WorkInv, Doing, PrimariesLive
  <2>. QED BY <1>2, <1>5, <2>2 DEF Row, Sync!Submit
<1>6. CASE UNCHANGED outstanding BY <1>1, <1>6 DEF OutstandingListed, Ahead
<1>. QED
  BY <1>3, <1>4, <1>5, <1>6 DEF Work, queues, CopyRows, RowOnHost, RowFails, FinishRows,
     DeviceSynchronize, FinishNext, FinishDangling, AllFinished, WaitEnds, WaitFails,
     Acknowledge, Sync!BeginWait, Sync!Return, Sync!Fail

(* The walk goes on by one queue, and has waited for what was on it.       *)
LEMMA WalkSteps ==
  ASSUME IInv, WorkInv, WalkInv, NEW t \in Threads, Work(t)
  PROVE  \A s \in Threads : WalkOK(s)'
<1>0. /\ UNCHANGED <<backend, chip_queues>>
      /\ DOMAIN work = Threads /\ DOMAIN owed = Threads
      /\ \A s \in Threads \ {t} : work'[s] = work[s] /\ owed'[s] = owed[s]
  BY DEF Work, registry, vars, queues, MemcpyAsync, Memcpy, MemcpyOpenCL, CopyRows, Row,
     RowOnHost, RowFails, FinishRows, DeviceSynchronize, FinishNext, FinishDangling,
     AllFinished, WaitEnds, WaitFails, Acknowledge, Enter, Begin, Succeed, FailCall,
     WorkInv, WorkTyped, Sync!Submit, Sync!SubmitAndWait, Sync!BeginWait, Sync!Return,
     Sync!Fail
<1>1. \A s \in Threads \ {t} : WalkOK(s)' BY <1>0, OthersWalk DEF WalkInv
<1>. SUFFICES WalkOK(t)'
  BY <1>1
<1>2. Doing(t) /\ WalkOK(t) BY DEF WorkInv, WalkInv
<1>3. ASSUME work'[t].what # "sync", work'[t].at # "walk" PROVE WalkOK(t)'
  BY <1>3 DEF WalkOK
<1>4. CASE DeviceSynchronize(t)
  <2>1. /\ work'[t].at = "walk" /\ work'[t].mine = outstanding /\ work'[t].next = 1
        /\ work'[t].last = Len(chip_queues[Context])
    BY <1>0, <1>4 DEF DeviceSynchronize, Begin, Enter
  <2>2. Len(chip_queues[Context]) \in Nat BY DEF IInv, Typed
  <2>. QED BY <1>0, <2>1, <2>2 DEF WalkInv, OutstandingListed, WalkOK, Ahead
<1>5. CASE FinishNext(t)
  <2>. DEFINE n == work[t].next
              l == work[t].last
              m == work[t].mine
  <2>1. /\ work[t].at = "walk" /\ work[t].what = "sync" /\ n \in Nat \ {0} /\ l \in Nat
        /\ n <= l /\ l <= Len(chip_queues[Context])
        /\ m \subseteq outstanding
    BY <1>2, <1>5 DEF FinishNext, Doing, WalkOK
  <2>2. /\ work'[t].at = "wait" /\ work'[t].mine = m /\ work'[t].next = n
        /\ work'[t].last = l /\ work'[t].moved = work[t].moved
    BY <1>0, <1>5 DEF FinishNext, Enter
  <2>3. PICK q \in WalkReads(t) : owed'[t] = { o \in outstanding : o.queue = q }
    BY <1>0, <1>5 DEF FinishNext, Sync!BeginWait, Sync!On
  <2>4. Len(chip_queues[Context]) \in Nat BY DEF IInv, Typed
  <2>5. work[t].moved = FALSE => q = chip_queues[Context][n]
    BY <2>1, <2>3, <2>4 DEF WalkReads
  <2>. HIDE DEF n, m, l
  <2>6. ASSUME backend = "Level0", work[t].moved = FALSE, NEW o \in m, o \notin owed'[t]
        PROVE  Ahead(o.queue, n + 1, l)
    <3>1. Ahead(o.queue, n, l) BY <1>2, <2>1, <2>6 DEF WalkOK, n, m, l
    <3>2. PICK k \in n..l : chip_queues[Context][k] = o.queue
      BY <3>1 DEF Ahead
    <3>3. k # n BY <2>1, <2>3, <2>5, <2>6, <3>2
    <3>4. k \in (n + 1)..l
      BY <2>1, <3>2, <3>3
    <3>. QED BY <3>2, <3>4 DEF Ahead
  <2>. QED BY <1>0, <2>1, <2>2, <2>6 DEF WalkOK, Ahead
<1>6. CASE AllFinished(t)
  <2>1. /\ work[t].at = "walk" /\ work[t].what = "sync" /\ work[t].next > work[t].last
        /\ work[t].next \in Nat /\ work[t].last \in Nat
    BY <1>2, <1>6 DEF AllFinished, Doing
  <2>2. /\ work'[t].at = "success" /\ work'[t].mine = work[t].mine
        /\ work'[t].moved = work[t].moved
    BY <1>0, <1>2, <1>6 DEF AllFinished, Succeed, Enter, Doing
  <2>3. ASSUME backend = "Level0", work[t].moved = FALSE PROVE work[t].mine = {}
    BY <1>2, <2>1, <2>3 DEF WalkOK, Ahead
  <2>. QED BY <1>0, <2>2, <2>3 DEF WalkOK
<1>7. CASE WaitEnds(t)
  <2>1. /\ work[t].at = "wait" /\ owed[t] = {} BY <1>7 DEF WaitEnds, Sync!Return
  <2>2. CASE work[t].then = "return"
    <3>1. work[t].what # "sync" BY <1>2, <2>1, <2>2 DEF Doing
    <3>2. work'[t].what = work[t].what
      BY <1>0, <1>2, <1>7, <2>2 DEF WaitEnds, Succeed, Enter, Doing
    <3>3. work'[t].at = "success"
      BY <1>0, <1>2, <1>7, <2>2 DEF WaitEnds, Succeed, Enter, Doing
    <3>. QED BY <1>3, <3>1, <3>2, <3>3
  <2>3. CASE work[t].then # "return"
    <3>1. work[t].what = "sync" BY <1>2, <2>1, <2>3 DEF Doing
    <3>2. /\ work'[t].at = "walk" /\ work'[t].mine = work[t].mine
          /\ work'[t].next = work[t].next + 1 /\ work'[t].last = work[t].last
          /\ work'[t].moved = work[t].moved
      BY <1>0, <1>7, <2>3 DEF WaitEnds, Enter
    <3>. QED BY <1>0, <1>2, <2>1, <3>1, <3>2 DEF WalkOK, Ahead
  <2>. QED BY <2>2, <2>3
<1>8. CASE FinishDangling(t)
  <2>1. work'[t].at = "crashed" BY <1>0, <1>8 DEF FinishDangling, Enter
  <2>. QED BY <2>1 DEF WalkOK
<1>9. CASE UNCHANGED work /\ owed' = owed
  BY <1>0, <1>2, <1>9, OthersWalk
<1>10. ASSUME NEW s \in Queues, MemcpyAsync(t, s) PROVE WalkOK(t)'
  BY <1>9, <1>10 DEF MemcpyAsync, Sync!Submit
<1>11. CASE \/ Memcpy(t) \/ MemcpyOpenCL(t)
            \/ \E n \in 0..MaxRows, handsOn \in BOOLEAN : CopyRows(t, n, handsOn)
  <2>1. work'[t].what = "copy" /\ work'[t].at # "walk"
    BY <1>0, <1>11 DEF Memcpy, MemcpyOpenCL, CopyRows, Begin, Enter
  <2>. QED BY <1>3, <2>1
<1>12. CASE Row(t) \/ RowOnHost(t) \/ FinishRows(t)
  <2>1. /\ work[t].what = "copy" /\ {"at", "what", "mine"} \subseteq DOMAIN work[t]
        /\ work[t].at = "rows"
    BY <1>2, <1>12 DEF Row, RowOnHost, FinishRows, Doing
  <2>2. CASE RowOnHost(t) \/ FinishRows(t)
    <3>1. work'[t].what = "copy" /\ work'[t].at # "walk"
      BY <1>0, <2>1, <2>2 DEF RowOnHost, FinishRows, Succeed, Enter
    <3>. QED BY <1>3, <3>1
  <2>3. CASE Row(t)
    <3>1. PICK o : Enter(t, [work[t] EXCEPT !.left = @ - 1, !.mine = @ \cup {o}])
      BY <2>3 DEF Row
    <3>2. work'[t] = [work[t] EXCEPT !.left = @ - 1, !.mine = @ \cup {o}]
      BY <1>0, <3>1 DEF Enter
    <3>3. work'[t].what = "copy" /\ work'[t].at = "rows" BY <2>1, <3>2
    <3>. QED BY <1>3, <3>3
  <2>. QED BY <1>12, <2>2, <2>3
<1>13. CASE RowFails(t) \/ WaitFails(t) \/ Acknowledge(t)
  <2>1. work'[t].what = "nothing" /\ work'[t].at = "idle"
    BY <1>0, <1>13 DEF RowFails, WaitFails, Acknowledge, FailCall, Enter, NoWork
  <2>. QED BY <1>3, <2>1
<1>. QED BY <1>4, <1>5, <1>6, <1>7, <1>8, <1>10, <1>11, <1>12, <1>13 DEF Work

LEMMA WalkComplete ==
  ASSUME WorkInv, WalkInv, NEW o \in Sync!Operation, Complete(o)
  PROVE  WalkInv'
<1>0. /\ UNCHANGED <<backend, chip_queues>>
      /\ outstanding' = outstanding \ {o} /\ owed' = [t \in Threads |-> owed[t] \ {o}]
      /\ work' = [t \in Threads |-> [work[t] EXCEPT !.mine = @ \ {o}]]
  BY DEF Complete, registry, vars, Sync!Complete
<1>1. ASSUME NEW t \in Threads PROVE WalkOK(t)'
  <2>1. Doing(t) /\ WalkOK(t) BY DEF WorkInv, WalkInv
  <2>2. /\ work'[t].at = work[t].at /\ work'[t].what = work[t].what
        /\ work'[t].mine = work[t].mine \ {o} /\ owed'[t] = owed[t] \ {o}
        /\ work[t].at = "walk" \/ (work[t].at = "wait" /\ work[t].what = "sync")
             => work'[t].next = work[t].next /\ work'[t].last = work[t].last
        /\ work[t].what = "sync" => work'[t].moved = work[t].moved
    BY <1>0, <2>1 DEF Doing
  <2>. QED BY <1>0, <2>1, <2>2 DEF WalkOK, Ahead
<1>2. OutstandingListed' BY <1>0 DEF WalkInv, OutstandingListed, Ahead
<1>. QED BY <1>1, <1>2 DEF WalkInv

LEMMA WalkManage ==
  ASSUME IInv, CreatorInv, WorkInv, WalkInv, NEW t \in Threads, Manage(t)
  PROVE  WalkInv'
<1>0. UNCHANGED <<backend, outstanding, owed>>
  BY CallsKept DEF Manage, queues
<1>1. ContextGrows BY ContextOnlyGrows DEF Manage, Next
<1>2. ASSUME NEW s \in Threads PROVE WalkOK(s)'
  <2>1. Doing(s) /\ WalkOK(s) BY DEF WorkInv, WalkInv
  <2>2. /\ work'[s].at = work[s].at /\ work'[s].what = work[s].what
        /\ work'[s].mine = work[s].mine
        /\ work[s].at = "walk" \/ (work[s].at = "wait" /\ work[s].what = "sync")
             => /\ work'[s].next = work[s].next /\ work[s].next \in Nat \ {0}
                /\ work'[s].last = work[s].last /\ work[s].last \in Nat
        /\ work[s].what = "sync" => work'[s].moved \in {work[s].moved, TRUE}
    BY <2>1, ManageWork DEF Doing
  <2>3. ASSUME NEW q, NEW n \in Nat \ {0}, NEW m \in Nat, m <= Len(chip_queues[Context]),
               Ahead(q, n, m)
        PROVE  Ahead(q, n, m)'
    BY <1>1, <2>3, AheadKept
  <2>4. work'[s].at = "walk" \/ (work'[s].at = "wait" /\ work'[s].what = "sync")
          => work'[s].last <= Len(chip_queues'[Context])
    BY <1>1, <2>1, <2>2 DEF WalkOK, ContextGrows
  <2>5. ASSUME backend = "Level0", work[s].what = "sync", work'[s].moved = FALSE
        PROVE  /\ work[s].at = "walk" =>
                    \A o \in work[s].mine : Ahead(o.queue, work[s].next, work[s].last)'
               /\ work[s].at = "wait" =>
                    \A o \in work[s].mine \ owed[s] :
                      Ahead(o.queue, work[s].next + 1, work[s].last)'
               /\ work[s].at = "success" => work[s].mine = {}
    <3>1. work[s].moved = FALSE BY <2>2, <2>5
    <3>2. CASE work[s].at = "walk"
      <4>1. \A o \in work[s].mine : Ahead(o.queue, work[s].next, work[s].last)
        BY <2>1, <2>5, <3>1, <3>2 DEF WalkOK
      <4>2. /\ work[s].next \in Nat \ {0} /\ work[s].last \in Nat
            /\ work[s].last <= Len(chip_queues[Context])
        BY <2>1, <2>2, <3>2 DEF WalkOK
      <4>3. UNCHANGED <<work[s].next, work[s].last>> BY <2>2, <3>2
      <4>. QED BY <2>3, <3>2, <4>1, <4>2, <4>3
    <3>3. CASE work[s].at = "wait"
      <4>1. \A o \in work[s].mine \ owed[s] : Ahead(o.queue, work[s].next + 1, work[s].last)
        BY <2>1, <2>5, <3>1, <3>3 DEF WalkOK
      <4>2. /\ work[s].next + 1 \in Nat \ {0} /\ work[s].last \in Nat
            /\ work[s].last <= Len(chip_queues[Context])
        BY <2>1, <2>2, <2>5, <3>3 DEF WalkOK
      <4>3. UNCHANGED <<work[s].next, work[s].last>> BY <2>2, <2>5, <3>3
      <4>. QED BY <2>3, <3>3, <4>1, <4>2, <4>3
    <3>4. CASE work[s].at = "success" BY <2>1, <2>5, <3>1, <3>4 DEF WalkOK
    <3>. QED BY <3>2, <3>3, <3>4
  <2>. QED BY <1>0, <2>2, <2>4, <2>5 DEF WalkOK
<1>3. OutstandingListed' BY <1>0, <1>1, ListedAheadKept DEF WalkInv
<1>. QED BY <1>2, <1>3 DEF WalkInv

LEMMA WalkStep ==
  IInv /\ CreatorInv /\ PrimariesLive /\ WorkInv /\ WalkInv /\ [WorkNext]_workVars => WalkInv'
<1>. SUFFICES ASSUME IInv, CreatorInv, PrimariesLive, WorkInv, WalkInv, [WorkNext]_workVars
              PROVE  WalkInv'
  OBVIOUS
<1>1. CASE UNCHANGED workVars
  <2>1. UNCHANGED <<backend, chip_queues, work, outstanding, owed>>
    BY <1>1 DEF workVars, registry, vars, queues
  <2>. QED BY <2>1, OthersWalk DEF WalkInv, OutstandingListed, Ahead
<1>2. ASSUME NEW t \in Threads, Work(t) PROVE WalkInv'
  BY <1>2, ListedKept, WalkSteps DEF WalkInv
<1>. QED BY <1>1, <1>2, WalkManage, WalkComplete DEF WorkNext, Down

LEMMA WalkInvariant ==
  ASSUME OneCreator
  PROVE  WorkSpec => [](WorkInv /\ WalkInv)
<1>1. WorkInit => WalkInv
  BY DEF WorkInit, Sync!Init, WalkInv, WalkOK, OutstandingListed, NoWork
<1>. QED BY <1>1, WalkStep, WorkInvariant, CreatorInvariant, WorkImplementsStreams, PTL
         DEF WorkSpec

(* hipDeviceSynchronize waits for all that was outstanding when it was     *)
(* called, if one thread creates and destroys streams, before its loop or  *)
(* beside it, as long as no push_back moves the vector the loop is over.   *)
THEOREM DeviceSyncCorrect ==
  ASSUME OneCreator
  PROVE  WorkSpec => []DeviceSyncDrains
<1>1. WorkInv /\ WalkInv => DeviceSyncDrains
  BY DEF WorkInv, Doing, WalkInv, WalkOK, DeviceSyncDrains
<1>. QED BY <1>1, WalkInvariant, PTL
-----------------------------------------------------------------------------
(* A queue in the vector of the context is built, or its constructor threw *)
(* or still runs.                                                          *)
Accounted(q) ==
  q \in built \cup thrown \/ \E t \in Threads : Creating(t) /\ call[t].queue = q

AccountedInv ==
  /\ \A q \in Listed(Context) : Accounted(q)
  /\ \A t \in Threads :
       call[t].at = "store" /\ call[t].vector = Context =>
         \A q \in ToSet(call[t].seen) : Accounted(q)

LEMMA AccountedInit == Init => AccountedInv
<1>. SUFFICES ASSUME Init PROVE AccountedInv
  OBVIOUS
<1>1. Listed(Context) \subseteq Primaries
  <2>1. ToSet(SetToSeq(Primaries)) = Primaries /\ ToSet(<<>>) = {}
    BY PrimariesList, SetToSeqProperties DEF ToSet
  <2>. QED BY <2>1 DEF Init, Listed
<1>. QED BY <1>1 DEF Init, AccountedInv, Accounted, Idle

(* A construction goes on, ends with its queue built, or throws.           *)
LEMMA ConstructionGoesOn ==
  ASSUME IInv, NEW t \in Threads, Step(t), Creating(t)
  PROVE  \/ call[t].queue \in built' \cup thrown'
         \/ Creating(t)' /\ call'[t].queue = call[t].queue
<1>0. /\ DOMAIN call = Threads /\ call[t].todo \in Todos /\ call[t] # Idle
      /\ call[t].todo \in AfterBuild => call[t].queue \in built
      /\ call[t].at # "set" /\ call[t].at # "remove"
  BY DEF IInv, Typed, CallTyped, Creating, Idle
<1>1. Len(call[t].todo) = 1 => call[t].queue \in built
  <2>1. Typed BY DEF IInv
  <2>2. Len(call[t].todo) = 1 => call[t].todo \in AfterBuild BY <1>0, <2>1, TodoFacts
  <2>. QED BY <1>0, <2>2
<1>2. CASE Register(t)
  <2>1. PICK x : Become(t, Reading(call[t], x)) BY <1>2 DEF Register
  <2>. QED BY <1>0, <2>1 DEF Become, Reading, Creating
<1>3. CASE StoreVector(t)
  <2>1. built' = built /\ call'[t] = CreateNext(call[t])
    BY <1>0, <1>3 DEF StoreVector, Become
  <2>. QED BY <1>1, <2>1 DEF CreateNext, Creating
<1>4. CASE Build(t) \/ BuildFails(t)
  BY <1>4 DEF Build, BuildFails
<1>. QED
  BY <1>0, <1>2, <1>3, <1>4 DEF Step, StreamCreate, StreamDestroy, SetDevice, SetQueue,
     RemoveQueue

LEMMA AccountedKept ==
  ASSUME IInv, NEW t \in Threads, Step(t), NEW q, Accounted(q)
  PROVE  Accounted(q)'
<1>1. built \subseteq built' /\ thrown \subseteq thrown'
  BY DEF Step, StreamCreate, StreamDestroy, SetDevice, SetQueue, Register, StoreVector,
         Build, BuildFails, RemoveQueue
<1>2. ASSUME NEW s \in Threads \ {t}, Creating(s), call[s].queue = q
      PROVE  Creating(s)' /\ call'[s].queue = q
  BY <1>2, CallsKept DEF Creating
<1>3. ASSUME Creating(t), call[t].queue = q PROVE Accounted(q)'
  BY <1>3, ConstructionGoesOn DEF Accounted
<1>. QED BY <1>1, <1>2, <1>3 DEF Accounted

LEMMA AccountedStep ==
  ASSUME IInv, AccountedInv, [Next]_vars
  PROVE  AccountedInv'
<1>0. DOMAIN call = Threads BY DEF IInv, Typed
<1>1. CASE UNCHANGED vars BY <1>1 DEF AccountedInv, Accounted, Listed, Creating, vars
<1>2. ASSUME NEW t \in Threads, Step(t) PROVE AccountedInv'
  <2>1. \A q : Accounted(q) => Accounted(q)' BY <1>2, AccountedKept
  <2>2. \A s \in Threads \ {t} : call'[s] = call[s] BY <1>2, CallsKept
  <2>3. ASSUME NEW s \in Threads, s # t, call'[s].at = "store", call'[s].vector = Context,
               NEW q \in ToSet(call'[s].seen)
        PROVE  Accounted(q)'
    BY <2>1, <2>2, <2>3 DEF AccountedInv
  <2>4. CASE StoreVector(t)
    <3>. DEFINE c == call[t]
    <3>1. call'[t].at # "store" BY <1>0, <2>4 DEF StoreVector, Become, CreateNext, Idle
    <3>2. Accounted(c.queue) BY <2>4 DEF StoreVector, Accounted, Creating
    <3>3. ASSUME NEW q \in Listed(Context)' PROVE Accounted(q)'
      <4>1. CASE chip_queues'[Context] = chip_queues[Context]
        BY <2>1, <3>3, <4>1 DEF AccountedInv, Listed
      <4>2. CASE chip_queues'[Context] # chip_queues[Context]
        <5>1. chip_queues' = [chip_queues EXCEPT ![c.vector] = Append(c.seen, c.queue)]
          BY <2>4, <4>2 DEF StoreVector
        <5>2. c.vector = Context /\ Context \in DOMAIN chip_queues
          BY <4>2, <5>1 DEF IInv, Typed
        <5>3. ToSet(Append(c.seen, c.queue)) = ToSet(c.seen) \cup {c.queue}
          BY <2>4, AppendSet DEF StoreVector, IInv, CallTyped, Creating
        <5>4. q \in ToSet(c.seen) \cup {c.queue} BY <3>3, <5>1, <5>2, <5>3 DEF Listed
        <5>. QED BY <2>1, <2>4, <3>2, <5>2, <5>4 DEF StoreVector, AccountedInv
      <4>. QED BY <4>1, <4>2
    <3>. QED BY <2>3, <3>1, <3>3 DEF AccountedInv
  <2>5. CASE RemoveQueue(t)
    <3>1. chip_queues'[Context] = chip_queues[Context]
      BY <2>5, StreamsAssumption DEF RemoveQueue, IInv, Typed
    <3>2. call'[t].at # "store" BY <1>0, <2>5 DEF RemoveQueue, Become, Idle
    <3>. QED BY <2>1, <2>3, <3>1, <3>2 DEF AccountedInv, Listed
  <2>6. CASE Register(t)
    <3>1. chip_queues' = chip_queues BY <2>6 DEF Register
    <3>2. call'[t].seen = chip_queues[call'[t].vector]
      BY <1>0, <2>6 DEF Register, Reading, Become
    <3>. QED BY <2>1, <2>3, <3>1, <3>2 DEF AccountedInv, Listed
  <2>7. CASE ~ StoreVector(t) /\ ~ RemoveQueue(t) /\ ~ Register(t)
    <3>1. chip_queues' = chip_queues
      BY <1>2, <2>7 DEF Step, StreamCreate, StreamDestroy, SetDevice, SetQueue, Build,
                        BuildFails
    <3>2. call'[t].at # "store"
      <4>1. ASSUME NEW q \in Queues, StreamCreate(t, q) PROVE call'[t].at # "store"
        BY <1>0, <4>1 DEF StreamCreate, Become
      <4>2. ASSUME NEW q \in Queues, StreamDestroy(t, q) PROVE call'[t].at # "store"
        BY <1>0, <4>2 DEF StreamDestroy, Become
      <4>3. ASSUME NEW d \in Devices, SetDevice(t, d) PROVE call'[t].at # "store"
        BY <1>0, <4>3 DEF SetDevice, Become
      <4>4. ASSUME Build(t) \/ BuildFails(t) \/ SetQueue(t) PROVE call'[t].at # "store"
        BY <1>0, <4>4 DEF Build, BuildFails, SetQueue, Become, CreateNext, Idle
      <4>. QED BY <1>2, <2>7, <4>1, <4>2, <4>3, <4>4 DEF Step
    <3>. QED BY <2>1, <2>3, <3>1, <3>2 DEF AccountedInv, Listed
  <2>. QED BY <2>4, <2>5, <2>6, <2>7
<1>. QED BY <1>1, <1>2 DEF Next

LEMMA AccountedInvariant == Spec => []AccountedInv
<1>1. IInv /\ AccountedInv /\ [Next]_vars => AccountedInv' BY AccountedStep
<1>. QED BY <1>1, AccountedInit, Invariant, PTL DEF Spec

LEMMA DanglingStep ==
  ASSUME IInv, AccountedInv, WorkInv, WalkInv, FinishesBuiltQueues, [WorkNext]_workVars
  PROVE  FinishesBuiltQueues'
<1>0. DOMAIN work = Threads BY DEF WorkInv, WorkTyped
<1>1. thrown \subseteq thrown'
  <2>1. [Next]_vars BY WorkSteps
  <2>. QED BY <2>1 DEF vars, Next, Step, StreamCreate, StreamDestroy, SetDevice, SetQueue,
              Register, StoreVector, Build, BuildFails, RemoveQueue
<1>2. ASSUME NEW t \in Threads, FinishDangling(t) PROVE work'[t].moved \/ thrown # {}
  <2>. DEFINE q == chip_queues[Context][work[t].next]
  <2>1. /\ work[t].at = "walk" /\ work[t].next <= work[t].last
        /\ work'[t].moved = (work[t].moved \/ Constructing)
    BY <1>0, <1>2 DEF FinishDangling, Enter
  <2>. SUFFICES ASSUME ~ work[t].moved, ~ Constructing PROVE thrown # {}
    BY <2>1
  <2>2. /\ work[t].next \in Nat \ {0} /\ work[t].last \in Nat
        /\ work[t].last <= Len(chip_queues[Context])
    BY <2>1 DEF WorkInv, Doing, WalkInv, WalkOK
  <2>3. chip_queues[Context] \in Seq(DOMAIN home) BY DEF IInv, Typed
  <2>4. work[t].next \in 1..Len(chip_queues[Context])
    BY <2>1, <2>2, <2>3
  <2>5. q \notin built BY <1>2, <2>4 DEF FinishDangling, WalkReads
  <2>6. Accounted(q)
    <3>1. q \in Listed(Context) BY <2>3, <2>4 DEF Listed, ToSet
    <3>. QED BY <3>1 DEF AccountedInv
  <2>. QED BY <2>5, <2>6 DEF Accounted, Creating, Constructing
<1>3. ASSUME NEW t \in Threads, Work(t), ~ FinishDangling(t), NEW s \in Threads,
             work'[s].at = "crashed"
      PROVE  work'[s] = work[s]
  <2>1. Doing(t) BY DEF WorkInv
  <2>2. work'[t].at # "crashed" \/ work' = work
    <3>1. ASSUME Row(t) PROVE work'[t].at # "crashed"
      <4>1. PICK o : Enter(t, [work[t] EXCEPT !.left = @ - 1, !.mine = @ \cup {o}])
        BY <3>1 DEF Row
      <4>2. work'[t] = [work[t] EXCEPT !.left = @ - 1, !.mine = @ \cup {o}]
        BY <1>0, <4>1 DEF Enter
      <4>3. work'[t].at = "rows" BY <2>1, <3>1, <4>2 DEF Doing, Row
      <4>. QED BY <4>3
    <3>2. ASSUME RowOnHost(t) \/ FinishRows(t) \/ AllFinished(t) \/ WaitEnds(t)
          PROVE  work'[t].at # "crashed"
      BY <1>0, <2>1, <3>2 DEF Doing, RowOnHost, FinishRows, AllFinished, WaitEnds, Succeed,
         Enter
    <3>3. ASSUME NEW q \in Queues, MemcpyAsync(t, q) PROVE work' = work
      BY <3>3 DEF MemcpyAsync
    <3>4. ASSUME \/ Memcpy(t) \/ MemcpyOpenCL(t) \/ RowFails(t) \/ DeviceSynchronize(t)
                 \/ FinishNext(t) \/ WaitFails(t) \/ Acknowledge(t)
                 \/ \E n \in 0..MaxRows, handsOn \in BOOLEAN : CopyRows(t, n, handsOn)
          PROVE  work'[t].at # "crashed"
      BY <1>0, <3>4 DEF Memcpy, MemcpyOpenCL, CopyRows, RowFails, DeviceSynchronize,
         FinishNext, WaitFails, Acknowledge, Enter, Begin, FailCall, NoWork
    <3>. QED BY <1>3, <3>1, <3>2, <3>3, <3>4 DEF Work
  <2>3. s # t => work'[s] = work[s]
    BY <1>0, <1>3 DEF Work, MemcpyAsync, Memcpy, MemcpyOpenCL, CopyRows, Row,
       RowOnHost, RowFails, FinishRows, DeviceSynchronize, FinishNext, AllFinished,
       WaitEnds, WaitFails, Acknowledge, Enter, Begin, Succeed, FailCall, NoWork
  <2>. QED BY <1>3, <2>2, <2>3
<1>4. ASSUME NEW t \in Threads, FinishDangling(t), NEW s \in Threads, s # t
      PROVE  work'[s] = work[s]
  BY <1>0, <1>4 DEF FinishDangling, Enter
<1>5. CASE UNCHANGED workVars
  BY <1>5 DEF workVars, registry, vars, FinishesBuiltQueues
<1>6. ASSUME ~ Crashed, \/ \E o \in Sync!Operation : Complete(o)
                        \/ \E t \in Threads : Manage(t)
      PROVE  FinishesBuiltQueues'
  <2>1. ASSUME NEW s \in Threads PROVE work'[s].at = work[s].at
    <3>1. Doing(s) BY DEF WorkInv
    <3>2. ASSUME NEW o \in Sync!Operation, Complete(o) PROVE work'[s].at = work[s].at
      BY <3>1, <3>2 DEF Complete, Doing
    <3>3. ASSUME NEW t \in Threads, Manage(t) PROVE work'[s].at = work[s].at
      BY <3>1, <3>3, ManageWork DEF Doing
    <3>. QED BY <1>6, <3>2, <3>3
  <2>. QED BY <1>6, <2>1 DEF Crashed, FinishesBuiltQueues
<1>7. ASSUME NEW t \in Threads, Work(t) PROVE FinishesBuiltQueues'
  BY <1>1, <1>2, <1>3, <1>4, <1>7 DEF FinishesBuiltQueues
<1>. QED BY <1>5, <1>6, <1>7 DEF WorkNext, Down

(* With one creator, hipDeviceSynchronize finishes no queue whose          *)
(* constructor is not through, unless a constructor threw, a stream is     *)
(* being made at the time, or a push_back moved the vector under the loop. *)
THEOREM FinishesBuiltCorrect ==
  ASSUME OneCreator
  PROVE  WorkSpec => []FinishesBuiltQueues
<1>1. WorkInit => FinishesBuiltQueues BY DEF WorkInit, NoWork, FinishesBuiltQueues
<1>. QED BY <1>1, DanglingStep, WorkInvariant, WalkInvariant, AccountedInvariant,
            WorkImplementsStreams, PTL DEF WorkSpec
=============================================================================
