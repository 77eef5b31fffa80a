-------------------------- MODULE KernelLaunchProofs --------------------------
(* Every launch is made as it was configured, for any number of threads,   *)
(* kernels, queues and nested calls, when one thread at a time has         *)
(* configurations on the stack and threads launch different kernels.       *)
EXTENDS KernelLaunch, Integers, SequenceTheorems, TLAPS

OneUser == \A s, t \in Threads : s # t => Uses[s] \cap Uses[t] = {}

PC == {"idle", "pop", "find", "group", "args", "append"}

Typed ==
  /\ TypeOK
  /\ open \in [Threads -> Seq(Intent)]
  /\ pc \in [Threads -> PC]
  /\ item \in [Threads -> ExecItem \cup {NoItem}]

(* The configuration of a launch, once its arguments were set up.          *)
Configured(it, l) ==
  it.ticket = l.ticket /\ (l.api = "old" => it.queue = l.queue /\ it.args = {l.ticket})

(* What a thread has in hand is the launch it is making, and the kernel    *)
(* object holds what its steps have put there.                             *)
ThreadOK(t) ==
  /\ pc[t] # "idle" => open[t] # <<>>
  /\ \A i \in 1..Len(open[t]) :
       /\ open[t][i].func \in Uses[t]
       /\ open[t][i].api = "direct" => i = Len(open[t]) /\ pc[t] \notin {"idle", "pop"}
  /\ pc[t] # "idle" => Configured(item[t], Current(t))
  /\ pc[t] \notin {"idle", "pop"} => item[t].args = {Current(t).ticket}
  /\ pc[t] \in {"args", "append"} =>
       t \in refused \/ kernel[Current(t).func].group = Current(t).ticket
  /\ pc[t] = "append" => kernel[Current(t).func].args = {Current(t).ticket}

(* No two launches have one ticket. *)
Unique ==
  \A s, t \in Threads : \A i \in 1..Len(open[s]), j \in 1..Len(open[t]) :
    open[s][i].ticket = open[t][j].ticket => s = t /\ i = j

(* The configuration of a launch that waits on the stack. *)
Pushed(it, l) ==
  /\ it.ticket = l.ticket
  /\ l.api = "old" => it.queue = l.queue
                      /\ it.args = IF l.arguments THEN {l.ticket} ELSE {}

StackOK ==
  /\ \A s, t \in Threads : s # t => Waiting(s) = <<>> \/ Waiting(t) = <<>>
  /\ \A t \in Threads : Waiting(t) # <<>> =>
       /\ Len(chip_execstack) = Len(Waiting(t))
       /\ \A i \in 1..Len(chip_execstack) : Pushed(chip_execstack[i], Waiting(t)[i])
  /\ (\A t \in Threads : Waiting(t) = <<>>) => chip_execstack = <<>>

LastOK == LaunchAsConfigured /\ LaunchOnStream

IInv ==
  /\ Typed /\ Unique /\ StackOK /\ LastOK
  /\ \A t \in Threads : ThreadOK(t)

-----------------------------------------------------------------------------
(* Sequences.                                                              *)

LEMMA FrontOf ==
  ASSUME NEW S, NEW s \in Seq(S), s # <<>>
  PROVE  /\ Len(s) \in Nat /\ Len(s) > 0
         /\ Front(s) \in Seq(S) /\ Len(Front(s)) = Len(s) - 1
         /\ \A i \in 1..(Len(s) - 1) : Front(s)[i] = s[i]
         /\ Last(s) = s[Len(s)] /\ Last(s) \in S
<1>1. Len(s) \in Nat /\ Len(s) > 0 BY EmptySeq
<1>2. /\ Front(s) \in Seq(S) /\ Len(Front(s)) = Len(s) - 1
      /\ \A i \in 1..(Len(s) - 1) : Front(s)[i] = s[i]
  <2>1. 1 \in Int /\ Len(s) - 1 \in Int /\ \A i \in 1..(Len(s) - 1) : s[i] \in S
    BY <1>1
  <2>2. /\ SubSeq(s, 1, Len(s) - 1) \in Seq(S)
        /\ Len(SubSeq(s, 1, Len(s) - 1)) =
             IF 1 <= Len(s) - 1 THEN (Len(s) - 1) - 1 + 1 ELSE 0
        /\ \A i \in 1..((Len(s) - 1) - 1 + 1) :
             SubSeq(s, 1, Len(s) - 1)[i] = s[1 + i - 1]
    BY <2>1, SubSeqProperties
  <2>3. /\ Front(s) \in Seq(S)
        /\ Len(Front(s)) = IF 1 <= Len(s) - 1 THEN (Len(s) - 1) - 1 + 1 ELSE 0
        /\ \A i \in 1..((Len(s) - 1) - 1 + 1) : Front(s)[i] = s[1 + i - 1]
    BY <2>2 DEF Front
  <2>4. Len(Front(s)) = Len(s) - 1
    <3>1. PICK n : n = Len(s) OBVIOUS
    <3>2. n \in Nat /\ n > 0 BY <1>1, <3>1
    <3>3. (IF 1 <= n - 1 THEN (n - 1) - 1 + 1 ELSE 0) = n - 1 BY <3>2
    <3>. QED BY <2>3, <3>1, <3>3
  <2>5. \A i \in 1..(Len(s) - 1) : Front(s)[i] = s[i]
    <3>. TAKE i \in 1..(Len(s) - 1)
    <3>1. i \in 1..((Len(s) - 1) - 1 + 1) /\ 1 + i - 1 = i BY <1>1
    <3>. QED BY <2>3, <3>1
  <2>. QED BY <2>3, <2>4, <2>5
<1>. QED BY <1>1, <1>2 DEF Last

LEMMA AppendOf ==
  ASSUME NEW S, NEW s \in Seq(S), NEW x \in S
  PROVE  /\ Append(s, x) \in Seq(S) /\ Append(s, x) # <<>>
         /\ Len(Append(s, x)) = Len(s) + 1
         /\ \A i \in 1..Len(s) : Append(s, x)[i] = s[i]
         /\ Append(s, x)[Len(s) + 1] = x
         /\ Last(Append(s, x)) = x
         /\ Front(Append(s, x)) = s
<1>1. /\ Append(s, x) \in Seq(S) /\ Append(s, x) # <<>>
      /\ Len(Append(s, x)) = Len(s) + 1
      /\ \A i \in 1..Len(s) : Append(s, x)[i] = s[i]
      /\ Append(s, x)[Len(s) + 1] = x
  BY AppendProperties
<1>2. Last(Append(s, x)) = x BY <1>1 DEF Last
<1>3. PICK a : a = Append(s, x) OBVIOUS
<1>4. /\ Front(a) \in Seq(S) /\ Len(Front(a)) = Len(s)
      /\ \A i \in 1..Len(s) : Front(a)[i] = s[i]
  <2>1. /\ a \in Seq(S) /\ a # <<>> /\ Len(a) = Len(s) + 1
        /\ \A i \in 1..Len(s) : a[i] = s[i]
    BY <1>1, <1>3
  <2>2. /\ Front(a) \in Seq(S) /\ Len(Front(a)) = Len(a) - 1
        /\ \A i \in 1..(Len(a) - 1) : Front(a)[i] = a[i]
    BY <2>1, FrontOf
  <2>3. Len(s) \in Nat /\ Len(a) - 1 = Len(s) BY <2>1
  <2>. QED BY <2>1, <2>2, <2>3
<1>5. Front(a) = s BY <1>4, SeqEqual
<1>. QED BY <1>1, <1>2, <1>3, <1>5

-----------------------------------------------------------------------------
(* The invariant initially, and what a step leaves alone.                  *)

LEMMA InitOK == Init => IInv
<1>. SUFFICES ASSUME Init PROVE IInv
  OBVIOUS
<1>1. \A t \in Threads : /\ open[t] = <<>> /\ pc[t] = "idle" /\ item[t] = NoItem
                         /\ Waiting(t) = <<>> /\ Len(open[t]) = 0
  BY DEF Init, Waiting
<1>2. Len(last) = 0 /\ DOMAIN last = {} BY DEF Init
<1>3. Typed BY <1>1, <1>2 DEF Init, Typed, TypeOK, PC
<1>4. Unique BY <1>1 DEF Unique
<1>5. StackOK BY <1>1 DEF StackOK, Init
<1>6. LastOK BY <1>2 DEF LastOK, LaunchAsConfigured, LaunchOnStream
<1>7. \A t \in Threads : ThreadOK(t) BY <1>1 DEF ThreadOK
<1>. QED BY <1>3, <1>4, <1>5, <1>6, <1>7 DEF IInv

LEMMA CurrentOf ==
  ASSUME Typed, NEW t \in Threads, ThreadOK(t), open[t] # <<>>
  PROVE  /\ Len(open[t]) \in Nat /\ Len(open[t]) > 0
         /\ Current(t) = open[t][Len(open[t])] /\ Current(t) \in Intent
         /\ Current(t).func \in Uses[t] /\ Current(t).func \in Kernels
         /\ Current(t).ticket \in Tickets /\ Current(t).queue \in Queues
         /\ Front(open[t]) \in Seq(Intent) /\ Len(Front(open[t])) = Len(open[t]) - 1
         /\ \A i \in 1..(Len(open[t]) - 1) : Front(open[t])[i] = open[t][i]
<1>1. open[t] \in Seq(Intent) BY DEF Typed
<1>2. /\ Len(open[t]) \in Nat /\ Len(open[t]) > 0
      /\ Current(t) = open[t][Len(open[t])] /\ Current(t) \in Intent
      /\ Front(open[t]) \in Seq(Intent) /\ Len(Front(open[t])) = Len(open[t]) - 1
      /\ \A i \in 1..(Len(open[t]) - 1) : Front(open[t])[i] = open[t][i]
  BY <1>1, FrontOf DEF Current
<1>3. Current(t).func \in Uses[t] BY <1>2 DEF ThreadOK
<1>. QED BY <1>2, <1>3 DEF Intent

LEMMA OtherKernel ==
  ASSUME Typed, OneUser, NEW s \in Threads, NEW t \in Threads, s # t,
         ThreadOK(s), ThreadOK(t), open[s] # <<>>, open[t] # <<>>
  PROVE  Current(s).func # Current(t).func
<1>1. Current(s).func \in Uses[s] /\ Current(t).func \in Uses[t] BY CurrentOf
<1>. QED BY <1>1 DEF OneUser

LEMMA OtherTicket ==
  ASSUME Typed, Unique, NEW s \in Threads, NEW t \in Threads, s # t,
         ThreadOK(s), ThreadOK(t), open[s] # <<>>, open[t] # <<>>
  PROVE  Current(s).ticket # Current(t).ticket
<1>1. /\ Current(s) = open[s][Len(open[s])] /\ Len(open[s]) \in 1..Len(open[s])
      /\ Current(t) = open[t][Len(open[t])] /\ Len(open[t]) \in 1..Len(open[t])
  BY CurrentOf
<1>. QED BY <1>1 DEF Unique

(* The step is another thread's. *)
Untouched(s) ==
  /\ open'[s] = open[s] /\ pc'[s] = pc[s] /\ item'[s] = item[s]
  /\ pc[s] \in {"args", "append"} =>
       /\ kernel'[Current(s).func].group = kernel[Current(s).func].group
              \/ s \in refused
       /\ s \in refused => s \in refused'
  /\ pc[s] = "append" =>
       kernel'[Current(s).func].args = kernel[Current(s).func].args

LEMMA OtherThread ==
  ASSUME NEW s \in Threads, ThreadOK(s), Untouched(s)
  PROVE  ThreadOK(s)' /\ Waiting(s)' = Waiting(s)
<1>1. Current(s)' = Current(s) BY DEF Untouched, Current
<1>2. PICK c : c = Current(s) OBVIOUS
<1>3. ThreadOK(s)'
  <2>1. (pc[s] # "idle" => open[s] # <<>>)' BY DEF ThreadOK, Untouched
  <2>2. (\A i \in 1..Len(open[s]) :
           /\ open[s][i].func \in Uses[s]
           /\ open[s][i].api = "direct" => i = Len(open[s]) /\ pc[s] \notin {"idle", "pop"})'
    BY DEF ThreadOK, Untouched
  <2>3. pc'[s] # "idle" => Configured(item'[s], c)
    BY <1>2 DEF ThreadOK, Untouched
  <2>4. pc'[s] \notin {"idle", "pop"} => item'[s].args = {c.ticket}
    BY <1>2 DEF ThreadOK, Untouched
  <2>5. pc'[s] \in {"args", "append"} => s \in refused' \/ kernel'[c.func].group = c.ticket
    BY <1>2 DEF ThreadOK, Untouched
  <2>6. pc'[s] = "append" => kernel'[c.func].args = {c.ticket}
    BY <1>2 DEF ThreadOK, Untouched
  <2>7. (pc[s] # "idle" => Configured(item[s], Current(s)))'
    BY <1>1, <1>2, <2>3 DEF Configured
  <2>. QED BY <1>1, <1>2, <2>1, <2>2, <2>4, <2>5, <2>6, <2>7 DEF ThreadOK
<1>4. Waiting(s)' = Waiting(s) BY DEF Waiting, Untouched
<1>. QED BY <1>3, <1>4

LEMMA StackKept ==
  ASSUME StackOK, UNCHANGED chip_execstack, \A s \in Threads : Waiting(s)' = Waiting(s)
  PROVE  StackOK'
BY DEF StackOK

LEMMA UniqueKept ==
  ASSUME Typed, Unique, open' \in [Threads -> Seq(Intent)],
         \A s \in Threads : Len(open'[s]) <= Len(open[s]),
         \A s \in Threads : \A i \in 1..Len(open'[s]) : open'[s][i].ticket = open[s][i].ticket
  PROVE  Unique'
<1>1. \A s \in Threads : Len(open'[s]) \in Nat /\ Len(open[s]) \in Nat BY DEF Typed
<1>2. \A s \in Threads : \A i \in 1..Len(open'[s]) : i \in 1..Len(open[s]) BY <1>1
<1>. QED BY <1>2 DEF Unique

(* What the stack is when one thread alone waits, said without the others. *)
StackOf(stack, waiting) ==
  /\ Len(stack) = Len(waiting)
  /\ \A i \in 1..Len(stack) : Pushed(stack[i], waiting[i])

LEMMA WaitingType ==
  ASSUME Typed, NEW t \in Threads, ThreadOK(t)
  PROVE  Waiting(t) \in Seq(Intent)
<1>1. open[t] \in Seq(Intent) BY DEF Typed
<1>2. CASE pc[t] \in {"idle", "pop"} BY <1>1, <1>2 DEF Waiting
<1>3. CASE pc[t] \notin {"idle", "pop"}
  BY <1>1, <1>3, FrontOf DEF Waiting, ThreadOK
<1>. QED BY <1>2, <1>3

LEMMA StackFrom ==
  ASSUME Typed, StackOK, NEW t \in Threads, ThreadOK(t),
         \A s \in Threads \ {t} : Waiting(s) = <<>>
  PROVE  StackOf(chip_execstack, Waiting(t))
<1>1. CASE Waiting(t) = <<>>
  <2>1. chip_execstack = <<>> BY <1>1 DEF StackOK
  <2>. QED BY <1>1, <2>1 DEF StackOf
<1>2. CASE Waiting(t) # <<>> BY <1>2 DEF StackOK, StackOf
<1>. QED BY <1>1, <1>2

LEMMA StackTo ==
  ASSUME NEW t \in Threads, Waiting(t)' \in Seq(Intent), chip_execstack' \in Seq(ExecItem),
         \A s \in Threads \ {t} : Waiting(s)' = <<>>,
         StackOf(chip_execstack', Waiting(t)')
  PROVE  StackOK'
<1>1. PICK w : w = Waiting(t)' OBVIOUS
<1>2. w = <<>> => chip_execstack' = <<>>
  <2>1. SUFFICES ASSUME w = <<>>, chip_execstack' # <<>> PROVE FALSE OBVIOUS
  <2>2. Len(chip_execstack') = 0 BY <1>1, <2>1 DEF StackOf
  <2>. QED BY <2>1, <2>2, EmptySeq
<1>3. (\A s, u \in Threads : s # u => Waiting(s) = <<>> \/ Waiting(u) = <<>>)' OBVIOUS
<1>4. \A u \in Threads : Waiting(u)' # <<>> => u = t OBVIOUS
<1>5. (\A u \in Threads : Waiting(u) # <<>> =>
        /\ Len(chip_execstack) = Len(Waiting(u))
        /\ \A i \in 1..Len(chip_execstack) : Pushed(chip_execstack[i], Waiting(u)[i]))'
  BY <1>4 DEF StackOf, Pushed
<1>. QED BY <1>1, <1>2, <1>3, <1>5 DEF StackOK

-----------------------------------------------------------------------------
(* Each step, with the threads that do not take it left as they are.       *)

Others(t) == \A s \in Threads \ {t} : Untouched(s)

LEMMA OthersOK ==
  ASSUME IInv, NEW t \in Threads, Others(t)
  PROVE  \A s \in Threads \ {t} : ThreadOK(s)' /\ Waiting(s)' = Waiting(s)
BY OtherThread DEF Others, IInv

LEMMA InUseTickets ==
  ASSUME Typed, NEW c, c \notin InUse
  PROVE  \A s \in Threads : \A i \in 1..Len(open[s]) : open[s][i].ticket # c
<1>. TAKE s \in Threads
<1>1. open[s] \in Seq(Intent) BY DEF Typed
<1>2. DOMAIN open[s] = 1..Len(open[s]) BY <1>1
<1>3. TicketsOf(open[s]) \subseteq InUse BY DEF InUse
<1>. QED BY <1>2, <1>3 DEF TicketsOf

(* A new launch has a ticket of its own. *)
LEMMA Means ==
  ASSUME IInv, LaunchAssumption, NEW t \in Threads, NEW q \in Queues, NEW f \in Kernels,
         NEW api \in {"old", "new", "direct"}, MeanToLaunch(t, q, f, api)
  PROVE  \E l \in Intent :
           /\ open' = [open EXCEPT ![t] = Append(@, l)]
           /\ Last(open'[t]) = l
           /\ l.queue = q /\ l.func = f /\ l.api = api /\ ~ l.arguments
           /\ l.func \in Uses[t]
           /\ open'[t] \in Seq(Intent) /\ open'[t] # <<>>
           /\ Len(open'[t]) = Len(open[t]) + 1
           /\ open'[t][Len(open[t]) + 1] = l
           /\ Front(open'[t]) = open[t]
           /\ \A i \in 1..Len(open[t]) : open'[t][i] = open[t][i]
           /\ \A s \in Threads : \A i \in 1..Len(open[s]) :
                open[s][i].ticket # l.ticket
<1>1. PICK c : c = CHOOSE d \in Tickets \ InUse : TRUE OBVIOUS
<1>2. c \in Tickets /\ c \notin InUse BY <1>1 DEF MeanToLaunch
<1>3. PICK l : l = [ticket |-> c, queue |-> q, func |-> f, api |-> api,
                    arguments |-> FALSE] OBVIOUS
<1>4. /\ l \in Intent /\ l.ticket = c /\ l.queue = q /\ l.func = f
      /\ l.api = api /\ ~ l.arguments
  BY <1>2, <1>3 DEF Intent
<1>5. open' = [open EXCEPT ![t] = Append(@, l)] BY <1>1, <1>3 DEF MeanToLaunch
<1>6. open[t] \in Seq(Intent) /\ open \in [Threads -> Seq(Intent)] BY DEF IInv, Typed
<1>7. open'[t] = Append(open[t], l) BY <1>5, <1>6
<1>8. f \in Uses[t] BY DEF MeanToLaunch
<1>9. \A s \in Threads : \A i \in 1..Len(open[s]) : open[s][i].ticket # l.ticket
  BY <1>2, <1>4, InUseTickets DEF IInv
<1>10. /\ Last(open'[t]) = l /\ open'[t] \in Seq(Intent) /\ open'[t] # <<>>
       /\ Len(open'[t]) = Len(open[t]) + 1 /\ open'[t][Len(open[t]) + 1] = l
       /\ Front(open'[t]) = open[t]
       /\ \A i \in 1..Len(open[t]) : open'[t][i] = open[t][i]
  BY <1>4, <1>6, <1>7, AppendOf
<1>. QED BY <1>4, <1>5, <1>8, <1>9, <1>10

LEMMA UniqueGrown ==
  ASSUME Typed, Unique, NEW t \in Threads, NEW l \in Intent,
         open' = [open EXCEPT ![t] = Append(@, l)],
         \A s \in Threads : \A i \in 1..Len(open[s]) : open[s][i].ticket # l.ticket
  PROVE  Unique' /\ open' \in [Threads -> Seq(Intent)]
<1>1. open \in [Threads -> Seq(Intent)] /\ open[t] \in Seq(Intent) BY DEF Typed
<1>2. open'[t] = Append(open[t], l) /\ \A s \in Threads \ {t} : open'[s] = open[s]
  BY <1>1
<1>3. /\ open'[t] \in Seq(Intent) /\ Len(open'[t]) = Len(open[t]) + 1
      /\ open'[t][Len(open[t]) + 1] = l
      /\ \A i \in 1..Len(open[t]) : open'[t][i] = open[t][i]
  BY <1>1, <1>2, AppendOf
<1>4. open' \in [Threads -> Seq(Intent)] BY <1>1, <1>3
<1>5. PICK n \in Nat : n = Len(open[t]) BY <1>1
<1>6. ASSUME NEW s \in Threads, NEW u \in Threads, NEW i \in 1..Len(open'[s]),
             NEW j \in 1..Len(open'[u]), open'[s][i].ticket = open'[u][j].ticket
      PROVE  s = u /\ i = j
  <2>1. /\ s # t => i \in 1..Len(open[s]) /\ open'[s][i] = open[s][i]
        /\ u # t => j \in 1..Len(open[u]) /\ open'[u][j] = open[u][j]
    BY <1>2
  <2>2. s = t => i \in 1..(n + 1) /\ (i # n + 1 => i \in 1..n /\ open'[s][i] = open[s][i])
    BY <1>3, <1>5
  <2>3. u = t => j \in 1..(n + 1) /\ (j # n + 1 => j \in 1..n /\ open'[u][j] = open[u][j])
    BY <1>3, <1>5
  <2>4. (s = t /\ i = n + 1 => open'[s][i] = l) /\ (u = t /\ j = n + 1 => open'[u][j] = l)
    BY <1>3, <1>5
  <2>5. CASE (s = t /\ i = n + 1) /\ (u = t /\ j = n + 1) BY <2>5
  <2>6. CASE (s = t /\ i = n + 1) /\ ~ (u = t /\ j = n + 1)
    <3>1. j \in 1..Len(open[u]) /\ open'[u][j] = open[u][j] BY <2>1, <2>3, <2>6, <1>5
    <3>. QED BY <3>1, <2>4, <2>6, <1>6
  <2>7. CASE ~ (s = t /\ i = n + 1) /\ (u = t /\ j = n + 1)
    <3>1. i \in 1..Len(open[s]) /\ open'[s][i] = open[s][i] BY <2>1, <2>2, <2>7, <1>5
    <3>. QED BY <3>1, <2>4, <2>7, <1>6
  <2>8. CASE ~ (s = t /\ i = n + 1) /\ ~ (u = t /\ j = n + 1)
    <3>1. i \in 1..Len(open[s]) /\ open'[s][i] = open[s][i] BY <2>1, <2>2, <2>8, <1>5
    <3>2. j \in 1..Len(open[u]) /\ open'[u][j] = open[u][j] BY <2>1, <2>3, <2>8, <1>5
    <3>. QED BY <3>1, <3>2, <1>6 DEF Unique
  <2>. QED BY <2>5, <2>6, <2>7, <2>8
<1>. QED BY <1>4, <1>6 DEF Unique

(* Nothing is launched by a step that appends nothing. *)
LEMMA NoLaunch ==
  ASSUME last' = <<>>
  PROVE  LastOK' /\ Len(last') <= 1 /\ \A i \in DOMAIN last' : last'[i] \in Launch
BY DEF LastOK, LaunchAsConfigured, LaunchOnStream

LEMMA ConfigureOK ==
  ASSUME IInv, Serial, NEW t \in Threads, NEW q \in Queues, NEW f \in Kernels,
         NEW api \in {"old", "new"}, ConfigureCall(t, q, f, api)
  PROVE  IInv'
<1>1. MeanToLaunch(t, q, f, api) /\ api \in {"old", "new", "direct"} BY DEF ConfigureCall
<1>2. PICK l \in Intent :
           /\ open' = [open EXCEPT ![t] = Append(@, l)]
           /\ Last(open'[t]) = l
           /\ l.queue = q /\ l.func = f /\ l.api = api /\ ~ l.arguments
           /\ l.func \in Uses[t]
           /\ open'[t] \in Seq(Intent) /\ open'[t] # <<>>
           /\ Len(open'[t]) = Len(open[t]) + 1
           /\ open'[t][Len(open[t]) + 1] = l
           /\ Front(open'[t]) = open[t]
           /\ \A i \in 1..Len(open[t]) : open'[t][i] = open[t][i]
           /\ \A s \in Threads : \A i \in 1..Len(open[s]) :
                open[s][i].ticket # l.ticket
  BY <1>1, Means, LaunchAssumption
<1>3. Typed /\ Unique /\ StackOK /\ \A s \in Threads : ThreadOK(s) BY DEF IInv
<1>4. pc[t] = "idle" /\ \A s \in Threads \ {t} : Waiting(s) = <<>>
  BY <1>1 DEF MeanToLaunch, ConfigureCall
<1>5. Others(t)
  BY <1>2, <1>3 DEF ConfigureCall, Others, Untouched, Typed
<1>6. \A s \in Threads \ {t} : ThreadOK(s)' /\ Waiting(s)' = Waiting(s) BY <1>5, OthersOK
<1>7. Waiting(t) = open[t] /\ Waiting(t)' = open'[t]
  BY <1>4 DEF Waiting, ConfigureCall
<1>8. PICK it : it = [ticket |-> l.ticket, queue |-> q, args |-> {}] OBVIOUS
<1>9. it \in ExecItem /\ chip_execstack' = Append(chip_execstack, it) /\ Pushed(it, l)
  BY <1>2, <1>8 DEF ConfigureCall, ExecItem, Intent, Pushed
<1>10. chip_execstack \in Seq(ExecItem) BY <1>3 DEF Typed, TypeOK
<1>11. /\ chip_execstack' \in Seq(ExecItem)
       /\ Len(chip_execstack') = Len(chip_execstack) + 1
       /\ \A i \in 1..Len(chip_execstack) : chip_execstack'[i] = chip_execstack[i]
       /\ chip_execstack'[Len(chip_execstack) + 1] = it
  BY <1>9, <1>10, AppendOf
<1>12. Unique' /\ open' \in [Threads -> Seq(Intent)] BY <1>2, <1>3, UniqueGrown
<1>13. Typed'
  BY <1>3, <1>11, <1>12, NoLaunch DEF ConfigureCall, Typed, TypeOK
<1>14. StackOK'
  <2>1. StackOf(chip_execstack, open[t]) BY <1>3, <1>4, <1>7, StackFrom
  <2>2. StackOf(chip_execstack', open'[t])
    <3>1. PICK n \in Nat : n = Len(chip_execstack) BY <1>10
    <3>2. n = Len(open[t]) BY <2>1, <3>1 DEF StackOf
    <3>3. Len(chip_execstack') = n + 1 /\ Len(open'[t]) = n + 1 BY <1>2, <1>11, <3>1, <3>2
    <3>4. ASSUME NEW i \in 1..(n + 1) PROVE Pushed(chip_execstack'[i], open'[t][i])
      <4>1. CASE i = n + 1 BY <1>2, <1>9, <1>11, <3>1, <3>2, <4>1
      <4>2. CASE i \in 1..n
        <5>1. chip_execstack'[i] = chip_execstack[i] /\ open'[t][i] = open[t][i]
          BY <1>2, <1>11, <3>1, <3>2, <4>2
        <5>. QED BY <2>1, <3>1, <4>2, <5>1 DEF StackOf
      <4>. QED BY <4>1, <4>2
    <3>. QED BY <3>3, <3>4 DEF StackOf
  <2>. QED BY <1>2, <1>4, <1>6, <1>7, <1>11, <2>2, StackTo
<1>15. ThreadOK(t)'
  <2>1. ASSUME NEW i \in 1..Len(open'[t])
        PROVE  open'[t][i].func \in Uses[t] /\ open'[t][i].api # "direct"
    <3>1. PICK n \in Nat : n = Len(open[t]) BY <1>3 DEF Typed
    <3>2. CASE i = n + 1 BY <1>2, <3>1, <3>2
    <3>3. CASE i \in 1..n
      <4>1. open'[t][i] = open[t][i] BY <1>2, <3>1, <3>3
      <4>. QED BY <1>3, <1>4, <3>1, <3>3, <4>1 DEF ThreadOK
    <3>. QED BY <1>2, <3>1, <3>2, <3>3
  <2>2. pc'[t] = "idle" BY <1>4 DEF ConfigureCall
  <2>. QED BY <2>1, <2>2 DEF ThreadOK
<1>16. LastOK' BY NoLaunch DEF ConfigureCall
<1>. QED BY <1>6, <1>12, <1>13, <1>14, <1>15, <1>16 DEF IInv

LEMMA LaunchKernelOK ==
  ASSUME IInv, NEW t \in Threads, NEW q \in Queues, NEW f \in Kernels,
         LaunchKernel(t, q, f)
  PROVE  IInv'
<1>1. MeanToLaunch(t, q, f, "direct") BY DEF LaunchKernel
<1>2. PICK l \in Intent :
           /\ open' = [open EXCEPT ![t] = Append(@, l)]
           /\ Last(open'[t]) = l
           /\ l.queue = q /\ l.func = f /\ l.api = "direct" /\ ~ l.arguments
           /\ l.func \in Uses[t]
           /\ open'[t] \in Seq(Intent) /\ open'[t] # <<>>
           /\ Len(open'[t]) = Len(open[t]) + 1
           /\ open'[t][Len(open[t]) + 1] = l
           /\ Front(open'[t]) = open[t]
           /\ \A i \in 1..Len(open[t]) : open'[t][i] = open[t][i]
           /\ \A s \in Threads : \A i \in 1..Len(open[s]) :
                open[s][i].ticket # l.ticket
  BY <1>1, Means, LaunchAssumption
<1>3. Typed /\ Unique /\ StackOK /\ \A s \in Threads : ThreadOK(s) BY DEF IInv
<1>4. pc[t] = "idle" /\ pc' = [pc EXCEPT ![t] = "find"] BY DEF LaunchKernel, Step
<1>5. item' = [item EXCEPT ![t] = HostFuncItem(l.ticket, l.ticket)]
  BY <1>2 DEF LaunchKernel
<1>6. Others(t)
  BY <1>2, <1>3, <1>4, <1>5 DEF LaunchKernel, Others, Untouched, Typed
<1>7. \A s \in Threads \ {t} : ThreadOK(s)' /\ Waiting(s)' = Waiting(s) BY <1>6, OthersOK
<1>8. pc'[t] = "find" /\ item'[t] = HostFuncItem(l.ticket, l.ticket)
  BY <1>3, <1>4, <1>5 DEF Typed
<1>9. Waiting(t)' = Waiting(t) BY <1>2, <1>4, <1>8 DEF Waiting
<1>10. StackOK' BY <1>3, <1>7, <1>9, StackKept DEF LaunchKernel
<1>11. Unique' /\ open' \in [Threads -> Seq(Intent)] BY <1>2, <1>3, UniqueGrown
<1>12. HostFuncItem(l.ticket, l.ticket) \in ExecItem
  BY LaunchAssumption DEF HostFuncItem, ExecItem, Intent
<1>13. pc' \in [Threads -> PC] /\ item' \in [Threads -> ExecItem \cup {NoItem}]
  BY <1>3, <1>4, <1>5, <1>12 DEF Typed, PC
<1>14. Typed'
  BY <1>3, <1>11, <1>13, NoLaunch DEF LaunchKernel, Typed, TypeOK, PC
<1>15. ThreadOK(t)'
  <2>1. ASSUME NEW i \in 1..Len(open'[t])
        PROVE  open'[t][i].func \in Uses[t]
               /\ (open'[t][i].api = "direct" => i = Len(open'[t]))
    <3>1. PICK n \in Nat : n = Len(open[t]) BY <1>3 DEF Typed
    <3>2. CASE i = n + 1 BY <1>2, <3>1, <3>2
    <3>3. CASE i \in 1..n
      <4>1. open'[t][i] = open[t][i] BY <1>2, <3>1, <3>3
      <4>. QED BY <1>3, <1>4, <3>1, <3>3, <4>1 DEF ThreadOK
    <3>. QED BY <1>2, <3>1, <3>2, <3>3
  <2>2. Current(t)' = l BY <1>2 DEF Current
  <2>3. Configured(item'[t], l) /\ item'[t].args = {l.ticket}
    BY <1>2, <1>8 DEF Configured, HostFuncItem
  <2>4. (Configured(item[t], Current(t)))' BY <2>2, <2>3 DEF Configured
  <2>. QED BY <1>2, <1>8, <2>1, <2>2, <2>3, <2>4 DEF ThreadOK
<1>16. LastOK' BY NoLaunch DEF LaunchKernel
<1>. QED BY <1>7, <1>10, <1>11, <1>14, <1>15, <1>16 DEF IInv

LEMMA SetupArgumentOK ==
  ASSUME IInv, NEW t \in Threads, SetupArgument(t)
  PROVE  IInv'
<1>1. Typed /\ Unique /\ StackOK /\ \A s \in Threads : ThreadOK(s) BY DEF IInv
<1>2. /\ pc[t] = "idle" /\ open[t] # <<>> /\ chip_execstack # <<>>
      /\ Current(t).api = "old" /\ ~ Current(t).arguments
      /\ UNCHANGED <<pc, item, kernel, refused>> /\ last' = <<>>
  BY DEF SetupArgument
<1>3. PICK n \in Nat : n = Len(open[t]) BY <1>1 DEF Typed
<1>4. PICK l : l = Current(t) OBVIOUS
<1>5. n > 0 /\ l = open[t][n] /\ l \in Intent BY <1>1, <1>2, <1>3, <1>4, CurrentOf
<1>6. PICK m : m = [l EXCEPT !.arguments = TRUE] OBVIOUS
<1>7. /\ m \in Intent /\ m.ticket = l.ticket /\ m.func = l.func /\ m.api = l.api
      /\ m.queue = l.queue /\ m.arguments
  BY <1>5, <1>6 DEF Intent
<1>8. open[t] \in Seq(Intent) /\ open \in [Threads -> Seq(Intent)] BY <1>1 DEF Typed
<1>9. open' = [open EXCEPT ![t] = [open[t] EXCEPT ![n] = m]]
  BY <1>3, <1>4, <1>5, <1>6 DEF SetupArgument
<1>10. open'[t] = [open[t] EXCEPT ![n] = m] /\ \A s \in Threads \ {t} : open'[s] = open[s]
  BY <1>8, <1>9
<1>11. /\ open'[t] \in Seq(Intent) /\ Len(open'[t]) = n /\ open'[t][n] = m
       /\ \A i \in 1..(n - 1) : open'[t][i] = open[t][i]
  <2>1. [open[t] EXCEPT ![n] = m] \in Seq(Intent) /\ Len([open[t] EXCEPT ![n] = m]) = n
        /\ \A i \in 1..n : [open[t] EXCEPT ![n] = m][i] = IF i = n THEN m ELSE open[t][i]
    BY <1>3, <1>5, <1>7, <1>8, ExceptSeq
  <2>. QED BY <1>5, <1>10, <2>1
<1>12. open' \in [Threads -> Seq(Intent)] BY <1>8, <1>9, <1>10, <1>11
<1>13. Others(t) BY <1>2, <1>10 DEF Others, Untouched
<1>14. \A s \in Threads \ {t} : ThreadOK(s)' /\ Waiting(s)' = Waiting(s) BY <1>13, OthersOK
<1>15. Waiting(t) = open[t] /\ Waiting(t)' = open'[t] BY <1>2 DEF Waiting
<1>16. \A s \in Threads \ {t} : Waiting(s) = <<>> BY <1>1, <1>2, <1>15 DEF StackOK
<1>17. StackOf(chip_execstack, open[t]) BY <1>1, <1>15, <1>16, StackFrom
<1>18. PICK stack : stack = chip_execstack OBVIOUS
<1>19. stack \in Seq(ExecItem) /\ Len(stack) = n
  BY <1>1, <1>3, <1>17, <1>18 DEF Typed, TypeOK, StackOf
<1>20. PICK it : it = [stack[n] EXCEPT !.args = @ \cup {l.ticket}] OBVIOUS
<1>21. stack[n] \in ExecItem /\ Pushed(stack[n], l)
  BY <1>3, <1>5, <1>17, <1>18, <1>19, ElementOfSeq DEF StackOf
<1>22. it \in ExecItem /\ Pushed(it, m)
  BY <1>2, <1>4, <1>5, <1>7, <1>20, <1>21 DEF ExecItem, Pushed, Intent
<1>23. chip_execstack' = [stack EXCEPT ![n] = it]
  BY <1>4, <1>18, <1>19, <1>20 DEF SetupArgument
<1>24. /\ chip_execstack' \in Seq(ExecItem) /\ Len(chip_execstack') = n
       /\ \A i \in 1..n : chip_execstack'[i] = IF i = n THEN it ELSE stack[i]
  BY <1>5, <1>19, <1>22, <1>23, ExceptSeq
<1>25. StackOK'
  <2>1. ASSUME NEW i \in 1..n PROVE Pushed(chip_execstack'[i], open'[t][i])
    <3>1. CASE i = n BY <1>11, <1>22, <1>24, <3>1
    <3>2. CASE i \in 1..(n - 1)
      <4>1. chip_execstack'[i] = stack[i] /\ open'[t][i] = open[t][i]
        BY <1>11, <1>24, <3>2
      <4>. QED BY <1>17, <1>18, <1>19, <4>1 DEF StackOf
    <3>. QED BY <3>1, <3>2
  <2>2. StackOf(chip_execstack', open'[t]) BY <1>11, <1>24, <2>1 DEF StackOf
  <2>. QED BY <1>11, <1>14, <1>15, <1>16, <1>24, <2>2, StackTo
<1>26. Unique'
  <2>1. ASSUME NEW s \in Threads PROVE Len(open'[s]) <= Len(open[s])
    <3>1. Len(open[s]) \in Nat BY <1>8
    <3>2. Len(open'[s]) = Len(open[s]) BY <1>3, <1>10, <1>11
    <3>. QED BY <3>1, <3>2
  <2>2. \A i \in 1..n : open'[t][i].ticket = open[t][i].ticket
    BY <1>5, <1>7, <1>11
  <2>3. \A s \in Threads : \A i \in 1..Len(open'[s]) : open'[s][i].ticket = open[s][i].ticket
    BY <1>10, <1>11, <2>2
  <2>. QED BY <1>1, <1>12, <2>1, <2>3, UniqueKept
<1>27. Typed' BY <1>1, <1>2, <1>12, <1>24, NoLaunch DEF Typed, TypeOK
<1>28. ThreadOK(t)'
  <2>1. ASSUME NEW i \in 1..n
        PROVE  open'[t][i].func \in Uses[t] /\ open'[t][i].api # "direct"
    <3>1. open'[t][i].func = open[t][i].func /\ open'[t][i].api = open[t][i].api
      BY <1>5, <1>7, <1>11
    <3>. QED BY <1>1, <1>2, <1>3, <3>1 DEF ThreadOK
  <2>. QED BY <1>2, <1>11, <2>1 DEF ThreadOK
<1>29. LastOK' BY <1>2, NoLaunch
<1>. QED BY <1>14, <1>25, <1>26, <1>27, <1>28, <1>29 DEF IInv

LEMMA TopOK ==
  ASSUME IInv, NEW t \in Threads, Top(t)
  PROVE  IInv'
<1>1. Typed /\ Unique /\ StackOK /\ \A s \in Threads : ThreadOK(s) BY DEF IInv
<1>2. /\ pc[t] = "idle" /\ pc' = [pc EXCEPT ![t] = "pop"]
      /\ open[t] # <<>> /\ chip_execstack # <<>>
      /\ Current(t).api = "old" => Current(t).arguments
      /\ item' = [item EXCEPT ![t] = Last(chip_execstack)]
      /\ UNCHANGED <<chip_execstack, open, kernel, refused>> /\ last' = <<>>
  BY DEF Top, Step
<1>3. PICK n \in Nat : n = Len(open[t]) BY <1>1 DEF Typed
<1>4. PICK l : l = Current(t) OBVIOUS
<1>5. n > 0 /\ l = open[t][n] /\ l \in Intent BY <1>1, <1>2, <1>3, <1>4, CurrentOf
<1>6. Waiting(t) = open[t] BY <1>2 DEF Waiting
<1>7. \A s \in Threads \ {t} : Waiting(s) = <<>> BY <1>1, <1>2, <1>6 DEF StackOK
<1>8. StackOf(chip_execstack, open[t]) BY <1>1, <1>6, <1>7, StackFrom
<1>9. PICK it : it = Last(chip_execstack) OBVIOUS
<1>10. it \in ExecItem /\ Pushed(it, l)
  <2>1. chip_execstack \in Seq(ExecItem) /\ Len(chip_execstack) = n
    BY <1>1, <1>3, <1>8 DEF Typed, TypeOK, StackOf
  <2>2. it = chip_execstack[n] BY <1>9, <2>1 DEF Last
  <2>. QED BY <1>5, <1>8, <2>1, <2>2, ElementOfSeq DEF StackOf
<1>11. item'[t] = it /\ pc'[t] = "pop" BY <1>1, <1>2, <1>9 DEF Typed
<1>12. Others(t) BY <1>1, <1>2 DEF Others, Untouched, Typed
<1>13. \A s \in Threads \ {t} : ThreadOK(s)' /\ Waiting(s)' = Waiting(s) BY <1>12, OthersOK
<1>14. Waiting(t)' = Waiting(t) BY <1>2, <1>11 DEF Waiting
<1>15. StackOK' BY <1>1, <1>2, <1>13, <1>14, StackKept
<1>16. Unique' BY <1>1, <1>2 DEF Unique
<1>17. pc' \in [Threads -> PC] /\ item' \in [Threads -> ExecItem \cup {NoItem}]
  BY <1>1, <1>2, <1>9, <1>10 DEF Typed, PC
<1>18. Typed' BY <1>1, <1>2, <1>17, NoLaunch DEF Typed, TypeOK, PC
<1>19. ThreadOK(t)'
  <2>1. \A i \in 1..n : open[t][i].func \in Uses[t] /\ open[t][i].api # "direct"
    BY <1>1, <1>2, <1>3 DEF ThreadOK
  <2>2. Configured(it, l)
    BY <1>2, <1>4, <1>10 DEF Pushed, Configured
  <2>3. (Configured(item[t], Current(t)))'
    BY <1>2, <1>4, <1>11, <2>2 DEF Configured, Current
  <2>. QED BY <1>2, <1>3, <1>11, <2>1, <2>3 DEF ThreadOK
<1>20. LastOK' BY <1>2, NoLaunch
<1>. QED BY <1>13, <1>15, <1>16, <1>18, <1>19, <1>20 DEF IInv

LEMMA PopOK ==
  ASSUME IInv, NEW t \in Threads, Pop(t)
  PROVE  IInv'
<1>1. Typed /\ Unique /\ StackOK /\ \A s \in Threads : ThreadOK(s) BY DEF IInv
<1>2. PICK l : l = Current(t) OBVIOUS
<1>3. PICK it : it = IF l.api = "new" THEN HostFuncItem(item[t].ticket, l.ticket) ELSE item[t]
  OBVIOUS
<1>4. /\ pc[t] = "pop" /\ pc' = [pc EXCEPT ![t] = "find"]
      /\ chip_execstack # <<>> /\ chip_execstack' = Front(chip_execstack)
      /\ item' = [item EXCEPT ![t] = it]
      /\ UNCHANGED <<open, kernel, refused>> /\ last' = <<>>
  BY <1>2, <1>3 DEF Pop, Step
<1>5. open[t] # <<>> /\ Configured(item[t], l) BY <1>1, <1>2, <1>4 DEF ThreadOK
<1>6. PICK n \in Nat : n = Len(open[t]) BY <1>1 DEF Typed
<1>7. /\ n > 0 /\ l = open[t][n] /\ l \in Intent /\ l.ticket \in Tickets
      /\ Front(open[t]) \in Seq(Intent) /\ Len(Front(open[t])) = n - 1
      /\ \A i \in 1..(n - 1) : Front(open[t])[i] = open[t][i]
  BY <1>1, <1>2, <1>5, <1>6, CurrentOf
<1>8. l.api \in {"old", "new"}
  <2>1. n \in 1..Len(open[t]) BY <1>6, <1>7
  <2>2. open[t][n].api # "direct" BY <1>1, <1>4, <2>1 DEF ThreadOK
  <2>. QED BY <1>7, <2>2 DEF Intent
<1>9. it \in ExecItem /\ it.ticket = l.ticket /\ it.args = {l.ticket}
      /\ (l.api = "old" => it.queue = l.queue)
  <2>1. item[t].ticket = l.ticket BY <1>5 DEF Configured
  <2>2. CASE l.api = "new"
    BY <1>3, <1>7, <2>1, <2>2, LaunchAssumption DEF HostFuncItem, ExecItem
  <2>3. CASE l.api = "old"
    <3>1. it = item[t] BY <1>3, <2>3
    <3>2. it.ticket # NoTicket BY <1>7, <2>1, <3>1, LaunchAssumption
    <3>3. it # NoItem BY <3>2 DEF NoItem
    <3>. QED BY <1>1, <1>5, <2>1, <2>3, <3>1, <3>3 DEF Configured, Typed
  <2>. QED BY <1>8, <2>2, <2>3
<1>10. item'[t] = it /\ pc'[t] = "find" BY <1>1, <1>4 DEF Typed
<1>11. Waiting(t) = open[t] /\ Waiting(t)' = Front(open[t]) BY <1>4, <1>10 DEF Waiting
<1>12. \A s \in Threads \ {t} : Waiting(s) = <<>> BY <1>1, <1>5, <1>11 DEF StackOK
<1>13. StackOf(chip_execstack, open[t]) BY <1>1, <1>11, <1>12, StackFrom
<1>14. Others(t) BY <1>1, <1>4 DEF Others, Untouched, Typed
<1>15. \A s \in Threads \ {t} : ThreadOK(s)' /\ Waiting(s)' = Waiting(s) BY <1>14, OthersOK
<1>16. chip_execstack \in Seq(ExecItem) /\ Len(chip_execstack) = n
  BY <1>1, <1>6, <1>13 DEF Typed, TypeOK, StackOf
<1>17. /\ chip_execstack' \in Seq(ExecItem) /\ Len(chip_execstack') = n - 1
       /\ \A i \in 1..(n - 1) : chip_execstack'[i] = chip_execstack[i]
  BY <1>4, <1>16, FrontOf
<1>18. StackOK'
  <2>1. ASSUME NEW i \in 1..(n - 1)
        PROVE  Pushed(chip_execstack'[i], Front(open[t])[i])
    <3>1. chip_execstack'[i] = chip_execstack[i] /\ Front(open[t])[i] = open[t][i]
          /\ i \in 1..n
      BY <1>7, <1>17
    <3>. QED BY <1>13, <1>16, <3>1 DEF StackOf
  <2>2. StackOf(chip_execstack', Front(open[t])) BY <1>7, <1>17, <2>1 DEF StackOf
  <2>. QED BY <1>7, <1>11, <1>12, <1>15, <1>17, <2>2, StackTo
<1>19. Unique' BY <1>1, <1>4 DEF Unique
<1>20. pc' \in [Threads -> PC] /\ item' \in [Threads -> ExecItem \cup {NoItem}]
  BY <1>1, <1>4, <1>9 DEF Typed, PC
<1>21. Typed' BY <1>1, <1>4, <1>17, <1>20, NoLaunch DEF Typed, TypeOK, PC
<1>22. ThreadOK(t)'
  <2>1. \A i \in 1..n : open[t][i].func \in Uses[t] /\ open[t][i].api # "direct"
    BY <1>1, <1>4, <1>6 DEF ThreadOK
  <2>2. Current(t)' = l BY <1>2, <1>4 DEF Current
  <2>3. (Configured(item[t], Current(t)))' BY <1>9, <1>10, <2>2 DEF Configured
  <2>. QED BY <1>4, <1>5, <1>6, <1>9, <1>10, <2>1, <2>2, <2>3 DEF ThreadOK
<1>23. LastOK' BY <1>4, NoLaunch
<1>. QED BY <1>15, <1>18, <1>19, <1>21, <1>22, <1>23 DEF IInv

(* The launch ends, made or failed: the kernel objects are as they were    *)
(* for the others, and what the launch left on them is retired.            *)
LEMMA EndOK ==
  ASSUME IInv, NEW t \in Threads, pc[t] \notin {"idle", "pop"},
         pc' = [pc EXCEPT ![t] = "idle"],
         open' = [open EXCEPT ![t] = Front(@)],
         item' = [item EXCEPT ![t] = NoItem],
         UNCHANGED chip_execstack, refused' \subseteq refused,
         Others(t),
         kernel' \in [Kernels -> [group : Tickets \cup {NoTicket},
                                  args : SUBSET (Tickets \cup {NoTicket})]],
         Len(last') <= 1, \A i \in DOMAIN last' : last'[i] \in Launch,
         LastOK'
  PROVE  IInv'
<1>1. Typed /\ Unique /\ StackOK /\ \A s \in Threads : ThreadOK(s) BY DEF IInv
<1>2. open[t] # <<>> BY <1>1 DEF ThreadOK
<1>3. PICK n \in Nat : n = Len(open[t]) BY <1>1 DEF Typed
<1>4. /\ n > 0 /\ Front(open[t]) \in Seq(Intent) /\ Len(Front(open[t])) = n - 1
      /\ \A i \in 1..(n - 1) : Front(open[t])[i] = open[t][i]
  BY <1>1, <1>2, <1>3, CurrentOf
<1>5. open \in [Threads -> Seq(Intent)] BY <1>1 DEF Typed
<1>6. /\ open'[t] = Front(open[t]) /\ open' \in [Threads -> Seq(Intent)]
      /\ \A s \in Threads \ {t} : open'[s] = open[s]
  BY <1>4, <1>5
<1>7. pc'[t] = "idle" BY <1>1 DEF Typed
<1>8. \A s \in Threads \ {t} : ThreadOK(s)' /\ Waiting(s)' = Waiting(s) BY OthersOK
<1>9. Waiting(t)' = Waiting(t) BY <1>6, <1>7 DEF Waiting
<1>10. StackOK' BY <1>1, <1>8, <1>9, StackKept
<1>11. Unique'
  <2>1. ASSUME NEW s \in Threads PROVE Len(open'[s]) <= Len(open[s])
    <3>1. Len(open[s]) \in Nat BY <1>5
    <3>2. CASE s = t
      <4>1. Len(open'[s]) = n - 1 /\ Len(open[s]) = n BY <1>3, <1>4, <1>6, <3>2
      <4>. QED BY <4>1
    <3>3. CASE s # t BY <1>6, <3>1, <3>3
    <3>. QED BY <3>2, <3>3
  <2>2. \A s \in Threads : \A i \in 1..Len(open'[s]) : open'[s][i].ticket = open[s][i].ticket
    BY <1>4, <1>6
  <2>. QED BY <1>1, <1>6, <2>1, <2>2, UniqueKept
<1>12. pc' \in [Threads -> PC] /\ item' \in [Threads -> ExecItem \cup {NoItem}]
  BY <1>1 DEF Typed, PC
<1>13. Typed' BY <1>1, <1>6, <1>12 DEF Typed, TypeOK, PC
<1>14. ThreadOK(t)'
  <2>1. ASSUME NEW i \in 1..(n - 1)
        PROVE  open'[t][i].func \in Uses[t] /\ open'[t][i].api # "direct"
    <3>1. i \in 1..Len(open[t]) /\ i # Len(open[t]) BY <1>3, <1>4
    <3>2. open'[t][i] = open[t][i] BY <1>4, <1>6
    <3>. QED BY <1>1, <3>1, <3>2 DEF ThreadOK
  <2>2. Len(open'[t]) = n - 1 BY <1>4, <1>6
  <2>. QED BY <1>7, <2>1, <2>2 DEF ThreadOK
<1>. QED BY <1>8, <1>10, <1>11, <1>13, <1>14 DEF IInv

LEMMA FindKernelOK ==
  ASSUME IInv, NEW t \in Threads, FindKernel(t)
  PROVE  IInv'
<1>1. Typed /\ Unique /\ StackOK /\ \A s \in Threads : ThreadOK(s) BY DEF IInv
<1>2. LastOK' /\ Len(last') <= 1 /\ \A i \in DOMAIN last' : last'[i] \in Launch
  BY NoLaunch DEF FindKernel
<1>3. pc[t] = "find" /\ UNCHANGED <<chip_execstack, kernel, refused>> BY DEF FindKernel, Step
<1>4. Others(t) BY <1>1, <1>3 DEF FindKernel, Step, Others, Untouched, Typed
<1>5. CASE Current(t).func \in Registered
  <2>1. pc' = [pc EXCEPT ![t] = "group"] /\ UNCHANGED <<open, item>>
    BY <1>5 DEF FindKernel, Step
  <2>2. pc'[t] = "group" /\ pc' \in [Threads -> PC] BY <1>1, <2>1 DEF Typed, PC
  <2>3. \A s \in Threads \ {t} : ThreadOK(s)' /\ Waiting(s)' = Waiting(s) BY <1>4, OthersOK
  <2>4. Waiting(t)' = Waiting(t) BY <1>3, <2>1, <2>2 DEF Waiting
  <2>5. StackOK' BY <1>1, <1>3, <2>3, <2>4, StackKept
  <2>6. Unique' BY <1>1, <2>1 DEF Unique
  <2>7. Typed' BY <1>1, <1>2, <1>3, <2>1, <2>2 DEF Typed, TypeOK, PC
  <2>8. ThreadOK(t)'
    <3>1. Current(t)' = Current(t) BY <2>1 DEF Current
    <3>2. (Configured(item[t], Current(t)))'
      BY <1>1, <1>3, <2>1, <3>1 DEF ThreadOK, Configured
    <3>. QED BY <1>1, <1>3, <2>1, <2>2, <3>1, <3>2 DEF ThreadOK
  <2>. QED BY <1>2, <2>3, <2>5, <2>6, <2>7, <2>8 DEF IInv
<1>6. CASE Current(t).func \notin Registered
  <2>1. /\ pc' = [pc EXCEPT ![t] = "idle"] /\ open' = [open EXCEPT ![t] = Front(@)]
        /\ item' = [item EXCEPT ![t] = NoItem]
    BY <1>6 DEF FindKernel, Step
  <2>2. kernel' \in [Kernels -> [group : Tickets \cup {NoTicket},
                                 args : SUBSET (Tickets \cup {NoTicket})]]
    BY <1>1, <1>3 DEF Typed, TypeOK
  <2>. QED BY <1>2, <1>3, <1>4, <2>1, <2>2, EndOK
<1>. QED BY <1>5, <1>6

KernelType == [group : Tickets \cup {NoTicket}, args : SUBSET (Tickets \cup {NoTicket})]

(* A thread that is launching, and what it holds. *)
LEMMA Flying ==
  ASSUME IInv, NEW t \in Threads, pc[t] \in {"group", "args", "append"}
  PROVE  /\ open[t] # <<>> /\ Current(t) \in Intent
         /\ Current(t).func \in Kernels /\ Current(t).ticket \in Tickets
         /\ Current(t).queue \in Queues
         /\ item[t].ticket = Current(t).ticket /\ item[t].args = {Current(t).ticket}
         /\ item[t] \in ExecItem
         /\ (Current(t).api = "old" => item[t].queue = Current(t).queue)
         /\ kernel[Current(t).func] \in KernelType
<1>1. Typed /\ ThreadOK(t) BY DEF IInv
<1>2. open[t] # <<>> BY <1>1 DEF ThreadOK
<1>3. /\ Current(t) \in Intent /\ Current(t).func \in Kernels
      /\ Current(t).ticket \in Tickets /\ Current(t).queue \in Queues
  BY <1>1, <1>2, CurrentOf
<1>4. /\ item[t].ticket = Current(t).ticket /\ item[t].args = {Current(t).ticket}
      /\ (Current(t).api = "old" => item[t].queue = Current(t).queue)
  BY <1>1 DEF ThreadOK, Configured
<1>5. item[t] # NoItem BY <1>3, <1>4, LaunchAssumption DEF NoItem
<1>6. item[t] \in ExecItem BY <1>1, <1>5 DEF Typed
<1>7. kernel[Current(t).func] \in KernelType BY <1>1, <1>3 DEF Typed, TypeOK, KernelType
<1>. QED BY <1>2, <1>3, <1>4, <1>6, <1>7

(* Another launch under way has another kernel and another ticket. *)
LEMMA Apart ==
  ASSUME IInv, OneUser, NEW s \in Threads, NEW t \in Threads, s # t,
         pc[s] \in {"group", "args", "append"}, pc[t] \in {"group", "args", "append"}
  PROVE  /\ Current(s).func # Current(t).func /\ Current(s).ticket # Current(t).ticket
         /\ Current(s).func \in Kernels
BY Flying, OtherKernel, OtherTicket DEF IInv

LEMMA SetGroupOK ==
  ASSUME IInv, OneUser, NEW t \in Threads, SetGroup(t)
  PROVE  IInv'
<1>1. Typed /\ Unique /\ StackOK /\ \A s \in Threads : ThreadOK(s) BY DEF IInv
<1>2. PICK l : l = Current(t) OBVIOUS
<1>3. /\ pc[t] = "group" /\ pc' = [pc EXCEPT ![t] = "args"]
      /\ \/ kernel' = [kernel EXCEPT ![l.func].group = item[t].ticket] /\ UNCHANGED refused
         \/ refused' = refused \cup {t} /\ UNCHANGED kernel
      /\ UNCHANGED <<chip_execstack, open, item>> /\ last' = <<>>
  BY <1>2 DEF SetGroup, Step
<1>4. /\ l.func \in Kernels /\ l.ticket \in Tickets /\ item[t].ticket = l.ticket
      /\ kernel[l.func] \in KernelType
  BY <1>2, <1>3, Flying
<1>5. kernel \in [Kernels -> KernelType] BY <1>1 DEF Typed, TypeOK, KernelType
<1>6. /\ kernel' \in [Kernels -> KernelType]
      /\ t \in refused' \/ kernel'[l.func].group = l.ticket
      /\ refused \subseteq refused' /\ refused' \subseteq Threads
      /\ \A k \in Kernels \ {l.func} : kernel'[k] = kernel[k]
  <2>1. refused \subseteq Threads BY <1>1 DEF Typed, TypeOK
  <2>2. CASE kernel' = [kernel EXCEPT ![l.func].group = item[t].ticket] /\ UNCHANGED refused
    BY <1>4, <1>5, <2>1, <2>2 DEF KernelType
  <2>3. CASE refused' = refused \cup {t} /\ UNCHANGED kernel
    BY <1>5, <2>1, <2>3
  <2>. QED BY <1>3, <2>2, <2>3
<1>7. Others(t)
  <2>1. ASSUME NEW s \in Threads \ {t} PROVE Untouched(s)
    <3>1. pc[s] \in {"args", "append"} => kernel'[Current(s).func] = kernel[Current(s).func]
      BY <1>2, <1>3, <1>6, Apart
    <3>. QED BY <1>1, <1>3, <1>6, <3>1 DEF Untouched, Typed
  <2>. QED BY <2>1 DEF Others
<1>8. \A s \in Threads \ {t} : ThreadOK(s)' /\ Waiting(s)' = Waiting(s) BY <1>7, OthersOK
<1>9. pc'[t] = "args" /\ pc' \in [Threads -> PC] BY <1>1, <1>3 DEF Typed, PC
<1>10. Waiting(t)' = Waiting(t) BY <1>3, <1>9 DEF Waiting
<1>11. StackOK' BY <1>1, <1>3, <1>8, <1>10, StackKept
<1>12. Unique' BY <1>1, <1>3 DEF Unique
<1>13. Typed' BY <1>1, <1>3, <1>6, <1>9, NoLaunch DEF Typed, TypeOK, PC, KernelType
<1>14. ThreadOK(t)'
  <2>1. Current(t)' = l BY <1>2, <1>3 DEF Current
  <2>2. Configured(item[t], l) /\ item[t].args = {l.ticket}
    BY <1>1, <1>2, <1>3 DEF ThreadOK
  <2>3. (Configured(item[t], Current(t)))' BY <1>3, <2>1, <2>2 DEF Configured
  <2>4. \A i \in 1..Len(open[t]) :
          /\ open[t][i].func \in Uses[t]
          /\ open[t][i].api = "direct" => i = Len(open[t])
    BY <1>1 DEF ThreadOK
  <2>5. open[t] # <<>> BY <1>1, <1>3 DEF ThreadOK
  <2>. QED BY <1>3, <1>6, <1>9, <2>1, <2>2, <2>3, <2>4, <2>5 DEF ThreadOK
<1>15. LastOK' BY <1>3, NoLaunch
<1>. QED BY <1>8, <1>11, <1>12, <1>13, <1>14, <1>15 DEF IInv

LEMMA SetupAllArgsOK ==
  ASSUME IInv, OneUser, NEW t \in Threads, SetupAllArgs(t)
  PROVE  IInv'
<1>1. Typed /\ Unique /\ StackOK /\ \A s \in Threads : ThreadOK(s) BY DEF IInv
<1>2. PICK l : l = Current(t) OBVIOUS
<1>3. /\ pc[t] = "args" /\ pc' = [pc EXCEPT ![t] = "append"]
      /\ kernel' = [kernel EXCEPT ![l.func].args = item[t].args]
      /\ UNCHANGED <<chip_execstack, open, item, refused>> /\ last' = <<>>
  BY <1>2 DEF SetupAllArgs, Step
<1>4. /\ l.func \in Kernels /\ l.ticket \in Tickets /\ item[t].args = {l.ticket}
      /\ kernel[l.func] \in KernelType
  BY <1>2, <1>3, Flying
<1>5. kernel \in [Kernels -> KernelType] BY <1>1 DEF Typed, TypeOK, KernelType
<1>6. /\ kernel' \in [Kernels -> KernelType] /\ kernel'[l.func].args = {l.ticket}
      /\ kernel'[l.func].group = kernel[l.func].group
      /\ \A k \in Kernels \ {l.func} : kernel'[k] = kernel[k]
  BY <1>3, <1>4, <1>5 DEF KernelType
<1>7. Others(t)
  <2>1. ASSUME NEW s \in Threads \ {t} PROVE Untouched(s)
    <3>1. pc[s] \in {"args", "append"} => kernel'[Current(s).func] = kernel[Current(s).func]
      BY <1>2, <1>3, <1>6, Apart
    <3>. QED BY <1>1, <1>3, <3>1 DEF Untouched, Typed
  <2>. QED BY <2>1 DEF Others
<1>8. \A s \in Threads \ {t} : ThreadOK(s)' /\ Waiting(s)' = Waiting(s) BY <1>7, OthersOK
<1>9. pc'[t] = "append" /\ pc' \in [Threads -> PC] BY <1>1, <1>3 DEF Typed, PC
<1>10. Waiting(t)' = Waiting(t) BY <1>3, <1>9 DEF Waiting
<1>11. StackOK' BY <1>1, <1>3, <1>8, <1>10, StackKept
<1>12. Unique' BY <1>1, <1>3 DEF Unique
<1>13. Typed' BY <1>1, <1>3, <1>6, <1>9, NoLaunch DEF Typed, TypeOK, PC, KernelType
<1>14. ThreadOK(t)'
  <2>1. Current(t)' = l BY <1>2, <1>3 DEF Current
  <2>2. /\ Configured(item[t], l) /\ item[t].args = {l.ticket}
        /\ t \in refused \/ kernel[l.func].group = l.ticket
    BY <1>1, <1>2, <1>3 DEF ThreadOK
  <2>3. (Configured(item[t], Current(t)))' BY <1>3, <2>1, <2>2 DEF Configured
  <2>4. \A i \in 1..Len(open[t]) :
          /\ open[t][i].func \in Uses[t]
          /\ open[t][i].api = "direct" => i = Len(open[t])
    BY <1>1 DEF ThreadOK
  <2>5. open[t] # <<>> BY <1>1, <1>3 DEF ThreadOK
  <2>. QED BY <1>3, <1>6, <1>9, <2>1, <2>2, <2>3, <2>4, <2>5 DEF ThreadOK
<1>15. LastOK' BY <1>3, NoLaunch
<1>. QED BY <1>8, <1>11, <1>12, <1>13, <1>14, <1>15 DEF IInv

(* Retiring a ticket disturbs no launch that has another.                  *)
LEMMA RetiredKeeps ==
  ASSUME NEW objects \in [Kernels -> KernelType], NEW c
  PROVE  /\ Retired(c, objects) \in [Kernels -> KernelType]
         /\ \A k \in Kernels, d \in Tickets \ {c} :
              /\ objects[k].group = d => Retired(c, objects)[k].group = d
              /\ objects[k].args = {d} => Retired(c, objects)[k].args = {d}
<1>1. ASSUME NEW k \in Kernels
      PROVE  /\ Retired(c, objects)[k].group =
                  IF objects[k].group = c THEN NoTicket ELSE objects[k].group
             /\ Retired(c, objects)[k].args =
                  { IF a = c THEN NoTicket ELSE a : a \in objects[k].args }
             /\ Retired(c, objects)[k] \in KernelType
  <2>1. objects[k] \in KernelType OBVIOUS
  <2>. QED BY <2>1 DEF Retired, KernelType
<1>2. Retired(c, objects) \in [Kernels -> KernelType] BY <1>1 DEF Retired
<1>3. ASSUME NEW k \in Kernels, NEW d \in Tickets \ {c}, objects[k].args = {d}
      PROVE  Retired(c, objects)[k].args = {d}
  BY <1>1, <1>3
<1>. QED BY <1>1, <1>2, <1>3

(* What a launch that ends does to the kernel objects leaves the others'.  *)
LEMMA OthersAtEnd ==
  ASSUME IInv, OneUser, NEW t \in Threads, pc[t] \in {"args", "append"},
         NEW objects \in [Kernels -> KernelType],
         \A k \in Kernels \ {Current(t).func} : objects[k] = kernel[k],
         kernel' = Retired(Current(t).ticket, objects),
         pc' = [pc EXCEPT ![t] = "idle"],
         open' = [open EXCEPT ![t] = Front(@)],
         item' = [item EXCEPT ![t] = NoItem],
         refused' = refused \ {t}
  PROVE  Others(t) /\ kernel' \in [Kernels -> KernelType]
<1>1. Typed /\ \A s \in Threads : ThreadOK(s) BY DEF IInv
<1>2. kernel' \in [Kernels -> KernelType] BY RetiredKeeps
<1>3. ASSUME NEW s \in Threads \ {t} PROVE Untouched(s)
  <2>1. ASSUME pc[s] \in {"args", "append"}
        PROVE  /\ kernel'[Current(s).func].group = kernel[Current(s).func].group
                    \/ s \in refused
               /\ pc[s] = "append" =>
                    kernel'[Current(s).func].args = kernel[Current(s).func].args
    <3>1. PICK k, d : k = Current(s).func /\ d = Current(s).ticket OBVIOUS
    <3>2. k \in Kernels \ {Current(t).func} /\ d \in Tickets \ {Current(t).ticket}
      BY <2>1, <3>1, Apart, Flying
    <3>3. s \in refused \/ (objects[k].group = d /\ kernel[k].group = d)
      BY <1>1, <2>1, <3>1, <3>2 DEF ThreadOK
    <3>4. pc[s] = "append" => objects[k].args = {d} /\ kernel[k].args = {d}
      BY <1>1, <3>1, <3>2 DEF ThreadOK
    <3>5. s \in refused \/ kernel'[k].group = d BY <3>2, <3>3, RetiredKeeps
    <3>6. pc[s] = "append" => kernel'[k].args = {d} BY <3>2, <3>4, RetiredKeeps
    <3>. QED BY <3>1, <3>3, <3>4, <3>5, <3>6
  <2>. QED BY <1>1, <2>1 DEF Untouched, Typed
<1>. QED BY <1>2, <1>3 DEF Others

LEMMA AppendLaunchOK ==
  ASSUME IInv, OneUser, NEW t \in Threads, AppendLaunch(t)
  PROVE  IInv'
<1>1. Typed /\ ThreadOK(t) BY DEF IInv
<1>2. PICK l : l = Current(t) OBVIOUS
<1>3. PICK k : k = kernel[l.func] OBVIOUS
<1>4. PICK r : r = [want |-> l.ticket, grid |-> item[t].ticket,
                    group |-> k.group, args |-> k.args, queue |-> item[t].queue,
                    asked |-> l.queue, api |-> l.api,
                    refused |-> t \in refused] OBVIOUS
<1>5. /\ pc[t] = "append" /\ pc' = [pc EXCEPT ![t] = "idle"]
      /\ last' = <<r>>
      /\ open' = [open EXCEPT ![t] = Front(@)] /\ item' = [item EXCEPT ![t] = NoItem]
      /\ kernel' = Retired(l.ticket, kernel) /\ UNCHANGED chip_execstack
      /\ refused' = refused \ {t}
  BY <1>2, <1>3, <1>4 DEF AppendLaunch, Step
<1>6. kernel \in [Kernels -> KernelType] BY <1>1 DEF Typed, TypeOK, KernelType
<1>7. Others(t) /\ kernel' \in [Kernels -> KernelType]
  BY <1>2, <1>5, <1>6, OthersAtEnd
<1>8. /\ l \in Intent /\ l.ticket \in Tickets /\ l.queue \in Queues
      /\ item[t] \in ExecItem /\ item[t].ticket = l.ticket
      /\ (l.api = "old" => item[t].queue = l.queue) /\ k \in KernelType
  BY <1>2, <1>3, <1>5, Flying
<1>9. (t \in refused \/ k.group = l.ticket) /\ k.args = {l.ticket} BY <1>1, <1>2, <1>3, <1>5 DEF ThreadOK
<1>10. r \in Launch
  <2>1. k.group \in Tickets \cup {NoTicket} /\ k.args \subseteq Tickets \cup {NoTicket}
    BY <1>8 DEF KernelType
  <2>2. (t \in refused) \in BOOLEAN OBVIOUS
  <2>. QED BY <1>4, <1>8, <2>1, <2>2 DEF Launch, ExecItem, Intent
<1>11. Len(last') <= 1 /\ DOMAIN last' = {1} /\ last'[1] = r BY <1>5
<1>12. LastOK'
  <2>1. r.grid = r.want /\ (r.refused \/ r.group = r.want) /\ r.args = {r.want}
    BY <1>4, <1>8, <1>9
  <2>2. r.api = "old" => r.queue = r.asked BY <1>4, <1>8
  <2>. QED BY <1>11, <2>1, <2>2 DEF LastOK, LaunchAsConfigured, LaunchOnStream
<1>. QED BY <1>5, <1>7, <1>10, <1>11, <1>12, EndOK DEF KernelType

LEMMA LaunchFailsOK ==
  ASSUME IInv, OneUser, NEW t \in Threads, LaunchFails(t)
  PROVE  IInv'
<1>1. Typed /\ ThreadOK(t) BY DEF IInv
<1>2. PICK l : l = Current(t) OBVIOUS
<1>3. /\ pc[t] \in {"args", "append"} /\ pc' = [pc EXCEPT ![t] = "idle"]
      /\ open' = [open EXCEPT ![t] = Front(@)] /\ item' = [item EXCEPT ![t] = NoItem]
      /\ refused' = refused \ {t}
      /\ UNCHANGED chip_execstack /\ last' = <<>>
  BY DEF LaunchFails, Step
<1>4. kernel \in [Kernels -> KernelType] BY <1>1 DEF Typed, TypeOK, KernelType
<1>5. l.func \in Kernels /\ l.ticket \in Tickets /\ item[t].args = {l.ticket}
      /\ kernel[l.func] \in KernelType
  BY <1>2, <1>3, Flying
<1>6. \E objects \in [Kernels -> KernelType] :
        /\ \A k \in Kernels \ {l.func} : objects[k] = kernel[k]
        /\ kernel' = Retired(l.ticket, objects)
  <2>1. CASE kernel' = Retired(l.ticket, kernel) BY <1>4, <2>1
  <2>2. CASE \E some \in {{}, item[t].args} :
               kernel' = Retired(l.ticket, [kernel EXCEPT ![l.func].args = @ \cup some])
    <3>1. PICK some \in {{}, item[t].args} :
            kernel' = Retired(l.ticket, [kernel EXCEPT ![l.func].args = @ \cup some])
      BY <2>2
    <3>2. PICK objects : objects = [kernel EXCEPT ![l.func].args = @ \cup some] OBVIOUS
    <3>3. some \subseteq Tickets BY <1>5, <3>1
    <3>4. objects \in [Kernels -> KernelType] BY <1>4, <1>5, <3>2, <3>3 DEF KernelType
    <3>5. \A k \in Kernels \ {l.func} : objects[k] = kernel[k] BY <1>4, <3>2
    <3>. QED BY <3>1, <3>2, <3>4, <3>5
  <2>. QED BY <1>2, <2>1, <2>2 DEF LaunchFails
<1>7. PICK objects \in [Kernels -> KernelType] :
        /\ \A k \in Kernels \ {l.func} : objects[k] = kernel[k]
        /\ kernel' = Retired(l.ticket, objects)
  BY <1>6
<1>8. Others(t) /\ kernel' \in [Kernels -> KernelType]
  BY <1>2, <1>3, <1>7, OthersAtEnd
<1>. QED BY <1>3, <1>8, EndOK, NoLaunch DEF KernelType

-----------------------------------------------------------------------------
(* The theorems.                                                           *)

LEMMA StepOK ==
  ASSUME IInv, Serial, OneUser, [Next]_vars
  PROVE  IInv'
<1>1. CASE UNCHANGED vars
  <2>1. /\ UNCHANGED <<chip_execstack, open, pc, item, kernel, refused, last>> BY <1>1 DEF vars
  <2>2. Typed' BY <2>1 DEF IInv, Typed, TypeOK
  <2>3. Unique' BY <2>1 DEF IInv, Unique
  <2>4. LastOK' BY <2>1 DEF IInv, LastOK, LaunchAsConfigured, LaunchOnStream
  <2>5. \A s \in Threads : Untouched(s) BY <2>1 DEF Untouched
  <2>6. \A s \in Threads : ThreadOK(s)' /\ Waiting(s)' = Waiting(s)
    BY <2>5, OtherThread DEF IInv
  <2>7. StackOK' BY <2>1, <2>6, StackKept DEF IInv
  <2>. QED BY <2>2, <2>3, <2>4, <2>6, <2>7 DEF IInv
<1>2. ASSUME NEW t \in Threads, NEW q \in Queues, NEW f \in Kernels,
             NEW api \in {"old", "new"}, ConfigureCall(t, q, f, api)
      PROVE  IInv'
  BY <1>2, ConfigureOK
<1>3. ASSUME NEW t \in Threads, NEW q \in Queues, NEW f \in Kernels, LaunchKernel(t, q, f)
      PROVE  IInv'
  BY <1>3, LaunchKernelOK
<1>4. ASSUME NEW t \in Threads,
             \/ SetupArgument(t) \/ Top(t) \/ Pop(t) \/ FindKernel(t) \/ SetGroup(t)
             \/ SetupAllArgs(t) \/ AppendLaunch(t) \/ LaunchFails(t)
      PROVE  IInv'
  BY <1>4, SetupArgumentOK, TopOK, PopOK, FindKernelOK, SetGroupOK, SetupAllArgsOK,
     AppendLaunchOK, LaunchFailsOK
<1>. QED BY <1>1, <1>2, <1>3, <1>4 DEF Next

LEMMA StackShown == IInv => StateOK
<1>. SUFFICES ASSUME IInv PROVE StackMatchesCalls
  BY DEF IInv, Typed, StateOK
<1>1. Typed /\ StackOK /\ \A t \in Threads : ThreadOK(t) BY DEF IInv
<1>2. ASSUME NEW t \in Threads, Waiting(t) # <<>>
      PROVE  [i \in DOMAIN chip_execstack |-> chip_execstack[i].ticket]
               = [i \in DOMAIN Waiting(t) |-> Waiting(t)[i].ticket]
  <2>1. DOMAIN chip_execstack = 1..Len(chip_execstack) BY <1>1 DEF Typed, TypeOK
  <2>2. DOMAIN Waiting(t) = 1..Len(Waiting(t)) BY <1>1, WaitingType
  <2>3. /\ Len(chip_execstack) = Len(Waiting(t))
        /\ \A i \in 1..Len(chip_execstack) : chip_execstack[i].ticket = Waiting(t)[i].ticket
    BY <1>1, <1>2 DEF StackOK, Pushed
  <2>. QED BY <2>1, <2>2, <2>3
<1>. QED BY <1>1, <1>2 DEF StackOK, StackMatchesCalls

(* The inductive invariant: launches have tickets of their own, the stack  *)
(* is the configurations one thread waits with, and a thread in the middle *)
(* of a launch finds on the kernel object what its own steps put there.    *)
THEOREM Invariant ==
  ASSUME Serial, OneUser
  PROVE  Spec => []IInv
<1>1. Init => IInv BY InitOK
<1>2. IInv /\ [Next]_vars => IInv' BY StepOK
<1>. QED BY <1>1, <1>2, PTL DEF Spec

(* For any number of threads and nested calls, the stack holds exactly the *)
(* configurations of the launches still to be made (chip_execstack, pushed *)
(* by configureCall and popped by hipLaunchByPtr and                       *)
(* __hipPopCallConfiguration), launches that fail included.                *)
THEOREM StateCorrect ==
  ASSUME Serial, OneUser
  PROVE  Spec => []StateOK
BY Invariant, StackShown, PTL

(* Every kernel is appended with the grid, the group size and the          *)
(* arguments of the call that launches it, although all launches of a      *)
(* kernel go through the one object of the device; only a group size the   *)
(* driver refuses (zeKernelSetGroupSize, whose status launch() does not    *)
(* read) leaves that of an earlier launch.                                 *)
THEOREM ConfiguredCorrect ==
  ASSUME Serial, OneUser
  PROVE  Spec => []LaunchAsConfigured
<1>1. IInv => LaunchAsConfigured BY DEF IInv, LastOK
<1>. QED BY <1>1, Invariant, PTL

(* hipLaunchByPtr appends to the queue its configuration names.            *)
THEOREM OnStreamCorrect ==
  ASSUME Serial, OneUser
  PROVE  Spec => []LaunchOnStream
<1>1. IInv => LaunchOnStream BY DEF IInv, LastOK
<1>. QED BY <1>1, Invariant, PTL
=============================================================================
