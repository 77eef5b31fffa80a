---------------------------- MODULE KernelLaunch ----------------------------
(***************************************************************************)
(* The three ways to launch a kernel, and the state they share.            *)
(*                                                                         *)
(*   "old"    hipConfigureCall, hipSetupArgument, hipLaunchByPtr           *)
(*   "new"    __hipPushCallConfiguration, __hipPopCallConfiguration,       *)
(*            hipLaunchKernel: what the compiler makes of <<< >>>          *)
(*   "direct" hipLaunchKernel                                              *)
(*                                                                         *)
(* The configurations of all threads are on ONE stack (chip_execstack).    *)
(* Pushing and setting an argument hold the mutex of the backend; taking   *)
(* the top off is a top() and a pop() without it.  On Level Zero the group *)
(* size and the arguments of a launch go through the ONE kernel object of  *)
(* the device before the launch is appended (OpenCL hands the group size   *)
(* to the enqueue, and shares the arguments the same way).                 *)
(*                                                                         *)
(* The grid, block and argument values of a launch are abstracted to a     *)
(* ticket: the launch the application meant them for.                      *)
(***************************************************************************)
EXTENDS Sequences, SequencesExt

CONSTANTS
  Threads,      \* host threads
  Queues,       \* the streams of the active device
  ActiveQueue,  \* Backend->getActiveQueue()
  Kernels,      \* host function pointers
  Registered,   \* those the device has a kernel for
  Uses,         \* Uses[t]: the functions thread t launches
  API,          \* API[t]: the ways thread t launches kernels
  Serial,       \* whether the application lets one thread at a time use the
                \* stack of configurations
  Tickets,      \* bound: names of launches that are told apart
  NoTicket,
  MaxNested     \* bound: launches a thread has configured and not made

ASSUME LaunchAssumption ==
  /\ ActiveQueue \in Queues
  /\ Registered \subseteq Kernels
  /\ Uses \in [Threads -> SUBSET Kernels]
  /\ API \in [Threads -> SUBSET {"old", "new", "direct"}]
  /\ Serial \in BOOLEAN
  /\ NoTicket \notin Tickets

VARIABLES
  chip_execstack, \* configured calls, of all threads
  open,           \* open[t]: the launches t means to make, innermost last
  pc,             \* pc[t]: the step t is at
  item,           \* item[t]: the CHIPExecItem t has in hand
  kernel,         \* kernel[k]: group size and arguments set on the object
  refused,        \* history: threads whose group size the driver has refused
  last            \* history: the launch the last step appended, if it did

vars == <<chip_execstack, open, pc, item, kernel, refused, last>>

ExecItem == [ticket : Tickets, queue : Queues, args : SUBSET Tickets]
NoItem == [ticket |-> NoTicket, queue |-> ActiveQueue, args |-> {}]
Intent == [ticket : Tickets, queue : Queues, func : Kernels,
           api : {"old", "new", "direct"}, arguments : BOOLEAN]
Launch == [want : Tickets, grid : Tickets, group : Tickets \cup {NoTicket},
           args : SUBSET (Tickets \cup {NoTicket}), queue : Queues, asked : Queues,
           api : {"old", "new", "direct"}, refused : BOOLEAN]

TypeOK ==
  /\ chip_execstack \in Seq(ExecItem)
  /\ \A t \in Threads :
       /\ open[t] \in Seq(Intent)
       /\ pc[t] \in {"idle", "pop", "find", "group", "args", "append"}
       /\ item[t] \in ExecItem \cup {NoItem}
  /\ kernel \in [Kernels -> [group : Tickets \cup {NoTicket},
                             args : SUBSET (Tickets \cup {NoTicket})]]
  /\ refused \subseteq Threads
  /\ Len(last) <= 1 /\ \A i \in DOMAIN last : last[i] \in Launch

Init ==
  /\ chip_execstack = <<>>
  /\ open = [t \in Threads |-> <<>>]
  /\ pc = [t \in Threads |-> "idle"]
  /\ item = [t \in Threads |-> NoItem]
  /\ kernel = [k \in Kernels |-> [group |-> NoTicket, args |-> {}]]
  /\ refused = {}
  /\ last = <<>>

-----------------------------------------------------------------------------
Step(t, from, to) == pc[t] = from /\ pc' = [pc EXCEPT ![t] = to]

Current(t) == Last(open[t])

(* The launches of t that have a configuration on the stack: all it means  *)
(* to make, but for the one under way.                                     *)
Waiting(t) == IF pc[t] \in {"idle", "pop"} THEN open[t] ELSE Front(open[t])

TicketsOf(s) == { s[i].ticket : i \in DOMAIN s }
InUse ==
  TicketsOf(chip_execstack)
    \cup (UNION { TicketsOf(open[t]) : t \in Threads })
    \cup { item[t].ticket : t \in Threads }
    \cup (UNION { {kernel[k].group} \cup kernel[k].args : k \in Kernels })

(* The application decides on a launch.  Nothing else is known of a ticket *)
(* that is not in use, so any will do.                                     *)
MeanToLaunch(t, q, f, api) ==
  /\ pc[t] = "idle" /\ Len(open[t]) < MaxNested
  /\ f \in Uses[t] /\ api \in API[t]
  /\ Serial /\ api # "direct" =>
       \A s \in Threads \ {t} : Waiting(s) = <<>>
  /\ Tickets \ InUse # {}
  /\ open' = [open EXCEPT ![t] = Append(@,
       [ticket |-> CHOOSE c \in Tickets \ InUse : TRUE, queue |-> q,
        func |-> f, api |-> api, arguments |-> FALSE])]

(* configureCall, under the mutex. *)
ConfigureCall(t, q, f, api) ==
  /\ api \in {"old", "new"}
  /\ MeanToLaunch(t, q, f, api)
  /\ chip_execstack' = Append(chip_execstack,
       [ticket |-> Last(open'[t]).ticket, queue |-> q, args |-> {}])
  /\ last' = <<>>
  /\ UNCHANGED <<pc, item, kernel, refused>>

(* setArg, under the mutex: the arguments go to the item on top. *)
SetupArgument(t) ==
  /\ pc[t] = "idle" /\ open[t] # <<>>
  /\ Current(t).api = "old" /\ ~Current(t).arguments
  /\ chip_execstack # <<>>
  /\ chip_execstack' =
       [chip_execstack EXCEPT ![Len(chip_execstack)].args =
          @ \cup {Current(t).ticket}]
  /\ open' = [open EXCEPT ![t][Len(open[t])].arguments = TRUE]
  /\ last' = <<>>
  /\ UNCHANGED <<pc, item, kernel, refused>>

(* Slip: the oldest configuration is taken. *)
TopOldest(t) ==
  /\ open[t] # <<>> /\ chip_execstack # <<>>
  /\ Current(t).api = "old" => Current(t).arguments
  /\ Step(t, "idle", "pop")
  /\ item' = [item EXCEPT ![t] = Head(chip_execstack)]
  /\ last' = <<>>
  /\ UNCHANGED <<chip_execstack, open, kernel, refused>>

(* hipLaunchByPtr and __hipPopCallConfiguration: chip_execstack.top() ... *)
Top(t) ==
  /\ open[t] # <<>> /\ chip_execstack # <<>>
  /\ Current(t).api = "old" => Current(t).arguments
  /\ Step(t, "idle", "pop")
  /\ item' = [item EXCEPT ![t] = Last(chip_execstack)]
  /\ last' = <<>>
  /\ UNCHANGED <<chip_execstack, open, kernel, refused>>

(* launchHostFunc makes an item of its own: the arguments it is given, and *)
(* the active queue.                                                       *)
HostFuncItem(ticket, own) ==
  [ticket |-> ticket, queue |-> ActiveQueue, args |-> {own}]

(* Slip: the configuration stays on the stack. *)
PopForgotten(t) ==
  /\ chip_execstack # <<>>
  /\ Step(t, "pop", "find")
  /\ item' = [item EXCEPT ![t] =
       IF Current(t).api = "new" THEN HostFuncItem(@.ticket, Current(t).ticket)
                                 ELSE @]
  /\ last' = <<>>
  /\ UNCHANGED <<chip_execstack, open, kernel, refused>>

(* ... and chip_execstack.pop().  The compiler's stub goes on to           *)
(* hipLaunchKernel with the configuration it read.                         *)
Pop(t) ==
  /\ chip_execstack # <<>>
  /\ Step(t, "pop", "find")
  /\ chip_execstack' = Front(chip_execstack)
  /\ item' = [item EXCEPT ![t] =
       IF Current(t).api = "new" THEN HostFuncItem(@.ticket, Current(t).ticket)
                                 ELSE @]
  /\ last' = <<>>
  /\ UNCHANGED <<open, kernel, refused>>

(* hipLaunchKernel on stream q. *)
LaunchKernel(t, q, f) ==
  /\ MeanToLaunch(t, q, f, "direct")
  /\ Step(t, "idle", "find")
  /\ item' = [item EXCEPT ![t] =
       HostFuncItem(Last(open'[t]).ticket, Last(open'[t]).ticket)]
  /\ last' = <<>>
  /\ UNCHANGED <<chip_execstack, kernel, refused>>

(* launchByHostPtr: a function the device does not know is an error, after *)
(* the configuration was taken off the stack.                              *)
FindKernel(t) ==
  LET found == Current(t).func \in Registered IN
  /\ Step(t, "find", IF found THEN "group" ELSE "idle")
  /\ open' = IF found THEN open ELSE [open EXCEPT ![t] = Front(@)]
  /\ item' = IF found THEN item ELSE [item EXCEPT ![t] = NoItem]
  /\ last' = <<>>
  /\ UNCHANGED <<chip_execstack, kernel, refused>>

(* launch: zeKernelSetGroupSize, setupAllArgs, and the append.  Nobody     *)
(* looks at the status of the first: when the driver refuses the size, the *)
(* kernel keeps the one of an earlier launch, and the launch goes on.      *)
SetGroup(t) ==
  /\ Step(t, "group", "args")
  /\ \/ /\ kernel' = [kernel EXCEPT ![Current(t).func].group = item[t].ticket]
        /\ UNCHANGED refused
     \/ /\ refused' = refused \cup {t}
        /\ UNCHANGED kernel
  /\ last' = <<>>
  /\ UNCHANGED <<chip_execstack, open, item>>

SetupAllArgs(t) ==
  /\ Step(t, "args", "append")
  /\ kernel' = [kernel EXCEPT ![Current(t).func].args = item[t].args]
  /\ last' = <<>>
  /\ UNCHANGED <<chip_execstack, open, item, refused>>

(* What a launch leaves on a kernel object is told apart from what later   *)
(* launches set there, not from what others left: its ticket is retired.   *)
Retired(c, objects) ==
  [k \in Kernels |->
     [group |-> IF objects[k].group = c THEN NoTicket ELSE objects[k].group,
      args |-> { IF a = c THEN NoTicket ELSE a : a \in objects[k].args }]]

(* Slip: the launch goes to the active queue. *)
AppendLaunchActive(t) ==
  LET want == Current(t)
      k == kernel[want.func]
  IN
  /\ Step(t, "append", "idle")
  /\ last' = << [want |-> want.ticket, grid |-> item[t].ticket,
                 group |-> k.group, args |-> k.args, queue |-> ActiveQueue,
                 asked |-> want.queue, api |-> want.api,
                 refused |-> t \in refused] >>
  /\ open' = [open EXCEPT ![t] = Front(@)]
  /\ item' = [item EXCEPT ![t] = NoItem]
  /\ kernel' = Retired(want.ticket, kernel)
  /\ refused' = refused \ {t}
  /\ UNCHANGED chip_execstack

AppendLaunch(t) ==
  LET want == Current(t)
      k == kernel[want.func]
  IN
  /\ Step(t, "append", "idle")
  /\ last' = << [want |-> want.ticket, grid |-> item[t].ticket,
                 group |-> k.group, args |-> k.args, queue |-> item[t].queue,
                 asked |-> want.queue, api |-> want.api,
                 refused |-> t \in refused] >>
  /\ open' = [open EXCEPT ![t] = Front(@)]
  /\ item' = [item EXCEPT ![t] = NoItem]
  /\ kernel' = Retired(want.ticket, kernel)
  /\ refused' = refused \ {t}
  /\ UNCHANGED chip_execstack

(* An argument or the append is refused by the driver: the exception drops *)
(* the launch.  The arguments before the refused one stay on the object.   *)
LaunchFails(t) ==
  LET f == Current(t).func
      ticket == Current(t).ticket
  IN
  /\ \/ Step(t, "append", "idle") /\ kernel' = Retired(ticket, kernel)
     \/ /\ Step(t, "args", "idle")
        /\ \E some \in {{}, item[t].args} : kernel' =
             Retired(ticket, [kernel EXCEPT ![f].args = @ \cup some])
  /\ refused' = refused \ {t}
  /\ open' = [open EXCEPT ![t] = Front(@)]
  /\ item' = [item EXCEPT ![t] = NoItem]
  /\ last' = <<>>
  /\ UNCHANGED chip_execstack

-----------------------------------------------------------------------------
Next ==
  \E t \in Threads :
    \/ \E q \in Queues, f \in Kernels :
         \/ \E api \in {"old", "new"} : ConfigureCall(t, q, f, api)
         \/ LaunchKernel(t, q, f)
    \/ SetupArgument(t)
    \/ Top(t) \/ Pop(t)
    \/ FindKernel(t)
    \/ SetGroup(t) \/ SetupAllArgs(t) \/ AppendLaunch(t)
    \/ LaunchFails(t)

Spec == Init /\ [][Next]_vars

-----------------------------------------------------------------------------
(* The stack holds exactly the configurations of the launches still to be  *)
(* made, innermost on top: no launch, failed or not, leaves one behind or  *)
(* takes one too many, and top() and pop() never meet an empty stack.      *)
StackMatchesCalls ==
  /\ \A t \in Threads : Waiting(t) # <<>> =>
       [i \in DOMAIN chip_execstack |-> chip_execstack[i].ticket]
         = [i \in DOMAIN Waiting(t) |-> Waiting(t)[i].ticket]
  /\ (\A t \in Threads : Waiting(t) = <<>>) => chip_execstack = <<>>

StateOK == TypeOK /\ StackMatchesCalls

(* A kernel runs with the grid, the group size and the arguments of the    *)
(* call that launches it: configureCall is to "configure an upcoming       *)
(* kernel call" (CHIPBackend.hh), the caller's own.  The group size alone  *)
(* is another launch's when the driver has refused this one's.             *)
LaunchAsConfigured ==
  \A i \in DOMAIN last :
    /\ last[i].grid = last[i].want
    /\ last[i].refused \/ last[i].group = last[i].want
    /\ last[i].args = {last[i].want}

(* A kernel launched by hipLaunchByPtr is appended to the queue its        *)
(* configuration names (launchHostFunc, of the other two ways, takes the   *)
(* active queue whatever stream the call names).                           *)
LaunchOnStream ==
  \A i \in DOMAIN last : last[i].api = "old" => last[i].queue = last[i].asked
=============================================================================
