------------------------------- MODULE DpcQueue -------------------------------
(***************************************************************************)
(* Deferred procedure calls: KeInsertQueueDpc and KeRemoveQueueDpc         *)
(* (kernel/xboxkrnl/xboxkrnl_threading.cc), and the queues behind them     *)
(* (kernel/kernel_state.cc).                                               *)
(*                                                                         *)
(* A DPC waits in one of three kinds of places: the queue of the processor *)
(* it targets, which a fiber pinned there drains; the deferred list, when  *)
(* the thread that inserts it is in a DPC itself; and the dispatch queue,  *)
(* where an expired timer puts it.  Otherwise it runs at once, on the      *)
(* thread that inserts it, with the global lock held.                      *)
(*                                                                         *)
(* A request's arguments are its number.  Each handler takes its locks one *)
(* after another; the structures they guard are disjoint, so each is one   *)
(* step except where a lock is dropped between a look and a use.  Left     *)
(* out: dpc_list_, which only decides what KeRemoveQueueDpc answers, a DPC *)
(* without a routine, and the failure to create a thread.                  *)
(***************************************************************************)
EXTENDS Naturals, SequencesExt

CONSTANTS
  Dpcs, Fibers,
  Hosts,             \* host threads that run interrupt callbacks
  Worker,            \* the dispatch thread
  Cpus,              \* a processor, and the fiber that drains its queue
  None,
  Desired,           \* desired_cpu_number of each DPC: a processor or None
  CpuOf,             \* where each fiber runs
  MaxRequests,       \* bound: KeInsertQueueDpc and QueueDpc calls
  Ops                \* "guest", "remove", "timer", "interrupt"

Actors == Fibers \cup Hosts \cup {Worker} \cup Cpus
Requests == 1..MaxRequests

ASSUME DpcAssumption ==
  /\ MaxRequests \in Nat /\ Desired \in [Dpcs -> Cpus \cup {None}] /\ CpuOf \in [Fibers -> Cpus]
  /\ None \notin Dpcs \cup Actors /\ Cpus \cap (Fibers \cup Hosts \cup {Worker}) = {}

VARIABLES
  dispatchDpcs, dispatchQueue,     \* dispatch_dpcs_; dispatch_queue_, the DPC and arguments of each lambda
  queue, event, started,           \* ProcessorDpcs
  deferred,                        \* deferred_dpcs
  arg,                             \* the arguments kept in the XDPC
  global,                          \* who holds the global lock over a routine
  active,                          \* dpc_active
  pc, cur,                         \* where an actor is; the request it runs
  made,                            \* requests so far
  removed                          \* ghost: requests KeRemoveQueueDpc took out of the dispatch queue

dispatch == <<dispatchDpcs, dispatchQueue>>
processor == <<queue, event, started>>
actor == <<active, pc, cur>>
vars == <<dispatch, processor, deferred, arg, global, actor, made, removed>>

Nothing == [dpc |-> None, req |-> 0]
Request == [dpc : Dpcs, req : Requests]

TypeOK ==
  /\ dispatchDpcs \subseteq Dpcs /\ dispatchQueue \in Seq(Request)
  /\ queue \in [Cpus -> Seq(Dpcs)] /\ event \in [Cpus -> BOOLEAN] /\ started \subseteq Cpus
  /\ deferred \in Seq([by : Actors, dpc : Dpcs])
  /\ arg \in [Dpcs -> Requests \cup {0}]
  /\ global \in Fibers \cup {None}
  /\ active \in [Actors -> BOOLEAN]
  /\ pc \in [Actors -> {"idle", "popped", "loop", "run", "fetch", "runDeferred", "drain"}]
  /\ cur \in [Actors -> Request \cup {Nothing} \cup [dpc : Dpcs, req : {0}]]
  /\ made \in 0..MaxRequests /\ removed \subseteq Requests

Init ==
  /\ dispatchDpcs = {} /\ dispatchQueue = <<>>
  /\ queue = [c \in Cpus |-> <<>>] /\ event = [c \in Cpus |-> FALSE] /\ started = {}
  /\ deferred = <<>> /\ arg = [d \in Dpcs |-> 0] /\ global = None
  /\ active = [a \in Actors |-> FALSE] /\ pc = [a \in Actors |-> "idle"]
  /\ cur = [a \in Actors |-> Nothing]
  /\ made = 0 /\ removed = {}

Goto(a, l) == pc' = [pc EXCEPT ![a] = l]
Runs(a, d, r) == cur' = [cur EXCEPT ![a] = [dpc |-> d, req |-> r]]
Begin(a) == active' = [active EXCEPT ![a] = TRUE]
Global(a) == global \in {None, a}
Made == made < MaxRequests /\ made' = made + 1

\* Guest code runs in a fiber outside any DPC, and in every routine.
InGuest(a) == (a \in Fibers /\ pc[a] = "idle") \/ pc[a] \in {"run", "runDeferred"}

IsDeferredDpc(d) == \E i \in DOMAIN deferred : deferred[i].dpc = d
IsProcessorDpcQueued(d) == Contains(queue[Desired[d]], d)
NeverQueued(d) == FALSE     \* a bug: KeInsertQueueDpc does not look in the processor's queue
IsQueuedThere(d) == IsProcessorDpcQueued(d)

-----------------------------------------------------------------------------
\* Puts a DPC in its processor's queue unless it is there.
QueueProcessorDpc(d, r) ==
  LET c == Desired[d]
  IN IF Contains(queue[c], d) THEN UNCHANGED <<queue, event, arg>>
     ELSE /\ queue' = [queue EXCEPT ![c] = Append(@, d)] /\ event' = [event EXCEPT ![c] = TRUE]
          /\ arg' = [arg EXCEPT ![d] = r]

\* The DPC targets another processor, or no fiber can stand in for its own.
Elsewhere(a, d) ==
  Desired[d] # None /\ (a \in Cpus => Desired[d] # a) /\ (a \in Fibers => Desired[d] # CpuOf[a])

\* KeInsertQueueDpc.
InsertElsewhere(a, d) ==
  /\ Elsewhere(a, d) /\ started' = started \cup {Desired[d]}
  /\ QueueProcessorDpc(d, made') /\ UNCHANGED <<deferred, global, actor>>

NeverDefers(a) == FALSE     \* a bug: the new routine runs inside the old one
Defers(a) == active[a]
InsertHere(a, d) ==
  /\ ~Elsewhere(a, d) /\ ~(Desired[d] # None /\ IsQueuedThere(d))
  /\ arg' = [arg EXCEPT ![d] = made']
  /\ IF Defers(a)
     THEN deferred' = Append(deferred, [by |-> a, dpc |-> d]) /\ UNCHANGED <<global, actor>>
     ELSE global' = a /\ Begin(a) /\ Runs(a, d, made') /\ Goto(a, "run") /\ UNCHANGED deferred
  /\ UNCHANGED processor

KeInsertQueueDpc(a, d) ==
  /\ "guest" \in Ops /\ InGuest(a) /\ Global(a) /\ Made
  /\ ~IsDeferredDpc(d)
  /\ InsertElsewhere(a, d) \/ InsertHere(a, d)
  /\ UNCHANGED <<dispatch, removed>>

\* KeRemoveQueueDpc, which looks everywhere, and in each place for the first.
Lambdas == ToSet(dispatchQueue) \cup (IF pc[Worker] = "popped" THEN {cur[Worker]} ELSE {})
KeRemoveQueueDpc(a, d) ==
  /\ "remove" \in Ops /\ InGuest(a) /\ Global(a)
  /\ removed' = removed \cup {r.req : r \in {q \in Lambdas : q.dpc = d /\ d \in dispatchDpcs}}
  /\ dispatchDpcs' = dispatchDpcs \ {d}
  /\ queue' = [c \in Cpus |-> RemoveFirst(queue[c], d)]
  /\ deferred' = RemoveFirstMatch(deferred, LAMBDA e : e.dpc = d)
  /\ UNCHANGED <<dispatchQueue, event, started, arg, global, actor, made>>

\* QueueDpc, from a timer that expired.
ToProcessor(d) == Desired[d] # None /\ Desired[d] \in started /\ QueueProcessorDpc(d, made')
ToDispatch(d) ==
  /\ Desired[d] = None \/ Desired[d] \notin started
  /\ IF d \in dispatchDpcs THEN UNCHANGED dispatch
     ELSE /\ dispatchDpcs' = dispatchDpcs \cup {d}
          /\ dispatchQueue' = Append(dispatchQueue, [dpc |-> d, req |-> made'])
QueueDpc(d) ==
  /\ "timer" \in Ops /\ Made
  /\ \/ ToProcessor(d) /\ UNCHANGED dispatch
     \/ ToDispatch(d) /\ UNCHANGED <<queue, event, arg>>
  /\ UNCHANGED <<started, deferred, global, actor, removed>>

-----------------------------------------------------------------------------
\* The dispatch thread takes a lambda, which then takes its DPC back or finds it gone.
Pop ==
  /\ pc[Worker] = "idle" /\ dispatchQueue # <<>>
  /\ cur' = [cur EXCEPT ![Worker] = Head(dispatchQueue)] /\ dispatchQueue' = Tail(dispatchQueue)
  /\ Goto(Worker, "popped")
  /\ UNCHANGED <<dispatchDpcs, processor, deferred, arg, global, active, made, removed>>

RunLambda ==
  /\ pc[Worker] = "popped"
  /\ IF cur[Worker].dpc \in dispatchDpcs
     THEN /\ dispatchDpcs' = dispatchDpcs \ {cur[Worker].dpc}
          /\ Begin(Worker) /\ Goto(Worker, "run") /\ UNCHANGED cur
     ELSE /\ cur' = [cur EXCEPT ![Worker] = Nothing] /\ Goto(Worker, "idle")
          /\ UNCHANGED <<dispatchDpcs, active>>
  /\ UNCHANGED <<dispatchQueue, processor, deferred, arg, global, made, removed>>

\* EmulateCPInterruptDPC: the callback of an interrupt runs as a DPC.
Interrupt(a) ==
  /\ "interrupt" \in Ops /\ pc[a] = "idle" /\ Begin(a) /\ Goto(a, "run")
  /\ UNCHANGED <<dispatch, processor, deferred, arg, global, cur, made, removed>>

\* RunProcessorDpcs.
Wake(c) ==
  /\ c \in started /\ pc[c] = "idle" /\ event[c]
  /\ event' = [event EXCEPT ![c] = FALSE] /\ Begin(c) /\ Goto(c, "loop")
  /\ UNCHANGED <<dispatch, queue, started, deferred, arg, global, cur, made, removed>>

TakeLast(c) ==               \* a bug: the newest first
  LET d == Last(queue[c])
  IN Runs(c, d, arg[d]) /\ queue' = [queue EXCEPT ![c] = Front(@)]
TakeFirst(c) ==
  LET d == Head(queue[c])
  IN Runs(c, d, arg[d]) /\ queue' = [queue EXCEPT ![c] = Tail(@)]
Loop(c) ==
  /\ pc[c] = "loop"
  /\ IF queue[c] # <<>> THEN TakeFirst(c) /\ Goto(c, "run")
     ELSE Goto(c, "drain") /\ UNCHANGED <<queue, cur>>
  /\ UNCHANGED <<dispatch, event, started, deferred, arg, global, active, made, removed>>

\* A routine returns.
DrainAtOnce(a) == "drain"    \* a bug: takes one DPC each time it wakes
Returned(a) == IF a \in Cpus /\ pc[a] = "run" THEN "loop" ELSE "drain"
Return(a) ==
  /\ pc[a] \in {"run", "runDeferred"}
  /\ cur' = [cur EXCEPT ![a] = Nothing]
  /\ Goto(a, Returned(a))
  /\ UNCHANGED <<dispatch, processor, deferred, arg, global, active, made, removed>>

\* EndDPCImpersonation and xeRunDeferredDpcs, which reads the arguments of what it
\* took after it let go of the lock.
OwnAnywhere(a) ==            \* a bug: leaves those that target its processor
  {i \in DOMAIN deferred : deferred[i].by = a /\ Desired[deferred[i].dpc] = None}
Own(a) == {i \in DOMAIN deferred : deferred[i].by = a}
Drain(a) ==
  /\ pc[a] = "drain" /\ Global(a)
  /\ IF Own(a) # {}
     THEN LET i == CHOOSE j \in Own(a) : \A k \in Own(a) : j <= k
          IN /\ Runs(a, deferred[i].dpc, 0) /\ deferred' = RemoveAt(deferred, i)
             /\ Goto(a, "fetch") /\ UNCHANGED <<active, global>>
     ELSE /\ active' = [active EXCEPT ![a] = FALSE] /\ Goto(a, "idle")
          /\ global' = None /\ UNCHANGED <<deferred, cur>>
  /\ UNCHANGED <<dispatch, processor, arg, made, removed>>

Fetch(a) ==
  /\ pc[a] = "fetch" /\ Runs(a, cur[a].dpc, arg[cur[a].dpc]) /\ Goto(a, "runDeferred")
  /\ UNCHANGED <<dispatch, processor, deferred, arg, global, active, made, removed>>

Proceeds(a) ==
  \/ a = Worker /\ (Pop \/ RunLambda)
  \/ a \in Cpus /\ (Wake(a) \/ Loop(a))
  \/ Return(a) \/ Drain(a) \/ Fetch(a)

Next ==
  \/ \E a \in Actors : Proceeds(a) \/ \E d \in Dpcs : KeInsertQueueDpc(a, d) \/ KeRemoveQueueDpc(a, d)
  \/ \E d \in Dpcs : QueueDpc(d)
  \/ \E a \in Hosts : Interrupt(a)

Spec == Init /\ [][Next]_vars

\* Threads run and routines return.
Fairness == \A a \in Actors : WF_vars(Proceeds(a))

-----------------------------------------------------------------------------
Places(d) ==
  (IF d \in dispatchDpcs THEN {"dispatch"} ELSE {})
    \cup (IF IsDeferredDpc(d) THEN {"deferred"} ELSE {})
    \cup {c \in Cpus : Contains(queue[c], d)}

\* A DPC that still waits to run is not queued again, in that place or another.
OnePlace ==
  \A d \in Dpcs :
    /\ \A p, q \in Places(d) : p = q
    /\ \A c \in Cpus : IsInjective(queue[c])
    /\ Len(SelectSeq(deferred, LAMBDA e : e.dpc = d)) <= 1

\* What was deferred has a thread that will run it before it leaves its DPC.
DeferredHasRunner == \A i \in DOMAIN deferred : active[deferred[i].by]

\* The queue of each processor keeps its requests, each with its own arguments,
\* and hands them out in the order they came, whoever else uses the same DPC.
Fifo == INSTANCE ProcessorFifo WITH
  waiting <- [c \in Cpus |-> [i \in DOMAIN queue[c] |-> [dpc |-> queue[c][i], req |-> arg[queue[c][i]]]]],
  running <- [c \in Cpus |-> IF pc[c] = "run" THEN cur[c] ELSE Nothing]
ImplementsFifo == Fifo!Spec

\* What waits runs, unless it is removed.
QueuedRuns ==
  /\ \A c \in Cpus, d \in Dpcs : Contains(queue[c], d) ~> ~Contains(queue[c], d)
  /\ \A d \in Dpcs : IsDeferredDpc(d) ~> ~IsDeferredDpc(d)
  /\ \A d \in Dpcs : d \in dispatchDpcs ~> d \notin dispatchDpcs

\* A request that KeRemoveQueueDpc took back does not run.
TakenBack == pc[Worker] = "run" => cur[Worker].req \notin removed

\* A DPC runs with the arguments it was deferred with: nobody changes them
\* between its leaving the list and its run.
ArgumentsTaken == [][\A a \in Actors : pc[a] = "fetch" /\ pc'[a] = "fetch" =>
                       arg'[cur[a].dpc] = arg[cur[a].dpc]]_vars
================================================================================
