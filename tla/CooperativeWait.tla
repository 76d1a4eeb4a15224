--------------------------- MODULE CooperativeWait ---------------------------
(***************************************************************************)
(* Cooperative waits of fibers on one dispatcher object: XObject::Wait and *)
(* CooperativeWait (kernel/xobject.cc), the FIFO and signals of XEvent,    *)
(* XSemaphore and XMutant, and the part of GuestScheduler that parks,      *)
(* wakes and re-polls a waiter (BlockCurrentThread, WakeForSignal,         *)
(* RereadyBlocked).                                                        *)
(*                                                                         *)
(* A fiber polls the host primitive and, when that fails, parks on the     *)
(* blocked list of its CPU.  It is re-polled only if the object's signal   *)
(* epoch moved since it sampled it, so the epoch, the pre-filter on        *)
(* has_blocked and the list walk must not let a signal slip between them.  *)
(*                                                                         *)
(* An epoch is only compared with an earlier sample of it, so moved[t]     *)
(* stands for "the signal epoch differs from the one t sampled", and       *)
(* pulsed[t] for the same of the pulse epoch.                              *)
(***************************************************************************)
EXTENDS IntrusiveList

CONSTANTS
  Threads,      \* fibers that wait on the object
  Callers,      \* host threads that signal it or terminate a fiber
  Cpus,
  Kinds,        \* what the object may be: "autoEvent", "manualEvent", "semaphore", "mutant"
  Ops,          \* what the environment does, see below
  MaxPermits,   \* limit of a semaphore
  MaxDepth,     \* bound on the recursion of a mutant
  NoThread

\* Ops: "timeout" (a wait gives up at its deadline), "apc" (an APC ends a wait),
\* "terminate" (by a caller), "pulse", "reset", "signal".
ASSUME WaitAssumption ==
  /\ NoThread \notin Threads /\ Threads \cap Callers = {}
  /\ Kinds \subseteq {"autoEvent", "manualEvent", "semaphore", "mutant"}
  /\ MaxPermits \in Nat \ {0}
  /\ MaxDepth \in Nat

VARIABLES
  free,              \* permits of the host primitive (1: a set event, a free mutant)
  owner, recursion,  \* XMutant::owning_thread_, recursion_count_
  fifo,              \* CooperativeWaiterFifo::waiters_
  moved, pulsed,
  waitObject,        \* cooperative_wait_object is set
  blocked,           \* linked in the blocked list of its CPU
  terminatePending,
  cpu,               \* the CPU of each fiber
  on,                \* the fiber a CPU runs
  hasBlocked, repollNow,
  lock,              \* the fiber inside BlockCurrentThread's critical section
  pc,                \* where a fiber is in its wait
  depth,             \* how often the guest code of a fiber holds the mutant
  wake,              \* how far an actor is in WakeCooperativeWaiters
  callPc, callThread, \* a caller's Pulse or Terminate in progress
  kind               \* what the object is

objVars   == <<free, owner, recursion, fifo>>
waitVars  == <<moved, pulsed, waitObject, blocked>>
schedVars == <<on, hasBlocked, repollNow, lock>>
fiberVars == <<terminatePending, cpu, pc, depth>>
callVars  == <<callPc, callThread>>
steps == <<objVars, waitVars, schedVars, fiberVars, wake, callVars>>
vars == <<steps, kind>>

Actors == Threads \cup Callers
FiberPc == {"guest", "poll", "try", "callback", "leaveWon", "leave", "block", "park",
            "link", "parked", "relClear", "relFree", "dying", "dead"}

Limit == IF kind = "semaphore" THEN MaxPermits ELSE 1

TypeOK ==
  /\ kind \in Kinds
  /\ free \in 0..Limit
  /\ owner \in Threads \cup {NoThread} /\ recursion \in 0..(MaxDepth + 1)
  /\ fifo \in Seq(Threads)
  /\ moved \in [Threads -> BOOLEAN] /\ pulsed \in [Threads -> BOOLEAN]
  /\ waitObject \in [Threads -> BOOLEAN] /\ blocked \in [Threads -> BOOLEAN]
  /\ terminatePending \in [Threads -> BOOLEAN]
  /\ cpu \in [Threads -> Cpus]
  /\ on \in [Cpus -> Threads \cup {NoThread}]
  /\ hasBlocked \in [Cpus -> BOOLEAN] /\ repollNow \in [Cpus -> BOOLEAN]
  /\ lock \in Threads \cup {NoThread}
  /\ pc \in [Threads -> FiberPc] /\ depth \in [Threads -> 0..MaxDepth]
  /\ wake \in [Actors -> {"none", "bump", "filter", "walk"}]
  /\ callPc \in [Callers -> {"idle", "pulseSet", "pulseReset", "abandonWait",
                             "terminate"}]
  /\ callThread \in [Callers -> Threads \cup {NoThread}]

Init ==
  /\ kind \in Kinds
  /\ free = IF kind = "mutant" THEN 1 ELSE 0
  /\ owner = NoThread /\ recursion = 0 /\ fifo = <<>>
  /\ moved = [t \in Threads |-> FALSE] /\ pulsed = [t \in Threads |-> FALSE]
  /\ waitObject = [t \in Threads |-> FALSE] /\ blocked = [t \in Threads |-> FALSE]
  /\ terminatePending = [t \in Threads |-> FALSE]
  /\ cpu \in [Threads -> Cpus]
  /\ on = [c \in Cpus |-> NoThread]
  /\ hasBlocked = [c \in Cpus |-> FALSE] /\ repollNow = [c \in Cpus |-> FALSE]
  /\ lock = NoThread
  /\ pc = [t \in Threads |-> "guest"] /\ depth = [t \in Threads |-> 0]
  /\ wake = [a \in Actors |-> "none"]
  /\ callPc = [k \in Callers |-> "idle"] /\ callThread = [k \in Callers |-> NoThread]

-----------------------------------------------------------------------------
\* The fiber runs on its CPU and is not inside WakeCooperativeWaiters.
Runs(t) == on[cpu[t]] = t /\ wake[t] = "none"
Goto(t, step) == pc' = [pc EXCEPT ![t] = step]
Idle(k) == callPc[k] = "idle" /\ wake[k] = "none"
LockFree == lock = NoThread

QueuedFirst(t) == LinkHead(Unlink(fifo, t), t)   \* a bug: the newest waiter first
\* CooperativeWaiterFifo::Add and MayAcquire, and the owner's bypass of XMutant.
Queued(t) == IF t \in Elems(fifo) THEN fifo ELSE LinkTail(fifo, t)
MayAcquire(t) == fifo # <<>> => Head(fifo) = t
CooperativeMayAcquireAny(t) == TRUE        \* a bug: the queue is not consulted
CooperativeMayAcquire(t) ==
  CASE kind = "manualEvent" -> TRUE
    [] kind = "mutant" -> owner = t \/ MayAcquire(t)
    [] OTHER -> MayAcquire(t)

\* LeaveCooperativeWait of t by actor a: XSemaphore and XMutant poke the new front of
\* the queue, XEvent does not.
PokesNobody == FALSE                       \* a bug: a leaving waiter tells nobody
PokesNewFront == kind \in {"semaphore", "mutant"}
LeaveWait(a, t) ==
  /\ waitObject' = [waitObject EXCEPT ![t] = FALSE]
  /\ fifo' = Unlink(fifo, t)
  /\ wake' = [wake EXCEPT ![a] =
                IF PokesNewFront /\ Unlink(fifo, t) # <<>> THEN "bump" ELSE "none"]

\* A thread with a sample of the epoch that a later bump makes stale.
Sampled == {t \in Threads : pc[t] \in {"try", "block", "park", "link", "parked"}}
InWait == Sampled \cup {t \in Threads : pc[t] = "poll"}

-----------------------------------------------------------------------------
(* WakeCooperativeWaiters and WakeForSignal by actor a. *)

Bump(a) ==
  /\ wake[a] = "bump"
  /\ moved' = [t \in Threads |-> moved[t] \/ t \in Sampled]
  /\ wake' = [wake EXCEPT ![a] = "filter"]
  /\ UNCHANGED <<objVars, pulsed, waitObject, blocked, schedVars, fiberVars, callVars>>

\* The pre-filter reads has_blocked of every CPU without the lock.
Filter(a) ==
  /\ wake[a] = "filter"
  /\ wake' = [wake EXCEPT ![a] = IF \E c \in Cpus : hasBlocked[c] THEN "walk" ELSE "none"]
  /\ UNCHANGED <<objVars, waitVars, schedVars, fiberVars, callVars>>

\* The walk pokes every CPU with a parked waiter of this object.
Walk(a) ==
  /\ wake[a] = "walk" /\ LockFree
  /\ repollNow' = [c \in Cpus |-> \/ repollNow[c]
                                  \/ \E t \in Threads : cpu[t] = c /\ blocked[t]
                                                                   /\ waitObject[t]]
  /\ wake' = [wake EXCEPT ![a] = "none"]
  /\ UNCHANGED <<objVars, waitVars, on, hasBlocked, lock, fiberVars, callVars>>

WakeStep(a) == Bump(a) \/ Filter(a) \/ Walk(a)

-----------------------------------------------------------------------------
(* XObject::Wait on a fiber. *)

\* EnterCooperativeWait.  Only the owner of a mutant waits for it again, to recurse.
StartWait(t) ==
  /\ Runs(t) /\ pc[t] = "guest" /\ depth[t] < MaxDepth
  /\ fifo' = Queued(t)
  /\ waitObject' = [waitObject EXCEPT ![t] = TRUE]
  /\ pulsed' = [pulsed EXCEPT ![t] = FALSE]
  /\ Goto(t, "poll")
  /\ UNCHANGED <<free, owner, recursion, moved, blocked, schedVars, terminatePending,
                 cpu, depth, wake, callVars>>

\* A bug: the pulse epoch is sampled by every poll instead of once a wait.
SampleEpochWithPulse(t) ==
  /\ Runs(t) /\ pc[t] = "poll"
  /\ moved' = [moved EXCEPT ![t] = FALSE] /\ pulsed' = [pulsed EXCEPT ![t] = FALSE]
  /\ Goto(t, "try")
  /\ UNCHANGED <<objVars, waitObject, blocked, schedVars, terminatePending, cpu, depth,
                 wake, callVars>>

\* The epoch is sampled before the poll.
SampleEpoch(t) ==
  /\ Runs(t) /\ pc[t] = "poll"
  /\ moved' = [moved EXCEPT ![t] = FALSE]
  /\ Goto(t, "try")
  /\ UNCHANGED <<objVars, pulsed, waitObject, blocked, schedVars, terminatePending,
                 cpu, depth, wake, callVars>>

\* A queued APC ends the wait before the poll.
Interrupt(t) ==
  /\ Runs(t) /\ pc[t] = "poll" /\ "apc" \in Ops
  /\ Goto(t, "leave")
  /\ UNCHANGED <<objVars, waitVars, schedVars, terminatePending, cpu, depth, wake,
                 callVars>>

\* IsReenteredByCurrentThread: the owner polls a handle that is always signaled.
ReenteredByAny(t) == kind = "mutant" /\ owner # NoThread    \* a bug: any owner will do
Reentered(t) == kind = "mutant" /\ owner = t
CanTakeBlind(t) == CooperativeMayAcquire(t)   \* a bug: the primitive is not polled
CanTake(t) == CooperativeMayAcquire(t) /\ (Reentered(t) \/ free > 0)

\* A zero-timeout wait on the host primitive takes a permit, except of a manual event.
Acquire(t) ==
  /\ Runs(t) /\ pc[t] = "try"
  /\ ~pulsed[t] /\ CanTake(t)
  /\ free' = IF kind = "manualEvent" \/ Reentered(t) THEN free ELSE free - 1
  /\ Goto(t, "callback")
  /\ UNCHANGED <<owner, recursion, fifo, waitVars, schedVars, terminatePending, cpu,
                 depth, wake, callVars>>

\* A pulse since the wait began releases it whatever the primitive says now.
AcquireByPulse(t) ==
  /\ Runs(t) /\ pc[t] = "try" /\ pulsed[t]
  /\ Goto(t, "callback")
  /\ UNCHANGED <<objVars, waitVars, schedVars, terminatePending, cpu, depth, wake,
                 callVars>>

\* WaitCallback: a mutant gets its owner.
WaitCallback(t) ==
  /\ Runs(t) /\ pc[t] = "callback"
  /\ IF kind = "mutant"
     THEN /\ owner' = t
          /\ recursion' = IF owner = t THEN recursion + 1 ELSE 1
     ELSE UNCHANGED <<owner, recursion>>
  /\ Goto(t, "leaveWon")
  /\ UNCHANGED <<free, fifo, waitVars, schedVars, terminatePending, cpu, depth, wake,
                 callVars>>

\* The poll failed: park, or give up at the deadline or for an APC.
PollFails(t) ==
  /\ Runs(t) /\ pc[t] = "try"
  /\ ~pulsed[t] /\ ~CanTake(t)
  /\ \/ Goto(t, "block")
     \/ {"timeout", "apc"} \cap Ops # {} /\ Goto(t, "leave")
  /\ UNCHANGED <<objVars, waitVars, schedVars, terminatePending, cpu, depth, wake,
                 callVars>>

Leave(t) ==
  /\ Runs(t) /\ pc[t] \in {"leave", "leaveWon"}
  /\ LeaveWait(t, t)
  /\ depth' = [depth EXCEPT ![t] =
                 IF pc[t] = "leaveWon" /\ kind = "mutant" THEN @ + 1 ELSE @]
  /\ Goto(t, "guest")
  /\ UNCHANGED <<free, owner, recursion, moved, pulsed, blocked, schedVars,
                 terminatePending, cpu, callVars>>

-----------------------------------------------------------------------------
(* BlockCurrentThread, RereadyBlocked and the dispatch loop. *)

EnterBlock(t) ==
  /\ Runs(t) /\ pc[t] = "block" /\ ~terminatePending[t]
  /\ Goto(t, "park")
  /\ UNCHANGED <<objVars, waitVars, schedVars, terminatePending, cpu, depth, wake,
                 callVars>>

\* Under lock_: a signal since the sample pokes this CPU.
EpochMoved(t) == moved[t]
CompareEpoch(t) ==
  /\ Runs(t) /\ pc[t] = "park" /\ LockFree
  /\ lock' = t
  /\ repollNow' = [repollNow EXCEPT ![cpu[t]] = @ \/ EpochMoved(t)]
  /\ Goto(t, "link")
  /\ UNCHANGED <<objVars, waitVars, on, hasBlocked, terminatePending, cpu, depth, wake,
                 callVars>>

\* Still under lock_: linked, has_blocked stored last, then the fiber yields.
LinkBlocked(t) ==
  /\ Runs(t) /\ pc[t] = "link"
  /\ blocked' = [blocked EXCEPT ![t] = TRUE]
  /\ hasBlocked' = [hasBlocked EXCEPT ![cpu[t]] = TRUE]
  /\ lock' = NoThread
  /\ on' = [on EXCEPT ![cpu[t]] = NoThread]
  /\ Goto(t, "parked")
  /\ UNCHANGED <<objVars, moved, pulsed, waitObject, repollNow, terminatePending, cpu,
                 depth, wake, callVars>>

\* RereadyBlocked by the dispatch thread: the waiters in S run again.
Reready(c, S) ==
  /\ on[c] = NoThread /\ LockFree
  /\ S \subseteq {t \in Threads : cpu[t] = c /\ blocked[t]}
  /\ blocked' = [t \in Threads |-> blocked[t] /\ t \notin S]
  /\ hasBlocked' = [hasBlocked EXCEPT ![c] =
                      \E t \in Threads \ S : cpu[t] = c /\ blocked[t]]
  /\ repollNow' = [repollNow EXCEPT ![c] = FALSE]
  /\ UNCHANGED <<objVars, moved, pulsed, waitObject, on, lock, fiberVars, wake,
                 callVars>>

\* On request: those whose epoch moved, and those whose deadline passed.
Repoll(c) ==
  LET due == {t \in Threads : cpu[t] = c /\ blocked[t] /\ moved[t]}
      timed == {t \in Threads : cpu[t] = c /\ blocked[t] /\ "timeout" \in Ops}
  IN \E late \in SUBSET timed :
       /\ repollNow[c] \/ late # {}
       /\ Reready(c, due \cup late)

\* A bug: the backstop needs a request.
BackstopOnRequest(c) ==
  repollNow[c] /\ Reready(c, {t \in Threads : cpu[t] = c /\ blocked[t]})

\* Every kRepollBackstopMs: all of them.
Backstop(c) ==
  /\ \E t \in Threads : cpu[t] = c /\ blocked[t]
  /\ Reready(c, {t \in Threads : cpu[t] = c /\ blocked[t]})

\* Some ready fiber of the CPU; a parked one polls again.
Dispatch(t) ==
  /\ on[cpu[t]] = NoThread /\ ~blocked[t] /\ pc[t] # "dead"
  /\ on' = [on EXCEPT ![cpu[t]] = t]
  /\ IF pc[t] = "parked" /\ ~terminatePending[t] THEN Goto(t, "poll") ELSE UNCHANGED pc
  /\ UNCHANGED <<objVars, waitVars, hasBlocked, repollNow, lock, terminatePending, cpu,
                 depth, wake, callVars>>

\* Guest code is preempted or yields; kernel code never is.
Preempt(t) ==
  /\ Runs(t) /\ pc[t] = "guest"
  /\ on' = [on EXCEPT ![cpu[t]] = NoThread]
  /\ UNCHANGED <<objVars, waitVars, hasBlocked, repollNow, lock, fiberVars, wake,
                 callVars>>

-----------------------------------------------------------------------------
(* Signals. *)

\* XEvent::Set, XSemaphore::ReleaseSemaphore: the primitive first, the wake after it.
Signal(k) ==
  /\ Idle(k) /\ "signal" \in Ops /\ kind # "mutant"
  /\ kind = "semaphore" => free < Limit
  /\ free' = IF kind = "semaphore" THEN free + 1 ELSE 1
  /\ wake' = [wake EXCEPT ![k] = "bump"]
  /\ UNCHANGED <<owner, recursion, fifo, waitVars, schedVars, fiberVars, callVars>>

Reset(k) ==
  /\ Idle(k) /\ "reset" \in Ops /\ kind \in {"autoEvent", "manualEvent"}
  /\ free' = 0
  /\ UNCHANGED <<owner, recursion, fifo, waitVars, schedVars, fiberVars, wake, callVars>>

\* XEvent::Pulse: an auto-reset event with a waiter is set; a manual-reset event
\* releases every waiter through the pulse epoch.
Pulse(k) ==
  /\ Idle(k) /\ "pulse" \in Ops /\ kind \in {"autoEvent", "manualEvent"}
  /\ callPc' = [callPc EXCEPT ![k] =
                  IF kind = "autoEvent" /\ fifo # <<>> THEN "pulseSet" ELSE "pulseReset"]
  /\ pulsed' = [t \in Threads |-> pulsed[t] \/ (kind = "manualEvent" /\ t \in InWait)]
  /\ UNCHANGED <<objVars, moved, waitObject, blocked, schedVars, fiberVars, wake,
                 callThread>>

EndPulse(k) ==
  /\ callPc[k] \in {"pulseSet", "pulseReset"}
  /\ free' = IF callPc[k] = "pulseSet" THEN 1 ELSE 0
  /\ callPc' = [callPc EXCEPT ![k] = "idle"]
  /\ wake' = [wake EXCEPT ![k] = "bump"]
  /\ UNCHANGED <<owner, recursion, fifo, waitVars, schedVars, fiberVars, callThread>>

\* XMutant::ReleaseMutant checks the owner, and clears it before the permit is back.
ReleaseMutant(t) ==
  /\ Runs(t) /\ pc[t] = "guest" /\ depth[t] > 0
  /\ IF owner # t THEN UNCHANGED <<recursion, pc>> /\ depth' = [depth EXCEPT ![t] = 0]
     ELSE /\ recursion' = recursion - 1
          /\ IF recursion = 1 THEN Goto(t, "relClear") /\ UNCHANGED depth
             ELSE UNCHANGED pc /\ depth' = [depth EXCEPT ![t] = @ - 1]
  /\ UNCHANGED <<free, owner, fifo, waitVars, schedVars, terminatePending, cpu, wake,
                 callVars>>

ClearOwner(t) ==
  /\ Runs(t) /\ pc[t] = "relClear"
  /\ owner' = NoThread
  /\ Goto(t, "relFree")
  /\ UNCHANGED <<free, recursion, fifo, waitVars, schedVars, terminatePending, cpu,
                 depth, wake, callVars>>

FreeMutant(t) ==
  /\ Runs(t) /\ pc[t] = "relFree"
  /\ free' = 1
  /\ depth' = [depth EXCEPT ![t] = 0]
  /\ wake' = [wake EXCEPT ![t] = "bump"]
  /\ Goto(t, "guest")
  /\ UNCHANGED <<owner, recursion, fifo, waitVars, schedVars, terminatePending, cpu,
                 callVars>>

-----------------------------------------------------------------------------
(* XThread::Terminate of a fiber by caller k, and ExitIfTerminated. *)

\* AbandonAllOwnedByThread.
Terminate(k, t) ==
  /\ Idle(k) /\ "terminate" \in Ops /\ pc[t] # "dead" /\ ~terminatePending[t]
  /\ IF kind = "mutant" /\ owner = t
     THEN /\ owner' = NoThread /\ recursion' = 0 /\ free' = 1
          /\ wake' = [wake EXCEPT ![k] = "bump"]
     ELSE UNCHANGED <<owner, recursion, free, wake>>
  /\ callPc' = [callPc EXCEPT ![k] = "abandonWait"]
  /\ callThread' = [callThread EXCEPT ![k] = t]
  /\ UNCHANGED <<fifo, waitVars, schedVars, fiberVars>>

\* AbandonCooperativeWait.
AbandonWait(k) ==
  /\ callPc[k] = "abandonWait" /\ wake[k] = "none"
  /\ IF waitObject[callThread[k]] THEN LeaveWait(k, callThread[k])
                                  ELSE UNCHANGED <<waitObject, fifo, wake>>
  /\ callPc' = [callPc EXCEPT ![k] = "terminate"]
  /\ UNCHANGED <<free, owner, recursion, moved, pulsed, blocked, schedVars, fiberVars,
                 callThread>>

\* GuestScheduler::TerminateThread: a parked fiber is dispatched so that it exits.
TerminateThread(k) ==
  /\ callPc[k] = "terminate" /\ wake[k] = "none" /\ LockFree
  /\ terminatePending' = [terminatePending EXCEPT ![callThread[k]] = TRUE]
  /\ blocked' = [blocked EXCEPT ![callThread[k]] = FALSE]
  /\ callPc' = [callPc EXCEPT ![k] = "idle"]
  /\ callThread' = [callThread EXCEPT ![k] = NoThread]
  /\ UNCHANGED <<objVars, moved, pulsed, waitObject, schedVars, cpu, pc, depth, wake>>

\* At a safepoint, before a park and after one.  The registration may be newer than the
\* one Terminate abandoned, so it is abandoned again.
AbandonOnce(t) == UNCHANGED <<waitObject, fifo, wake>>    \* a bug: not again
AbandonAgain(t) ==
  IF waitObject[t] THEN LeaveWait(t, t) ELSE UNCHANGED <<waitObject, fifo, wake>>

ExitIfTerminated(t) ==
  /\ Runs(t) /\ pc[t] \in {"guest", "block", "parked"} /\ terminatePending[t]
  /\ AbandonAgain(t)
  /\ Goto(t, "dying")
  /\ UNCHANGED <<free, owner, recursion, moved, pulsed, blocked, schedVars,
                 terminatePending, cpu, depth, callVars>>

FinalYield(t) ==
  /\ Runs(t) /\ pc[t] = "dying"
  /\ Goto(t, "dead")
  /\ depth' = [depth EXCEPT ![t] = 0]
  /\ on' = [on EXCEPT ![cpu[t]] = NoThread]
  /\ UNCHANGED <<objVars, waitVars, hasBlocked, repollNow, lock, terminatePending, cpu,
                 wake, callVars>>

-----------------------------------------------------------------------------
\* Kernel code of a fiber, which runs to its end once entered.
KernelStep(t) ==
  \/ WakeStep(t) \/ SampleEpoch(t) \/ Interrupt(t) \/ Acquire(t) \/ AcquireByPulse(t)
  \/ WaitCallback(t) \/ PollFails(t) \/ Leave(t) \/ EnterBlock(t) \/ CompareEpoch(t)
  \/ LinkBlocked(t) \/ ClearOwner(t) \/ FreeMutant(t) \/ ExitIfTerminated(t)
  \/ FinalYield(t)

GuestStep(t) == StartWait(t) \/ ReleaseMutant(t) \/ Preempt(t)
CallerStep(k) ==
  \/ WakeStep(k) \/ EndPulse(k) \/ AbandonWait(k) \/ TerminateThread(k)
NewCall(k) ==
  \/ Signal(k) \/ Reset(k) \/ Pulse(k) \/ \E t \in Threads : Terminate(k, t)

Step ==
  \/ \E t \in Threads : KernelStep(t) \/ GuestStep(t) \/ Dispatch(t)
  \/ \E c \in Cpus : Repoll(c) \/ Backstop(c)
  \/ \E k \in Callers : CallerStep(k) \/ NewCall(k)

Next == Step /\ UNCHANGED kind

Spec == Init /\ [][Next]_vars
=============================================================================
