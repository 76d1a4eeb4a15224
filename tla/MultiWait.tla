------------------------------ MODULE MultiWait ------------------------------
(***************************************************************************)
(* Waits on several dispatcher objects at once (XObject::WaitMultiple,     *)
(* kernel/xobject.cc) beside waits on one of them, and the part of the     *)
(* GuestScheduler that parks and re-polls such a waiter.                   *)
(*                                                                         *)
(* A wait on several objects is in no object's queue.  It polls the host   *)
(* primitives all at once and, when that fails, parks gated on the sum of  *)
(* the signal epochs of its whole set, or ungated when the set holds an    *)
(* object whose signals move no epoch.  Epochs only grow and are only      *)
(* compared with an earlier sample: moved[t] stands for "the sum differs   *)
(* from the one t sampled", pulsed[t] for the objects whose pulse epoch    *)
(* moved since t's wait began.                                             *)
(***************************************************************************)
EXTENDS IntrusiveList

CONSTANTS
  Threads, Callers,  \* fibers that wait; host threads that signal
  Cpus, CpuOf,       \* dispatch threads, and the one of each fiber
  Objects, KindOf,   \* and what each is, see ObjectKinds
  Waits,             \* the waits a fiber may ask for, see Wait
  MaxPermits,        \* limit of a semaphore
  MaxDepth,          \* bound on the recursion of a mutant
  Ops,               \* of "signal", "reset", "pulse", "timeout" (and APCs), "release"
  None

ObjectKinds == {"autoEvent", "manualEvent", "semaphore", "mutant", "other"}
Shapes == {"single", "any", "all"}
Wait == [shape : Shapes, of : Seq(Objects)]

\* What the constants have to be.
MultiWaitAssumption ==
  /\ CpuOf \in [Threads -> Cpus] /\ KindOf \in [Objects -> ObjectKinds]
  /\ Waits \subseteq Wait
  /\ \A w \in Waits : w.of # <<>> /\ (w.shape = "single" => Len(w.of) = 1)
  /\ None \notin Threads \cup Waits /\ Threads \cap Callers = {}
  /\ MaxPermits \in Nat \ {0} /\ MaxDepth \in Nat

VARIABLES
  free,              \* permits of each host primitive
  owner, recursion,  \* of each mutant: owning_thread_, recursion_count_
  fifo,              \* of each object: CooperativeWaiterFifo::waiters_
  wait,              \* the wait each fiber is in, or None
  moved, pulsed,
  taken,             \* the objects a poll took, whose WaitCallback is still to come
  on, blocked,       \* the fiber of each CPU; the fibers on a blocked list
  hasBlocked, repollNow,
  lock,              \* the fiber inside BlockCurrentThread's critical section
  pc,
  wake,              \* where an actor is in WakeCooperativeWaiters, and of what object
  pulsing            \* what a caller's Pulse is about to do, and to what object

objVars == <<free, owner, recursion, fifo>>
waitVars == <<wait, moved, pulsed, taken>>
schedVars == <<on, blocked, hasBlocked, repollNow, lock>>
actVars == <<wake, pulsing>>
vars == <<objVars, waitVars, schedVars, pc, actVars>>

Actors == Threads \cup Callers
NoWake == [step |-> "none", obj |-> None]
Quiet == [how |-> "none", obj |-> None]
Limit(o) == IF KindOf[o] = "semaphore" THEN MaxPermits ELSE 1
Mutants == {o \in Objects : KindOf[o] = "mutant"}

TypeOK ==
  /\ \A o \in Objects : free[o] \in 0..Limit(o)
  /\ owner \in [Objects -> Threads \cup {None}]
  /\ recursion \in [Objects -> Nat]
  /\ fifo \in [Objects -> Seq(Threads)]
  /\ wait \in [Threads -> Waits \cup {None}]
  /\ moved \in [Threads -> BOOLEAN] /\ pulsed \in [Threads -> SUBSET Objects]
  /\ taken \in [Threads -> Seq(Objects)]
  /\ on \in [Cpus -> Threads \cup {None}] /\ blocked \subseteq Threads
  /\ hasBlocked \subseteq Cpus /\ repollNow \subseteq Cpus
  /\ lock \in Threads \cup {None}
  /\ pc \in [Threads -> {"guest", "poll", "try", "callback", "leave", "park", "link",
                         "parked", "relClear", "relFree"}]
  /\ wake \in [Actors -> [step : {"none", "bump", "filter", "walk"},
                          obj : Objects \cup {None}]]
  /\ pulsing \in [Callers -> [how : {"none", "set", "reset", "open"},
                              obj : Objects \cup {None}]]

Init ==
  /\ free = [o \in Objects |-> IF KindOf[o] = "mutant" THEN 1 ELSE 0]
  /\ owner = [o \in Objects |-> None] /\ recursion = [o \in Objects |-> 0]
  /\ fifo = [o \in Objects |-> <<>>]
  /\ wait = [t \in Threads |-> None] /\ moved = [t \in Threads |-> FALSE]
  /\ pulsed = [t \in Threads |-> {}] /\ taken = [t \in Threads |-> <<>>]
  /\ on = [c \in Cpus |-> None] /\ blocked = {} /\ hasBlocked = {} /\ repollNow = {}
  /\ lock = None /\ pc = [t \in Threads |-> "guest"]
  /\ wake = [a \in Actors |-> NoWake] /\ pulsing = [k \in Callers |-> Quiet]

-----------------------------------------------------------------------------
Runs(t) == on[CpuOf[t]] = t /\ wake[t] = NoWake
Idle(k) == pulsing[k] = Quiet /\ wake[k] = NoWake
Goto(t, step) == pc' = [pc EXCEPT ![t] = step]
Wakes(a, o) == wake' = [wake EXCEPT ![a] = [step |-> "bump", obj |-> o]]

Single(t) == wait[t].shape = "single"
Waited(t) == Elems(wait[t].of)
First(t) == Head(wait[t].of)

\* A bug: a set is gated whatever its members.
GatesAnySet(t) == Len(wait[t].of) <= 8
\* Only sets of up to 8 objects whose signals bump an epoch are gated.
GateCount == 8
Gateable(o) == KindOf[o] # "other"
Gated(t) == Len(wait[t].of) <= GateCount /\ \A o \in Waited(t) : Gateable(o)

\* A bug: the sum is sampled after the poll, so that what came in between counts as seen.
\* Those whose sample of the sum a later bump makes stale.
SampledAfterPoll(t) == pc[t] \in {"link", "parked"}
Sampled(t) == pc[t] \in {"try", "park", "link", "parked"}

\* CooperativeMayAcquire: the queue of a single waiter.  A wait on several is in none.
MayAcquire(t, o) ==
  \/ KindOf[o] \in {"manualEvent", "other"} \/ owner[o] = t
  \/ fifo[o] = <<>> \/ Head(fifo[o]) = t

\* GetWaitHandleForCurrentThread: a mutant of the caller counts as signaled.
Reentered(t, o) == owner[o] = t
Signaled(t, o) == Reentered(t, o) \/ free[o] > 0

\* The host poll tries to lock each primitive of the array, and starts over when one is
\* locked: it never gets past an object that is listed twice.
Twice(t) ==
  \E i, j \in DOMAIN wait[t].of :
    i # j /\ wait[t].of[i] = wait[t].of[j] /\ ~Reentered(t, wait[t].of[i])

\* What the poll takes: the first of the array that is signaled, or all of them if all
\* are.
FirstSignaled(t) ==
  LET i == CHOOSE i \in DOMAIN wait[t].of :
             /\ Signaled(t, wait[t].of[i])
             /\ \A j \in 1..(i - 1) : ~Signaled(t, wait[t].of[j])
  IN wait[t].of[i]
\* A bug: WaitAll takes what there is and leaves the rest.
SatisfiedByOne(t) == \E o \in Waited(t) : Signaled(t, o)
Satisfied(t) ==
  CASE wait[t].shape = "single" -> MayAcquire(t, First(t)) /\ Signaled(t, First(t))
    [] wait[t].shape = "any" -> \E o \in Waited(t) : Signaled(t, o)
    [] wait[t].shape = "all" -> \A o \in Waited(t) : Signaled(t, o)
Takes(t) == IF wait[t].shape = "any" THEN <<FirstSignaled(t)>> ELSE wait[t].of
\* The pulse epoch releases a single waiter and a WaitAny, never a WaitAll.
ByPulse(t) == wait[t].shape # "all" /\ pulsed[t] # {}

-----------------------------------------------------------------------------
(* WakeCooperativeWaiters and WakeForSignal by actor a. *)

\* A bug: the bump moves the gate of single waiters only.
BumpSingle(a) ==
  /\ wake[a].step = "bump"
  /\ moved' = [t \in Threads |->
                 moved[t] \/ (Sampled(t) /\ wake[a].obj = First(t) /\ Single(t))]
  /\ wake' = [wake EXCEPT ![a].step = "filter"]
  /\ UNCHANGED <<objVars, wait, pulsed, taken, schedVars, pc, pulsing>>
Bump(a) ==
  /\ wake[a].step = "bump"
  /\ moved' = [t \in Threads |-> moved[t] \/ (Sampled(t) /\ wake[a].obj \in Waited(t))]
  /\ wake' = [wake EXCEPT ![a].step = "filter"]
  /\ UNCHANGED <<objVars, wait, pulsed, taken, schedVars, pc, pulsing>>

Filter(a) ==
  /\ wake[a].step = "filter"
  /\ wake' = [wake EXCEPT ![a] = IF hasBlocked # {} THEN [@ EXCEPT !.step = "walk"]
                                                    ELSE NoWake]
  /\ UNCHANGED <<objVars, waitVars, schedVars, pc, pulsing>>

\* Pokes the CPUs where a parked waiter's object or gated set has this object.
Watches(t, o) == (Single(t) \/ Gated(t)) /\ o \in Waited(t)
Walk(a) ==
  /\ wake[a].step = "walk" /\ lock = None
  /\ LET watchers == {t \in blocked : Watches(t, wake[a].obj)}
     IN repollNow' = repollNow \cup {CpuOf[t] : t \in watchers}
  /\ wake' = [wake EXCEPT ![a] = NoWake]
  /\ UNCHANGED <<objVars, waitVars, on, blocked, hasBlocked, lock, pc, pulsing>>

WakeStep(a) == Bump(a) \/ Filter(a) \/ Walk(a)

-----------------------------------------------------------------------------
(* XObject::Wait and XObject::WaitMultiple on a fiber. *)

\* A single wait registers in the queue of its object, one on several in no queue.
\* Nobody waits again for a mutant it holds MaxDepth times.
StartWait(t, w) ==
  /\ Runs(t) /\ pc[t] = "guest"
  /\ \A o \in Elems(w.of) : owner[o] = t => recursion[o] < MaxDepth
  /\ wait' = [wait EXCEPT ![t] = w]
  /\ pulsed' = [pulsed EXCEPT ![t] = {}]
  /\ fifo' = IF w.shape # "single" THEN fifo
             ELSE [fifo EXCEPT ![Head(w.of)] = LinkTail(@, t)]
  /\ Goto(t, "poll")
  /\ UNCHANGED <<free, owner, recursion, moved, taken, schedVars, actVars>>

\* A bug: a poll forgets the pulses since the wait began.
SampleBoth(t) ==
  /\ Runs(t) /\ pc[t] = "poll"
  /\ moved' = [moved EXCEPT ![t] = FALSE] /\ pulsed' = [pulsed EXCEPT ![t] = {}]
  /\ Goto(t, "try")
  /\ UNCHANGED <<objVars, wait, taken, schedVars, actVars>>
\* The sum of the epochs is sampled before every poll.
SampleEpoch(t) ==
  /\ Runs(t) /\ pc[t] = "poll"
  /\ moved' = [moved EXCEPT ![t] = FALSE]
  /\ Goto(t, "try")
  /\ UNCHANGED <<objVars, wait, pulsed, taken, schedVars, actVars>>

\* An APC ends the wait before the poll.
Interrupt(t) ==
  /\ Runs(t) /\ pc[t] = "poll" /\ "timeout" \in Ops
  /\ Goto(t, "leave")
  /\ UNCHANGED <<objVars, waitVars, schedVars, actVars>>

\* A pulse since the wait began resolves it without touching a primitive.
Released(t) ==
  /\ Runs(t) /\ pc[t] = "try" /\ ByPulse(t)
  /\ Goto(t, "leave")
  /\ UNCHANGED <<objVars, waitVars, schedVars, actVars>>

\* One atomic zero-timeout wait of the host: all locks are held while permits are taken.
Consumes(t, o) == ~Reentered(t, o) /\ KindOf[o] \in {"autoEvent", "semaphore", "mutant"}
Acquire(t) ==
  /\ Runs(t) /\ pc[t] = "try" /\ ~ByPulse(t) /\ ~Twice(t) /\ Satisfied(t)
  /\ free' = [o \in Objects |->
                IF o \in Elems(Takes(t)) /\ Consumes(t, o) /\ free[o] > 0
                THEN free[o] - 1 ELSE free[o]]
  /\ taken' = [taken EXCEPT ![t] = Takes(t)]
  /\ Goto(t, "callback")
  /\ UNCHANGED <<owner, recursion, fifo, wait, moved, pulsed, schedVars, actVars>>

\* WaitCallback of each object in turn: a mutant gets its owner.
\* A bug: WaitCallback is called for the first object only.
CallbackOnce(t) == taken' = [taken EXCEPT ![t] = <<>>]
NextCallback(t) == taken' = [taken EXCEPT ![t] = Tail(@)]
WaitCallback(t) ==
  /\ Runs(t) /\ pc[t] = "callback" /\ taken[t] # <<>>
  /\ LET o == Head(taken[t])
     IN IF KindOf[o] = "mutant"
        THEN /\ owner' = [owner EXCEPT ![o] = t]
             /\ recursion' = [recursion EXCEPT ![o] = IF owner[o] = t THEN @ + 1 ELSE 1]
        ELSE UNCHANGED <<owner, recursion>>
  /\ NextCallback(t)
  /\ UNCHANGED <<free, fifo, wait, moved, pulsed, schedVars, pc, actVars>>
CallbacksDone(t) ==
  /\ Runs(t) /\ pc[t] = "callback" /\ taken[t] = <<>>
  /\ Goto(t, "leave")
  /\ UNCHANGED <<objVars, waitVars, schedVars, actVars>>

\* The poll found nothing: park, or give up.  One that spins never gets here.
PollFails(t) ==
  /\ Runs(t) /\ pc[t] = "try" /\ ~ByPulse(t) /\ ~Twice(t) /\ ~Satisfied(t)
  /\ \/ Goto(t, "park")
     \/ "timeout" \in Ops /\ Goto(t, "leave")
  /\ UNCHANGED <<objVars, waitVars, schedVars, actVars>>

\* LeaveCooperativeWait of a single waiter pokes the new front, except for events; a
\* wait on several only drops its set.
Leave(t) ==
  /\ Runs(t) /\ pc[t] = "leave"
  /\ IF Single(t)
     THEN LET o == First(t)  rest == Unlink(fifo[o], t)
          IN /\ fifo' = [fifo EXCEPT ![o] = rest]
             /\ IF KindOf[o] \in {"semaphore", "mutant"} /\ rest # <<>>
                THEN Wakes(t, o) ELSE UNCHANGED wake
     ELSE UNCHANGED <<fifo, wake>>
  /\ wait' = [wait EXCEPT ![t] = None]
  /\ Goto(t, "guest")
  /\ UNCHANGED <<free, owner, recursion, moved, pulsed, taken, schedVars, pulsing>>

-----------------------------------------------------------------------------
(* BlockCurrentThread, RereadyBlocked and the dispatch loop. *)

\* Under lock_: a set whose sum moved since the sample pokes this CPU.
MustPoll(t) == moved[t] /\ Gated(t)
CompareEpoch(t) ==
  /\ Runs(t) /\ pc[t] = "park" /\ lock = None
  /\ lock' = t
  /\ repollNow' = repollNow \cup (IF MustPoll(t) THEN {CpuOf[t]} ELSE {})
  /\ Goto(t, "link")
  /\ UNCHANGED <<objVars, waitVars, on, blocked, hasBlocked, actVars>>

LinkBlocked(t) ==
  /\ Runs(t) /\ pc[t] = "link"
  /\ blocked' = blocked \cup {t}
  /\ hasBlocked' = hasBlocked \cup {CpuOf[t]}
  /\ lock' = None
  /\ on' = [on EXCEPT ![CpuOf[t]] = None]
  /\ Goto(t, "parked")
  /\ UNCHANGED <<objVars, waitVars, repollNow, actVars>>

Parked(c) == {t \in blocked : CpuOf[t] = c}
Reready(c, S) ==
  /\ on[c] = None /\ lock = None
  /\ blocked' = blocked \ S
  /\ hasBlocked' = IF Parked(c) \subseteq S THEN hasBlocked \ {c} ELSE hasBlocked
  /\ repollNow' = repollNow \ {c}
  /\ UNCHANGED <<objVars, waitVars, on, lock, pc, actVars>>

\* On request or on the poll cadence of an ungated waiter: the ungated ones, those whose
\* sum moved, and those whose deadline passed.
Repoll(c) ==
  LET ungated == {t \in Parked(c) : ~Gated(t)}
      due == {t \in Parked(c) : moved[t]} \cup ungated
  IN \E late \in SUBSET (IF "timeout" \in Ops THEN Parked(c) ELSE {}) :
       /\ c \in repollNow \/ ungated # {} \/ late # {}
       /\ Reready(c, due \cup late)

\* A bug: the backstop waits for a request.
BackstopOnRequest(c) == c \in repollNow /\ Parked(c) # {} /\ Reready(c, Parked(c))
\* Every kRepollBackstopMs: all of them.
Backstop(c) == Parked(c) # {} /\ Reready(c, Parked(c))

Dispatch(t) ==
  /\ on[CpuOf[t]] = None /\ t \notin blocked
  /\ on' = [on EXCEPT ![CpuOf[t]] = t]
  /\ IF pc[t] = "parked" THEN Goto(t, "poll") ELSE UNCHANGED pc
  /\ UNCHANGED <<objVars, waitVars, blocked, hasBlocked, repollNow, lock, actVars>>

\* Guest code is preempted; kernel code never is.
Preempt(t) ==
  /\ Runs(t) /\ pc[t] = "guest"
  /\ on' = [on EXCEPT ![CpuOf[t]] = None]
  /\ UNCHANGED <<objVars, waitVars, blocked, hasBlocked, repollNow, lock, pc, actVars>>

-----------------------------------------------------------------------------
(* Signals. *)

\* XEvent::state_lock_.
StateLockFree(o) == \A k \in Callers : pulsing[k] # [how |-> "open", obj |-> o]

\* A bug: the limit of a semaphore is not looked at.
SignalPastLimit(k, o) ==
  /\ Idle(k) /\ "signal" \in Ops /\ KindOf[o] # "mutant"
  /\ free' = [free EXCEPT ![o] = IF KindOf[o] = "semaphore" THEN @ + 1 ELSE 1]
  /\ IF Gateable(o) THEN Wakes(k, o) ELSE UNCHANGED wake
  /\ UNCHANGED <<owner, recursion, fifo, waitVars, schedVars, pc, pulsing>>
\* The primitive first, the wake after it.  The objects of other types move no epoch.
Signal(k, o) ==
  /\ Idle(k) /\ "signal" \in Ops /\ KindOf[o] # "mutant" /\ StateLockFree(o)
  /\ KindOf[o] = "semaphore" => free[o] < Limit(o)
  /\ free' = [free EXCEPT ![o] = IF KindOf[o] = "semaphore" THEN @ + 1 ELSE 1]
  /\ IF Gateable(o) THEN Wakes(k, o) ELSE UNCHANGED wake
  /\ UNCHANGED <<owner, recursion, fifo, waitVars, schedVars, pc, pulsing>>

Events == {o \in Objects : KindOf[o] \in {"autoEvent", "manualEvent"}}
Reset(k, o) ==
  /\ Idle(k) /\ "reset" \in Ops /\ o \in Events /\ StateLockFree(o)
  /\ free' = [free EXCEPT ![o] = 0]
  /\ UNCHANGED <<owner, recursion, fifo, waitVars, schedVars, pc, actVars>>

\* XEvent::Pulse: an auto-reset event is set if its queue has a waiter; a manual-reset
\* event releases through the pulse epoch; then the host event is pulsed, under the
\* event's lock, which leaves it reset.
InWait(t) == pc[t] \in {"poll", "try", "park", "link", "parked"}
Pulse(k, o) ==
  /\ Idle(k) /\ "pulse" \in Ops /\ o \in Events
  /\ pulsing' = [pulsing EXCEPT ![k] =
       [how |-> IF KindOf[o] = "autoEvent" /\ fifo[o] # <<>> THEN "set" ELSE "reset",
        obj |-> o]]
  /\ pulsed' = [t \in Threads |->
                  IF KindOf[o] = "manualEvent" /\ InWait(t) /\ o \in Waited(t)
                  THEN pulsed[t] \cup {o} ELSE pulsed[t]]
  /\ UNCHANGED <<objVars, wait, moved, taken, schedVars, pc, wake>>

\* The host of the Posix builds sets the event, sleeps and resets it; others do both at
\* once.
OpenPulse(k) ==
  /\ pulsing[k].how = "reset" /\ StateLockFree(pulsing[k].obj)
  /\ free' = [free EXCEPT ![pulsing[k].obj] = 1]
  /\ pulsing' = [pulsing EXCEPT ![k].how = "open"]
  /\ UNCHANGED <<owner, recursion, fifo, waitVars, schedVars, pc, wake>>
EndPulse(k) ==
  /\ pulsing[k].how # "none"
  /\ pulsing[k].how # "open" => StateLockFree(pulsing[k].obj)
  /\ free' = [free EXCEPT ![pulsing[k].obj] = IF pulsing[k].how = "set" THEN 1 ELSE 0]
  /\ Wakes(k, pulsing[k].obj)
  /\ pulsing' = [pulsing EXCEPT ![k] = Quiet]
  /\ UNCHANGED <<owner, recursion, fifo, waitVars, schedVars, pc>>

\* XMutant::ReleaseMutant by its owner; the ownership is cleared before the permit.
ReleaseMutant(t, o) ==
  /\ Runs(t) /\ pc[t] = "guest" /\ "release" \in Ops /\ o \in Mutants /\ owner[o] = t
  /\ recursion' = [recursion EXCEPT ![o] = @ - 1]
  /\ IF recursion[o] = 1
     THEN Goto(t, "relClear") /\ wake' = [wake EXCEPT ![t].obj = o]
     ELSE UNCHANGED <<pc, wake>>
  /\ UNCHANGED <<free, owner, fifo, waitVars, schedVars, pulsing>>

Releasing(t) == on[CpuOf[t]] = t /\ wake[t].step = "none"
ClearOwner(t) ==
  /\ Releasing(t) /\ pc[t] = "relClear"
  /\ owner' = [owner EXCEPT ![wake[t].obj] = None]
  /\ Goto(t, "relFree")
  /\ UNCHANGED <<free, recursion, fifo, waitVars, schedVars, actVars>>
FreeMutant(t) ==
  /\ Releasing(t) /\ pc[t] = "relFree"
  /\ free' = [free EXCEPT ![wake[t].obj] = 1]
  /\ Wakes(t, wake[t].obj)
  /\ Goto(t, "guest")
  /\ UNCHANGED <<owner, recursion, fifo, waitVars, schedVars, pulsing>>

-----------------------------------------------------------------------------
KernelStep(t) ==
  \/ WakeStep(t) \/ SampleEpoch(t) \/ Interrupt(t) \/ Released(t) \/ Acquire(t)
  \/ WaitCallback(t) \/ CallbacksDone(t) \/ PollFails(t) \/ Leave(t) \/ CompareEpoch(t)
  \/ LinkBlocked(t) \/ ClearOwner(t) \/ FreeMutant(t)
GuestStep(t) ==
  \/ \E w \in Waits : StartWait(t, w)
  \/ \E o \in Objects : ReleaseMutant(t, o)
  \/ Preempt(t)
CallerStep(k) == WakeStep(k) \/ OpenPulse(k) \/ EndPulse(k)
NewCall(k) == \E o \in Objects : Signal(k, o) \/ Reset(k, o) \/ Pulse(k, o)

Next ==
  \/ \E t \in Threads : KernelStep(t) \/ GuestStep(t) \/ Dispatch(t)
  \/ \E c \in Cpus : Repoll(c) \/ Backstop(c)
  \/ \E k \in Callers : CallerStep(k) \/ NewCall(k)

Spec == Init /\ [][Next]_vars
=============================================================================
