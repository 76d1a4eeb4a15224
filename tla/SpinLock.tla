------------------------------- MODULE SpinLock -------------------------------
(***************************************************************************)
(* Guest spin locks and the IRQL they raise (xeKeKfAcquireSpinLock and     *)
(* xeKeKfReleaseSpinLock in kernel/xboxkrnl/xboxkrnl_threading.cc), under  *)
(* the cooperative scheduler: a fiber at DISPATCH_LEVEL keeps its dispatch *)
(* thread (PreemptCurrentFiber in kernel/guest_scheduler.cc), so whoever   *)
(* spins relies on the holder to run somewhere else.                       *)
(*                                                                         *)
(* A host thread, as the one of the timer queue, has no PCR and takes the  *)
(* APC lock of a thread with that thread's (XThread::ApcQueueContext).     *)
(*                                                                         *)
(* The ready fibers of a dispatch thread are a queue: priorities and waits *)
(* are GuestScheduler's.  A remote spinner only gives up its host thread,  *)
(* which is no step here.                                                  *)
(***************************************************************************)
EXTENDS Naturals, SequencesExt

CONSTANTS
  Fibers, Hosts, None,
  Dispatchers, DispatchOf,   \* the dispatch threads; DispatchCpuOf of a fiber's processor
  Locks, Rank,               \* the order in which the title takes them
  ApcLockOf,                 \* the apc_lock of each thread
  Ops                        \* "host", "shutdown"

Actors == Fibers \cup Hosts
ApcLocks == {ApcLockOf[f] : f \in Fibers}

ASSUME SpinAssumption ==
  /\ None \notin Actors \cup Locks /\ Fibers \cap Hosts = {}
  /\ DispatchOf \in [Fibers -> Dispatchers]
  /\ ApcLockOf \in [Fibers -> Locks] /\ Rank \in [Locks -> Nat]

VARIABLES
  owner,                 \* prcb_of_owner: whose PCR
  irql,                  \* current_irql of each PCR
  held,                  \* what an actor holds, with the IRQL to go back to, newest first
  want, target,          \* an actor in the loop: the lock; whose PCR it uses
  running, ready,        \* of each dispatch thread
  shuttingDown, stopped  \* of the scheduler; dispatch threads that have left their loop

sched == <<running, ready, stopped>>
vars == <<owner, irql, held, want, target, sched, shuttingDown>>

Dispatch == 2            \* DISPATCH_LEVEL
Held(a) == {held[a][i].lock : i \in DOMAIN held[a]}

TypeOK ==
  /\ owner \in [Locks -> Fibers \cup {None}]
  /\ irql \in [Fibers -> {0, Dispatch}]
  /\ held \in [Actors -> Seq([lock : Locks, old : {0, Dispatch}])]
  /\ want \in [Actors -> Locks \cup {None}] /\ target \in [Actors -> Fibers \cup {None}]
  /\ running \in [Dispatchers -> Fibers \cup {None}]
  /\ ready \in [Dispatchers -> Seq(Fibers)]
  /\ shuttingDown \in BOOLEAN /\ stopped \subseteq Dispatchers

Init ==
  /\ owner = [l \in Locks |-> None] /\ irql = [f \in Fibers |-> 0]
  /\ held = [a \in Actors |-> <<>>]
  /\ want = [a \in Actors |-> None]
  /\ target = [a \in Actors |-> IF a \in Fibers THEN a ELSE None]
  /\ running = [d \in Dispatchers |-> None]
  /\ ready = [d \in Dispatchers |-> SetToSeq({f \in Fibers : DispatchOf[f] = d})]
  /\ shuttingDown = FALSE /\ stopped = {}

Runs(a) == a \in Fibers => running[DispatchOf[a]] = a

-----------------------------------------------------------------------------
\* xeKeKfAcquireSpinLock.  A host thread leaves the IRQL of the PCR alone.
HostsRaiseToo(a) == TRUE         \* a bug: it does not
ChangesIrql(a) == a \in Fibers

Acquire(a, l) ==
  /\ Runs(a) /\ want[a] = None /\ l \notin Held(a)
  /\ \A k \in Held(a) : Rank[k] < Rank[l]
  /\ \/ a \in Fibers /\ UNCHANGED target
     \/ "host" \in Ops /\ a \in Hosts
          /\ \E f \in Fibers : ApcLockOf[f] = l /\ target' = [target EXCEPT ![a] = f]
  /\ want' = [want EXCEPT ![a] = l]
  /\ held' = [held EXCEPT ![a] =
                <<[lock |-> l, old |-> IF ChangesIrql(a) THEN irql[target'[a]] ELSE 0]>> \o @]
  /\ irql' = IF ChangesIrql(a) THEN [irql EXCEPT ![target'[a]] = Dispatch] ELSE irql
  /\ UNCHANGED <<owner, sched, shuttingDown>>

SwapAlways(a) ==                 \* a bug: a store where a compare and exchange is needed
  owner' = [owner EXCEPT ![want[a]] = target[a]]
SwapThread(a) ==                 \* a bug: names the host thread, not the PCR it uses
  owner[want[a]] = None /\ owner' = [owner EXCEPT ![want[a]] = a]
Swap(a) == owner[want[a]] = None /\ owner' = [owner EXCEPT ![want[a]] = target[a]]
Take(a) ==
  /\ Runs(a) /\ want[a] # None /\ Swap(a)
  /\ want' = [want EXCEPT ![a] = None]
  /\ UNCHANGED <<irql, held, target, sched, shuttingDown>>

Requeue(f) ==
  LET d == DispatchOf[f]
  IN /\ running' = [running EXCEPT ![d] = None]
     /\ ready' = [ready EXCEPT ![d] = Append(@, f)]
     /\ UNCHANGED stopped

\* The holder is on this fiber's dispatch thread, which it must be given, or on
\* one that teardown may have stopped.
AlwaysRemote(f, o) == FALSE                        \* a bug: spins on its dispatch thread
SameThread(f, o) == DispatchOf[o] = DispatchOf[f]  \* a bug: forgets about teardown
MustYield(f, o) == DispatchOf[o] = DispatchOf[f] \/ shuttingDown
SpinYield(f) ==
  /\ Runs(f) /\ want[f] # None /\ owner[want[f]] # None /\ MustYield(f, owner[want[f]])
  /\ Requeue(f) /\ UNCHANGED <<owner, irql, held, want, target, shuttingDown>>

\* xeKeKfReleaseSpinLock.
LowersAlways(a) == IF ChangesIrql(a) THEN [irql EXCEPT ![target[a]] = 0] ELSE irql   \* a bug
Lowers(a) ==
  IF ChangesIrql(a) THEN [irql EXCEPT ![target[a]] = Head(held[a]).old] ELSE irql
FreesOldest(a) == [owner EXCEPT ![Last(held[a]).lock] = None]     \* a bug
Frees(a) == [owner EXCEPT ![Head(held[a]).lock] = None]
Release(a) ==
  /\ Runs(a) /\ want[a] = None /\ held[a] # <<>>
  /\ owner' = Frees(a)
  /\ irql' = Lowers(a) /\ held' = [held EXCEPT ![a] = Tail(@)]
  /\ UNCHANGED <<want, target, sched, shuttingDown>>

-----------------------------------------------------------------------------
\* PreemptCurrentFiber, from the safepoints of guest code.
AtAnyIrql(f) == TRUE             \* a bug: a holder is switched out
Preemptible(f) == irql[f] < Dispatch \/ shuttingDown
Preempt(f) ==
  /\ Runs(f) /\ want[f] = None /\ Preemptible(f)
  /\ Requeue(f) /\ UNCHANGED <<owner, irql, held, want, target, shuttingDown>>

\* The loop of a dispatch thread.
Switch(d) ==
  /\ running[d] = None /\ d \notin stopped
  /\ IF shuttingDown THEN stopped' = stopped \cup {d} /\ UNCHANGED <<running, ready>>
     ELSE /\ ready[d] # <<>> /\ running' = [running EXCEPT ![d] = Head(ready[d])]
          /\ ready' = [ready EXCEPT ![d] = Tail(@)] /\ UNCHANGED stopped
  /\ UNCHANGED <<owner, irql, held, want, target, shuttingDown>>

Shutdown ==
  /\ "shutdown" \in Ops /\ ~shuttingDown /\ shuttingDown' = TRUE
  /\ UNCHANGED <<owner, irql, held, want, target, sched>>

Next ==
  \/ \E a \in Actors : Take(a) \/ Release(a) \/ \E l \in Locks : Acquire(a, l)
  \/ \E f \in Fibers : SpinYield(f) \/ Preempt(f)
  \/ \E d \in Dispatchers : Switch(d)
  \/ Shutdown

Spec == Init /\ [][Next]_vars

\* A lock that is free again and again is taken at last, and a holder gives back what
\* it holds, whatever it takes within.
GivesBack(a) == Release(a) /\ Len(held[a]) = 1
Fairness ==
  \A a \in Actors : SF_vars(Take(a)) /\ WF_vars(Release(a)) /\ SF_vars(GivesBack(a))

\* Guest code reaches a safepoint that may switch, and dispatch threads run.
Yields(f) == SpinYield(f) \/ Preempt(f)
TeardownFairness ==
  /\ \A f \in Fibers : SF_vars(Yields(f)) /\ WF_vars(Take(f))
  /\ \A d \in Dispatchers : WF_vars(Switch(d))

-----------------------------------------------------------------------------
\* Two actors never hold a lock at once, whosever PCR they use.
Exclusive ==
  \A l \in Locks : \A a, b \in Actors :
    l \in Held(a) /\ l \in Held(b) /\ want[a] # l /\ want[b] # l => a = b

\* Whoever holds a lock, or spins for one, stays at DISPATCH_LEVEL, and who does
\* not is back where it was: no other thread changes its IRQL.
IrqlIsOwn == \A f \in Fibers : irql[f] = IF held[f] = <<>> THEN 0 ELSE Dispatch

\* A fiber that holds a spin lock runs: those who spin for it on other dispatch
\* threads do not have to let anybody else run.
HolderRuns ==
  ~shuttingDown => \A f \in Fibers : Held(f) \ {want[f]} # {} => running[DispatchOf[f]] = f

\* What the acquisition asserts: the lock is not held in the name of its own PCR.
NotMine == [][\A a \in Actors : want[a] = None /\ want'[a] # None =>
                owner[want'[a]] # target'[a]]_vars

\* Whoever spins gets the lock, unless the scheduler is shut down.
SpinEnds == \A a \in Actors : want[a] # None ~> want[a] = None \/ shuttingDown

\* Teardown gets every dispatch thread back from its fiber, even from one that
\* spins for a lock whose holder is left on a stopped dispatch thread.
TeardownEnds == shuttingDown ~> stopped = Dispatchers
================================================================================
