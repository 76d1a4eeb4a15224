--------------------------- MODULE GuestScheduler ---------------------------
(***************************************************************************)
(* The cooperative guest scheduler of kernel/guest_scheduler.{h,cc}.       *)
(*                                                                         *)
(* Every guest CPU has one dispatch host thread (RunLoop).  A guest thread *)
(* is a fiber that some dispatch thread switches to; the fiber and the     *)
(* loop share one host thread, so one pc per CPU describes both.  Callers  *)
(* are the other threads (host threads, or fibers of other CPUs) that      *)
(* create, suspend, resume, terminate, move or wake a thread.              *)
(*                                                                         *)
(* One action is one critical section of lock_, or one access to a field   *)
(* the code reads and writes without it.  RereadyBlocked walks a list with *)
(* lock_ held and is one step per thread: "walker" is then the CPU that    *)
(* holds the lock, and every other critical section waits.                 *)
(***************************************************************************)
EXTENDS IntrusiveList

CONSTANTS
  Cpus,          \* guest CPUs, each with a dispatch thread
  Threads,       \* fiber-backed guest threads
  Callers,       \* host threads that call into the scheduler
  Prios,         \* priority levels (32 in the code)
  Band,          \* the levels kBackgroundReadyMask admits
  Workloads,     \* sets of calls and faults the environment may make together
  MaxSuspend,    \* bound on a guest suspend count
  NoThread, NoCpu

\* What the constants have to be.
ASSUME SchedulerAssumption ==
  /\ NoThread \notin Threads
  /\ NoCpu \notin Cpus
  /\ Cpus \cap Callers = {}
  /\ Prios \subseteq 0..31 /\ Prios # {}
  /\ Band \subseteq Prios
  /\ MaxSuspend \in Nat

VARIABLES
  \* XThread::SchedulerLinks
  queued, blocked, suspended, running, linkCpu, queuedPrio,
  headRequeue,       \* preempted or repoll_preempt: TakeHeadRequeue's answer
  hasRun, terminatePending,
  \* the lists of a Cpu, guarded by lock_
  ready, readySummary, blockedList, suspendedList,
  kept,              \* the list RereadyBlocked rebuilds while it walks
  walker,            \* the CPU that holds lock_ across that walk
  \* the rest of a Cpu
  currentThread, yieldToOther, exitedThread, window,
  parked, readyEvent, repollNow,
  \* the dispatch thread: where it is, RunLoop's next and home, the pending yield kind
  pc, next, home, toLower,
  \* XThread / X_KTHREAD
  stateTerminated,   \* thread_state = KTHREAD_STATE_TERMINATED
  suspendCount, currentCpu, priority, preemptRequested,
  fiberAt,           \* where the fiber resumes when it is switched to
  reclaimed,         \* ReclaimExited has dropped the self reference
  \* a caller's current call, and the CPUs an actor still has to wake
  callPc, callThread, callCpu, toWake,
  workload           \* bound: what happens in this behaviour, one of Workloads

linkVars   == <<queued, blocked, suspended, running, linkCpu, queuedPrio,
                headRequeue, hasRun, terminatePending>>
listVars   == <<ready, readySummary, blockedList, suspendedList, kept, walker>>
cpuVars    == <<currentThread, yieldToOther, exitedThread, window>>
sleepVars  == <<parked, readyEvent, repollNow>>
loopVars   == <<pc, next, home, toLower>>
threadVars == <<stateTerminated, suspendCount, currentCpu, priority,
                preemptRequested, fiberAt, reclaimed>>
callVars   == <<callPc, callThread, callCpu>>

steps == <<linkVars, listVars, cpuVars, sleepVars, loopVars, threadVars,
           callVars, toWake>>
vars == <<steps, workload>>

CpuPc == {"loop", "reready", "dequeue", "dequeued", "migrate", "hold",
          "switchTo", "switch", "resumed",
          "guest", "enqueue", "park", "back", "reclaim", "idle", "recheck",
          "sleep", "sleepTimed", "killed"}
CallPc == {"idle", "unpark", "markReady", "enqueue", "migrate", "requeue",
           "terminate", "reclaim"}
\* Where a fiber continues when it is switched to.  "live": it is executing.
FiberAt == {"none", "fresh", "live", "yield", "wait", "hardWait", "exit",
            "crashed"}

Actors == Cpus \cup Callers
LockFree == walker = NoCpu

TypeOK ==
  /\ queued \in [Threads -> BOOLEAN] /\ blocked \in [Threads -> BOOLEAN]
  /\ suspended \in [Threads -> BOOLEAN] /\ running \in [Threads -> BOOLEAN]
  /\ linkCpu \in [Threads -> Cpus \cup {NoCpu}]
  /\ queuedPrio \in [Threads -> Prios]
  /\ headRequeue \in [Threads -> BOOLEAN] /\ hasRun \in [Threads -> BOOLEAN]
  /\ terminatePending \in [Threads -> BOOLEAN]
  /\ ready \in [Cpus -> [Prios -> Seq(Threads)]]
  /\ readySummary \in [Cpus -> SUBSET Prios]
  /\ blockedList \in [Cpus -> Seq(Threads)]
  /\ suspendedList \in [Cpus -> Seq(Threads)]
  /\ kept \in [Cpus -> Seq(Threads)]
  /\ walker \in Cpus \cup {NoCpu}
  /\ currentThread \in [Cpus -> Threads \cup {NoThread}]
  /\ yieldToOther \in [Cpus -> Threads \cup {NoThread}]
  /\ exitedThread \in [Cpus -> Threads \cup {NoThread}]
  /\ window \in [Cpus -> BOOLEAN]
  /\ parked \in [Cpus -> BOOLEAN] /\ readyEvent \in [Cpus -> BOOLEAN]
  /\ repollNow \in [Cpus -> BOOLEAN]
  /\ pc \in [Cpus -> CpuPc] /\ next \in [Cpus -> Threads \cup {NoThread}]
  /\ home \in [Cpus -> Cpus \cup {NoCpu}]
  /\ toLower \in [Cpus -> BOOLEAN]
  /\ stateTerminated \in [Threads -> BOOLEAN]
  /\ suspendCount \in [Threads -> 0..MaxSuspend]
  /\ currentCpu \in [Threads -> Cpus] /\ priority \in [Threads -> Prios]
  /\ preemptRequested \in [Threads -> BOOLEAN]
  /\ fiberAt \in [Threads -> FiberAt] /\ reclaimed \in [Threads -> BOOLEAN]
  /\ callPc \in [Callers -> CallPc]
  /\ callThread \in [Callers -> Threads \cup {NoThread}]
  /\ callCpu \in [Callers -> Cpus \cup {NoCpu}]
  /\ toWake \in [Actors -> SUBSET Cpus]
  /\ workload \in Workloads

-----------------------------------------------------------------------------
Highest(S) == CHOOSE p \in S : \A q \in S : q <= p
Lowest(S) == CHOOSE p \in S : \A q \in S : p <= q

\* The ready lists of CPU c after t left level p, and the summary after that.
ReadyWithoutNow(c, p, t) == [ready EXCEPT ![c][priority[t]] = Unlink(@, t)]
ReadyWithout(c, p, t) == [ready EXCEPT ![c][p] = Unlink(@, t)]
SummaryNeverCleared(c, p, t) == readySummary
SummaryWithout(c, p, t) ==
  IF Unlink(ready[c][p], t) = <<>> THEN [readySummary EXCEPT ![c] = @ \ {p}]
                                   ELSE readySummary

\* The fiber CPU c runs, if t linked into c's ready list at its priority outranks it.
OutrankedBy(c, t) ==
  {x \in Threads : x = currentThread[c] /\ x # t /\ priority[t] > priority[x]}

\* LinkReadyLocked on top of the lists (rdy, sum).  "take" says the caller read
\* atHead with TakeHeadRequeue, which consumes the request.
LinkReady(rdy, sum, c, t, atHead, take) ==
  /\ ready' = [rdy EXCEPT ![c][priority[t]] =
                 IF atHead THEN LinkHead(@, t) ELSE LinkTail(@, t)]
  /\ readySummary' = [sum EXCEPT ![c] = @ \cup {priority[t]}]
  /\ queuedPrio' = [queuedPrio EXCEPT ![t] = priority[t]]
  /\ headRequeue' = [x \in Threads |->
                       \/ x \in OutrankedBy(c, t)
                       \/ headRequeue[x] /\ ~(take /\ x = t)]
  /\ preemptRequested' = [x \in Threads |->
                            x \in OutrankedBy(c, t) \/ preemptRequested[x]]

\* HighestReadyExcept: the first thread other than t, from the highest level down.
HighestReadyExcept(c, t) ==
  LET levels == {p \in readySummary[c] : Elems(ready[c][p]) \ {t} # {}}
      list   == ready[c][Highest(levels)]
  IN IF levels = {} THEN NoThread
     ELSE IF list[1] # t THEN list[1] ELSE list[2]

-----------------------------------------------------------------------------
Init ==
  /\ queued = [t \in Threads |-> FALSE] /\ blocked = [t \in Threads |-> FALSE]
  /\ suspended = [t \in Threads |-> FALSE] /\ running = [t \in Threads |-> FALSE]
  /\ linkCpu = [t \in Threads |-> NoCpu]
  /\ priority = [t \in Threads |-> Lowest(Prios)]
  /\ queuedPrio = priority
  /\ headRequeue = [t \in Threads |-> FALSE] /\ hasRun = [t \in Threads |-> FALSE]
  /\ terminatePending = [t \in Threads |-> FALSE]
  /\ ready = [c \in Cpus |-> [p \in Prios |-> <<>>]]
  /\ readySummary = [c \in Cpus |-> {}]
  /\ blockedList = [c \in Cpus |-> <<>>] /\ suspendedList = [c \in Cpus |-> <<>>]
  /\ kept = [c \in Cpus |-> <<>>] /\ walker = NoCpu
  /\ currentThread = [c \in Cpus |-> NoThread]
  /\ yieldToOther = [c \in Cpus |-> NoThread]
  /\ exitedThread = [c \in Cpus |-> NoThread]
  /\ window = [c \in Cpus |-> FALSE]
  /\ parked = [c \in Cpus |-> FALSE] /\ readyEvent = [c \in Cpus |-> FALSE]
  /\ repollNow = [c \in Cpus |-> FALSE]
  /\ pc = [c \in Cpus |-> "loop"] /\ next = [c \in Cpus |-> NoThread]
  /\ home = [c \in Cpus |-> NoCpu]
  /\ toLower = [c \in Cpus |-> FALSE]
  /\ stateTerminated = [t \in Threads |-> FALSE]
  /\ suspendCount = [t \in Threads |-> 0]
  /\ \E c \in Cpus : currentCpu = [t \in Threads |-> c]
  /\ preemptRequested = [t \in Threads |-> FALSE]
  /\ fiberAt = [t \in Threads |-> "none"] /\ reclaimed = [t \in Threads |-> FALSE]
  /\ callPc = [k \in Callers |-> "idle"]
  /\ callThread = [k \in Callers |-> NoThread]
  /\ callCpu = [k \in Callers |-> NoCpu]
  /\ toWake = [a \in Actors |-> {}]
  /\ workload \in Workloads

-----------------------------------------------------------------------------
(* Critical sections shared by the dispatch threads and the callers. *)

\* EnqueueReady(t, c), called with t_current_cpu = on.  A state that already owns its
\* wake-up is left alone, and so is a running fiber of another dispatch thread.
EnqueueableTwice(t, on) ==
  ~(blocked[t] \/ suspended[t] \/ (running[t] /\ linkCpu[t] # on))
EnqueueableElsewhere(t, on) == ~(blocked[t] \/ suspended[t] \/ queued[t])
EnqueueableAlive(t, on) ==
  ~(blocked[t] \/ suspended[t] \/ queued[t] \/ terminatePending[t])
Enqueueable(t, on) ==
  ~(blocked[t] \/ suspended[t] \/ queued[t] \/ (running[t] /\ linkCpu[t] # on))

EnqueueReady(t, c, markYielder) ==
  /\ LinkReady(ready, readySummary, c, t, headRequeue[t], TRUE)
  /\ queued' = [queued EXCEPT ![t] = TRUE]
  /\ linkCpu' = [linkCpu EXCEPT ![t] = c]
  /\ yieldToOther' = IF markYielder THEN [yieldToOther EXCEPT ![c] = t]
                                    ELSE yieldToOther

\* The tail of every wake: cpus_[x].parked.load() and ready_event->Set(), off the lock.
Wake(a) ==
  \E x \in toWake[a] :
    /\ toWake' = [toWake EXCEPT ![a] = @ \ {x}]
    /\ readyEvent' = [readyEvent EXCEPT ![x] = @ \/ parked[x]]
    /\ UNCHANGED <<linkVars, listVars, cpuVars, parked, repollNow, loopVars,
                   threadVars, callVars>>

-----------------------------------------------------------------------------
(* RunLoop: the re-poll at the top of the loop. *)

\* repoll_now.exchange(false), or the timed re-poll is due, which only matters
\* while a waiter is parked.
BeginReready(c) ==
  /\ pc[c] = "loop" /\ toWake[c] = {} /\ LockFree
  /\ repollNow[c] \/ blockedList[c] # <<>>
  /\ repollNow' = [repollNow EXCEPT ![c] = FALSE]
  /\ walker' = c
  /\ pc' = [pc EXCEPT ![c] = "reready"]
  /\ UNCHANGED <<linkVars, ready, readySummary, blockedList, suspendedList, kept,
                 cpuVars, parked, readyEvent, next, home, toLower, threadVars, callVars,
                 toWake>>

SkipReready(c) ==
  /\ pc[c] = "loop" /\ toWake[c] = {} /\ ~repollNow[c]
  /\ pc' = [pc EXCEPT ![c] = "dequeue"]
  /\ UNCHANGED <<linkVars, listVars, cpuVars, sleepVars, next, home, toLower,
                 threadVars, callVars, toWake>>

\* A waiter whose gate opened, whose deadline passed or that the backstop forces.
\* It goes to its current guest CPU, which may not be the one it blocked on.
RereadyOne(c) ==
  /\ pc[c] = "reready" /\ blockedList[c] # <<>>
  /\ LET t == Head(blockedList[c])
         target == currentCpu[t]
     IN /\ blockedList' = [blockedList EXCEPT ![c] = Tail(@)]
        /\ blocked' = [blocked EXCEPT ![t] = FALSE]
        /\ queued' = [queued EXCEPT ![t] = TRUE]
        /\ linkCpu' = [linkCpu EXCEPT ![t] = target]
        /\ LinkReady(ready, readySummary, target, t, headRequeue[t], TRUE)
        /\ toWake' = [toWake EXCEPT ![c] = @ \cup ({target} \ {c})]
  /\ UNCHANGED <<suspended, running, hasRun, terminatePending, suspendedList, kept,
                 walker, cpuVars, sleepVars, loopVars, stateTerminated,
                 suspendCount, currentCpu, priority, fiberAt, reclaimed, callVars>>

\* A gated waiter that cannot have resolved yet stays parked.
KeepParked(c) ==
  /\ pc[c] = "reready" /\ blockedList[c] # <<>>
  /\ kept' = [kept EXCEPT ![c] = LinkTail(@, Head(blockedList[c]))]
  /\ blockedList' = [blockedList EXCEPT ![c] = Tail(@)]
  /\ UNCHANGED <<linkVars, ready, readySummary, suspendedList, walker, cpuVars,
                 sleepVars, loopVars, threadVars, callVars, toWake>>

EndReready(c) ==
  /\ pc[c] = "reready" /\ blockedList[c] = <<>>
  /\ blockedList' = [blockedList EXCEPT ![c] = kept[c]]
  /\ kept' = [kept EXCEPT ![c] = <<>>]
  /\ walker' = NoCpu
  /\ pc' = [pc EXCEPT ![c] = "dequeue"]
  /\ UNCHANGED <<linkVars, ready, readySummary, suspendedList, cpuVars, sleepVars,
                 next, home, toLower, threadVars, callVars, toWake>>

-----------------------------------------------------------------------------
(* RunLoop: DequeueReady and what the loop does with the thread it returns. *)

\* The levels DequeueReady chooses from: the low band while a window is open, all of
\* them if nothing in the band is ready.
Selectable(c, open) ==
  IF open /\ readySummary[c] \cap Band # {} THEN readySummary[c] \cap Band
                                           ELSE readySummary[c]

\* A voluntary yielder at the head gives way to any other ready thread, even a lower one.
Picked(c, open) ==
  LET head  == Head(ready[c][Highest(Selectable(c, open))])
      other == HighestReadyExcept(c, head)
  IN IF yieldToOther[c] = head /\ other # NoThread THEN other ELSE head

\* DequeueReady: the thread is owned (running) from here, before SwitchTo.  An open
\* window may turn out to have passed its deadline.
DequeueReady(c) ==
  /\ pc[c] = "dequeue" /\ toWake[c] = {} /\ LockFree
  /\ readySummary[c] # {}
  /\ \E open \in {window[c], FALSE} :
       LET t == Picked(c, open)
           level == IF t = Head(ready[c][Highest(Selectable(c, open))])
                    THEN Highest(Selectable(c, open)) ELSE queuedPrio[t]
       IN /\ window' = [window EXCEPT ![c] = open]
          /\ ready' = ReadyWithout(c, level, t)
          /\ readySummary' = SummaryWithout(c, level, t)
          /\ queued' = [queued EXCEPT ![t] = FALSE]
          /\ running' = [running EXCEPT ![t] = TRUE]
          /\ next' = [next EXCEPT ![c] = t]
  /\ yieldToOther' = [yieldToOther EXCEPT ![c] = NoThread]
  /\ pc' = [pc EXCEPT ![c] = "dequeued"]
  /\ UNCHANGED <<blocked, suspended, linkCpu, queuedPrio, headRequeue, hasRun,
                 terminatePending, blockedList, suspendedList, kept, walker,
                 currentThread, exitedThread, sleepVars, home, toLower, threadVars,
                 callVars, toWake>>

DequeueNothing(c) ==
  /\ pc[c] = "dequeue" /\ toWake[c] = {} /\ LockFree
  /\ readySummary[c] = {}
  /\ pc' = [pc EXCEPT ![c] = "idle"]
  /\ UNCHANGED <<linkVars, listVars, cpuVars, sleepVars, next, home, toLower,
                 threadVars, callVars, toWake>>

\* A terminated thread is run where it is, so that it can exit.
LeavesHome(c) == currentCpu[next[c]] # c /\ ~terminatePending[next[c]]
HeldSuspended(c) == suspendCount[next[c]] > 0 /\ ~terminatePending[next[c]]

\* RunLoop looks at the thread's CPU and suspend count without the lock.
Inspect(c) ==
  /\ pc[c] = "dequeued"
  /\ pc' = [pc EXCEPT ![c] = IF LeavesHome(c) THEN "migrate"
                             ELSE IF HeldSuspended(c) THEN "hold" ELSE "switchTo"]
  /\ home' = [home EXCEPT ![c] = IF LeavesHome(c) THEN currentCpu[next[c]] ELSE @]
  /\ UNCHANGED <<linkVars, listVars, cpuVars, sleepVars, next, toLower, threadVars,
                 callVars, toWake>>

\* An affinity change that landed while it was queued or running here.
MigrateHome(c) ==
  /\ pc[c] = "migrate" /\ LockFree
  /\ LET t == next[c]
     IN /\ running' = [running EXCEPT ![t] = FALSE]
        /\ queued' = [queued EXCEPT ![t] = TRUE]
        /\ linkCpu' = [linkCpu EXCEPT ![t] = home[c]]
        /\ LinkReady(ready, readySummary, home[c], t, headRequeue[t], TRUE)
        /\ toWake' = [toWake EXCEPT ![c] = {home[c]}]
  /\ pc' = [pc EXCEPT ![c] = "loop"]
  /\ next' = [next EXCEPT ![c] = NoThread]
  /\ home' = [home EXCEPT ![c] = NoCpu]
  /\ UNCHANGED <<blocked, suspended, hasRun, terminatePending, blockedList,
                 suspendedList, kept, walker, cpuVars, sleepVars, toLower,
                 stateTerminated, suspendCount, currentCpu, priority, fiberAt,
                 reclaimed, callVars>>

\* ParkSuspended reads the count and the terminate flag again under lock_.
StillHeldUnread(c) == TRUE
StillHeld(c) == HeldSuspended(c)

ParkSuspended(c) ==
  /\ pc[c] = "hold" /\ LockFree
  /\ StillHeld(c)
  /\ LET t == next[c]
     IN /\ suspended' = [suspended EXCEPT ![t] = TRUE]
        /\ linkCpu' = [linkCpu EXCEPT ![t] = c]
        /\ suspendedList' = [suspendedList EXCEPT ![c] = LinkTail(@, t)]
        /\ running' = [running EXCEPT ![t] = FALSE]
  /\ pc' = [pc EXCEPT ![c] = "loop"]
  /\ next' = [next EXCEPT ![c] = NoThread]
  /\ UNCHANGED <<queued, blocked, queuedPrio, headRequeue, hasRun,
                 terminatePending, ready, readySummary, blockedList, kept, walker,
                 cpuVars, sleepVars, home, toLower, threadVars, callVars, toWake>>

RunAfterAll(c) ==
  /\ pc[c] = "hold" /\ LockFree
  /\ ~StillHeld(c)
  /\ pc' = [pc EXCEPT ![c] = "switchTo"]
  /\ UNCHANGED <<linkVars, listVars, cpuVars, sleepVars, next, home, toLower,
                 threadVars, callVars, toWake>>

\* SwitchTo up to the end of its critical section.
SwitchTo(c) ==
  /\ pc[c] = "switchTo" /\ LockFree
  /\ exitedThread' = [exitedThread EXCEPT ![c] = NoThread]
  /\ hasRun' = [hasRun EXCEPT ![next[c]] = TRUE]
  /\ currentThread' = [currentThread EXCEPT ![c] = next[c]]
  /\ pc' = [pc EXCEPT ![c] = "switch"]
  /\ UNCHANGED <<queued, blocked, suspended, running, linkCpu, queuedPrio,
                 headRequeue, terminatePending, listVars, yieldToOther, window,
                 sleepVars, next, home, toLower, threadVars, callVars, toWake>>

\* Off the lock: thread_state = RUNNING, preempt_requested = 0, into the fiber.
EnterFiber(c) ==
  /\ pc[c] = "switch"
  /\ stateTerminated' = [stateTerminated EXCEPT ![next[c]] = FALSE]
  /\ preemptRequested' = [preemptRequested EXCEPT ![next[c]] = FALSE]
  /\ pc' = [pc EXCEPT ![c] = "resumed"]
  /\ UNCHANGED <<linkVars, listVars, cpuVars, sleepVars, next, home, toLower,
                 suspendCount, currentCpu, priority, fiberAt, reclaimed, callVars,
                 toWake>>

\* SwitchTo once the fiber has yielded back to the idle fiber.
SwitchBack(c) ==
  /\ pc[c] = "back" /\ LockFree
  /\ running' = [running EXCEPT ![next[c]] = FALSE]
  /\ currentThread' = [currentThread EXCEPT ![c] = NoThread]
  /\ next' = [next EXCEPT ![c] = NoThread]
  /\ pc' = [pc EXCEPT ![c] = IF exitedThread[c] # NoThread THEN "reclaim"
                                                           ELSE "loop"]
  /\ UNCHANGED <<queued, blocked, suspended, linkCpu, queuedPrio, headRequeue,
                 hasRun, terminatePending, listVars, yieldToOther, exitedThread,
                 window, sleepVars, home, toLower, threadVars, callVars, toWake>>

\* dead->ReclaimExited(), on the idle fiber.
Reclaim(c) ==
  /\ pc[c] = "reclaim"
  /\ reclaimed' = [reclaimed EXCEPT ![exitedThread[c]] = TRUE]
  /\ exitedThread' = [exitedThread EXCEPT ![c] = NoThread]
  /\ pc' = [pc EXCEPT ![c] = "loop"]
  /\ UNCHANGED <<linkVars, listVars, currentThread, yieldToOther, window,
                 sleepVars, next, home, toLower, stateTerminated, suspendCount,
                 currentCpu, priority, preemptRequested, fiberAt, callVars, toWake>>

-----------------------------------------------------------------------------
(* RunLoop: going to sleep. *)

\* parked is set before the queues are looked at again, so that a wake that still saw
\* it false is found by Recheck.
IdleUnparked(c) ==
  /\ pc[c] = "idle"
  /\ pc' = [pc EXCEPT ![c] = "recheck"]
  /\ UNCHANGED <<linkVars, listVars, cpuVars, sleepVars, next, home, toLower,
                 threadVars, callVars, toWake>>
IdlePark(c) ==
  /\ pc[c] = "idle"
  /\ parked' = [parked EXCEPT ![c] = TRUE]
  /\ pc' = [pc EXCEPT ![c] = "recheck"]
  /\ UNCHANGED <<linkVars, listVars, cpuVars, readyEvent, repollNow, next, home, toLower,
                 threadVars, callVars, toWake>>

WorkArrived(c) == readySummary[c] # {} \/ repollNow[c]

\* With waiters parked the sleep ends at the next timed re-poll, and before anything
\* was ever dispatched it polls.
SleepUntimed(c) == IF \A t \in Threads : ~hasRun[t] THEN "sleepTimed" ELSE "sleep"
SleepKind(c) ==
  IF blockedList[c] # <<>> \/ \A t \in Threads : ~hasRun[t] THEN "sleepTimed" ELSE "sleep"

RecheckWork(c) ==
  /\ pc[c] = "recheck" /\ LockFree
  /\ IF WorkArrived(c)
     THEN /\ parked' = [parked EXCEPT ![c] = FALSE]
          /\ pc' = [pc EXCEPT ![c] = "loop"]
     ELSE /\ pc' = [pc EXCEPT ![c] = SleepKind(c)]
          /\ UNCHANGED parked
  /\ UNCHANGED <<linkVars, listVars, cpuVars, readyEvent, repollNow, next, home, toLower,
                 threadVars, callVars, toWake>>

\* ready_event is auto-reset; a timed wait may also end without it.
WakeUp(c) ==
  /\ \/ pc[c] \in {"sleep", "sleepTimed"} /\ readyEvent[c]
     \/ pc[c] = "sleepTimed"
  /\ readyEvent' = [readyEvent EXCEPT ![c] = FALSE]
  /\ parked' = [parked EXCEPT ![c] = FALSE]
  /\ pc' = [pc EXCEPT ![c] = "loop"]
  /\ UNCHANGED <<linkVars, listVars, cpuVars, repollNow, next, home, toLower, threadVars,
                 callVars, toWake>>

-----------------------------------------------------------------------------
(* The fiber of CPU c.  self is next[c]. *)

\* ExitIfTerminated, Exit and a self-Terminate all end here: the state is set, the
\* dispatcher gets the thread, and the fiber yields for good.
ExitFiber(c) ==
  /\ stateTerminated' = [stateTerminated EXCEPT ![next[c]] = TRUE]
  /\ exitedThread' = [exitedThread EXCEPT ![c] = next[c]]
  /\ fiberAt' = [fiberAt EXCEPT ![next[c]] = "exit"]
  /\ pc' = [pc EXCEPT ![c] = "back"]
  /\ UNCHANGED <<linkVars, listVars, currentThread, yieldToOther, window, sleepVars,
                 next, home, toLower, currentCpu, priority, reclaimed, callVars, toWake>>

\* Only an uninterruptible park resumes without an ExitIfTerminated.
ExitsOnResume(c) ==
  terminatePending[next[c]] /\ fiberAt[next[c]] \in {"fresh", "yield", "wait"}

ResumeAndExit(c) ==
  /\ pc[c] = "resumed" /\ ExitsOnResume(c)
  /\ ExitFiber(c)
  /\ UNCHANGED <<suspendCount, preemptRequested>>

ResumeGuest(c) ==
  /\ pc[c] = "resumed" /\ ~ExitsOnResume(c)
  /\ fiberAt[next[c]] \in {"fresh", "yield", "wait", "hardWait"}
  /\ fiberAt' = [fiberAt EXCEPT ![next[c]] = "live"]
  /\ pc' = [pc EXCEPT ![c] = "guest"]
  /\ UNCHANGED <<linkVars, listVars, cpuVars, sleepVars, next, home, toLower,
                 stateTerminated, suspendCount, currentCpu, priority,
                 preemptRequested, reclaimed, callVars, toWake>>

\* A fiber that already made its final yield: a crashed one yields again, an exited
\* one runs past "never returns" and ends the dispatch host thread.
ResumeDead(c) ==
  /\ pc[c] = "resumed" /\ fiberAt[next[c]] \in {"exit", "crashed"}
  /\ pc' = [pc EXCEPT ![c] = IF fiberAt[next[c]] = "exit" THEN "killed" ELSE "back"]
  /\ UNCHANGED <<linkVars, listVars, cpuVars, sleepVars, next, home, toLower, threadVars,
                 callVars, toWake>>

\* YieldCurrentThread(quantumEnd, lower) up to EnqueueReady: a quantum end decays the
\* priority unless a preemption or a re-poll wake cut the slice short.
BeginYield(c, quantumEnd, lower) ==
  /\ fiberAt' = [fiberAt EXCEPT ![next[c]] = "yield"]
  /\ toLower' = [toLower EXCEPT ![c] = lower]
  /\ \E p \in Prios :
       /\ p = priority[next[c]] \/
            (quantumEnd /\ ~headRequeue[next[c]] /\ p < priority[next[c]])
       /\ priority' = [priority EXCEPT ![next[c]] = p]
  /\ pc' = [pc EXCEPT ![c] = "enqueue"]
  /\ UNCHANGED <<linkVars, listVars, cpuVars, sleepVars, home, next, stateTerminated,
                 currentCpu, reclaimed, callVars, toWake>>

\* NtYieldExecution, SpinYield and the spin-wait release.
YieldVoluntary(c) ==
  /\ pc[c] = "guest" /\ "yield" \in workload
  /\ IF terminatePending[next[c]] THEN ExitFiber(c)
     ELSE \E quantumEnd \in BOOLEAN : BeginYield(c, quantumEnd, TRUE)
  /\ UNCHANGED <<preemptRequested, suspendCount>>

\* The JIT safepoint: clears the flag and calls PreemptCurrentFiber.
Safepoint(c) ==
  /\ pc[c] = "guest" /\ preemptRequested[next[c]]
  /\ IF terminatePending[next[c]] THEN ExitFiber(c)
     ELSE BeginYield(c, TRUE, FALSE)
  /\ preemptRequested' = [preemptRequested EXCEPT ![next[c]] = FALSE]
  /\ UNCHANGED suspendCount

\* XThread::Suspend on the calling fiber.
SelfSuspend(c) ==
  /\ pc[c] = "guest" /\ "suspend" \in workload
  /\ suspendCount[next[c]] < MaxSuspend
  /\ suspendCount' = [suspendCount EXCEPT ![next[c]] = @ + 1]
  /\ IF terminatePending[next[c]] THEN ExitFiber(c)
     ELSE BeginYield(c, FALSE, TRUE)
  /\ UNCHANGED preemptRequested

EnqueueSelf(c) ==
  /\ pc[c] = "enqueue" /\ LockFree
  /\ IF Enqueueable(next[c], c)
     THEN EnqueueReady(next[c], c, toLower[c])
     ELSE UNCHANGED <<queued, linkCpu, queuedPrio, headRequeue, ready, readySummary,
                      preemptRequested, yieldToOther>>
  /\ pc' = [pc EXCEPT ![c] = "back"]
  /\ toLower' = [toLower EXCEPT ![c] = FALSE]
  /\ UNCHANGED <<blocked, suspended, running, hasRun, terminatePending, blockedList,
                 suspendedList, kept, walker, currentThread, exitedThread, window,
                 sleepVars, home, next, stateTerminated, suspendCount, currentCpu,
                 priority, fiberAt, reclaimed, callVars, toWake>>

\* BlockCurrentThread.  Whether the wait is interruptible is its caller's choice.
Block(c, interruptible) ==
  /\ pc[c] = "guest" /\ "block" \in workload
  /\ interruptible \/ "hardwait" \in workload
  /\ IF interruptible /\ terminatePending[next[c]] THEN ExitFiber(c)
     ELSE /\ fiberAt' = [fiberAt EXCEPT ![next[c]] =
                           IF interruptible THEN "wait" ELSE "hardWait"]
          /\ pc' = [pc EXCEPT ![c] = "park"]
          /\ UNCHANGED <<linkVars, listVars, cpuVars, sleepVars, next, home, toLower,
                         stateTerminated, currentCpu, priority, reclaimed,
                         callVars, toWake>>
  /\ UNCHANGED <<suspendCount, preemptRequested>>

\* Its critical section, then thread_state = WAITING.  A signal that came between the
\* failed poll and the park sets repoll_now.
ParkBlocked(c) ==
  /\ pc[c] = "park" /\ LockFree
  /\ LET t == next[c]
     IN /\ blocked' = [blocked EXCEPT ![t] = TRUE]
        /\ headRequeue' = [headRequeue EXCEPT ![t] = FALSE]
        /\ linkCpu' = [linkCpu EXCEPT ![t] = c]
        /\ blockedList' = [blockedList EXCEPT ![c] = LinkTail(@, t)]
        /\ stateTerminated' = [stateTerminated EXCEPT ![t] = FALSE]
  /\ \E poke \in BOOLEAN : repollNow' = [repollNow EXCEPT ![c] = @ \/ poke]
  /\ pc' = [pc EXCEPT ![c] = "back"]
  /\ UNCHANGED <<queued, suspended, running, queuedPrio, hasRun, terminatePending,
                 ready, readySummary, suspendedList, kept, walker, cpuVars, parked,
                 readyEvent, next, home, toLower, suspendCount, currentCpu, priority,
                 preemptRequested, fiberAt, reclaimed, callVars, toWake>>

\* XThread::Exit, or Terminate called by the thread on itself.
FiberExit(c) ==
  /\ pc[c] = "guest" /\ "exit" \in workload
  /\ ExitFiber(c)
  /\ UNCHANGED <<suspendCount, preemptRequested>>

\* HaltCrashedFiberThunk: thread_state = TERMINATED, ForgetThread(self), yield forever.
\* The running fiber is in no list, so ForgetThread only drops the CPUs' pointers.
Crash(c) ==
  /\ pc[c] = "guest" /\ "crash" \in workload /\ LockFree
  /\ LET t == next[c]
         Drop(f) == [x \in Cpus |-> IF f[x] = t THEN NoThread ELSE f[x]]
     IN /\ stateTerminated' = [stateTerminated EXCEPT ![t] = TRUE]
        /\ yieldToOther' = Drop(yieldToOther)
        /\ exitedThread' = Drop(exitedThread)
        /\ fiberAt' = [fiberAt EXCEPT ![t] = "crashed"]
  /\ pc' = [pc EXCEPT ![c] = "back"]
  /\ UNCHANGED <<linkVars, listVars, currentThread, window, sleepVars, next, home,
                 toLower, suspendCount, currentCpu, priority, preemptRequested, reclaimed,
                 callVars, toWake>>

-----------------------------------------------------------------------------
(* Calls on thread t by caller k. *)

Idle(k) == callPc[k] = "idle" /\ toWake[k] = {}
Created(t) == fiberAt[t] # "none"

Call(k, t, step) ==
  /\ callPc' = [callPc EXCEPT ![k] = step]
  /\ callThread' = [callThread EXCEPT ![k] = t]

Return(k) ==
  /\ callPc' = [callPc EXCEPT ![k] = "idle"]
  /\ callThread' = [callThread EXCEPT ![k] = NoThread]
  /\ callCpu' = [callCpu EXCEPT ![k] = NoCpu]

\* XThread::Create on the fiber path; unless created suspended it ends in MarkReady.
\* Bound: where nobody changes a priority, all threads share the lowest level.
Create(k, t, c, p) ==
  /\ Idle(k) /\ ~Created(t)
  /\ {"priority", "levels"} \cap workload # {} \/ p = Lowest(Prios)
  /\ fiberAt' = [fiberAt EXCEPT ![t] = "fresh"]
  /\ currentCpu' = [currentCpu EXCEPT ![t] = c]
  /\ priority' = [priority EXCEPT ![t] = p]
  /\ \/ Call(k, t, "markReady") /\ UNCHANGED suspendCount
     \/ /\ "suspend" \in workload /\ MaxSuspend > 0
        /\ suspendCount' = [suspendCount EXCEPT ![t] = 1]
        /\ UNCHANGED <<callPc, callThread>>
  /\ UNCHANGED <<linkVars, listVars, cpuVars, sleepVars, loopVars, stateTerminated,
                 preemptRequested, reclaimed, callCpu, toWake>>

\* XThread::Suspend of another thread: the dispatcher acts on it at its next pick-up.
Suspend(k, t) ==
  /\ Idle(k) /\ Created(t) /\ "suspend" \in workload
  /\ suspendCount[t] < MaxSuspend
  /\ suspendCount' = [suspendCount EXCEPT ![t] = @ + 1]
  /\ UNCHANGED <<linkVars, listVars, cpuVars, sleepVars, loopVars, stateTerminated,
                 currentCpu, priority, preemptRequested, fiberAt, reclaimed,
                 callVars, toWake>>

ResumableAlways(t) == TRUE
Resumable(t) == suspendCount[t] > 0

\* XThread::Resume: only the step from one to zero calls ResumeThread.
Resume(k, t) ==
  /\ Idle(k) /\ Created(t) /\ "suspend" \in workload
  /\ Resumable(t)
  /\ suspendCount' = [suspendCount EXCEPT ![t] = @ - 1]
  /\ IF suspendCount[t] = 1 THEN Call(k, t, "unpark")
                            ELSE UNCHANGED <<callPc, callThread>>
  /\ UNCHANGED <<linkVars, listVars, cpuVars, sleepVars, loopVars, stateTerminated,
                 currentCpu, priority, preemptRequested, fiberAt, reclaimed,
                 callCpu, toWake>>

\* ResumeThread's critical section.  The thread is then in no list.
ResumeThread(k) ==
  /\ callPc[k] = "unpark" /\ LockFree
  /\ LET t == callThread[k]
     IN IF suspended[t]
        THEN /\ suspendedList' = [suspendedList EXCEPT ![linkCpu[t]] = Unlink(@, t)]
             /\ suspended' = [suspended EXCEPT ![t] = FALSE]
        ELSE UNCHANGED <<suspendedList, suspended>>
  /\ Call(k, callThread[k], "markReady")
  /\ UNCHANGED <<queued, blocked, running, linkCpu, queuedPrio, headRequeue, hasRun,
                 terminatePending, ready, readySummary, blockedList, kept, walker,
                 cpuVars, sleepVars, loopVars, threadVars, callCpu, toWake>>

\* MarkReady reads thread_state and current_cpu without the lock.
MarkReady(k) ==
  /\ callPc[k] = "markReady"
  /\ LET t == callThread[k]
     IN IF stateTerminated[t] THEN Return(k)
        ELSE /\ Call(k, t, "enqueue")
             /\ callCpu' = [callCpu EXCEPT ![k] = currentCpu[t]]
  /\ UNCHANGED <<linkVars, listVars, cpuVars, sleepVars, loopVars, threadVars,
                 toWake>>

EnqueueByCaller(k) ==
  /\ callPc[k] = "enqueue" /\ LockFree
  /\ IF Enqueueable(callThread[k], NoCpu)
     THEN /\ EnqueueReady(callThread[k], callCpu[k], FALSE)
          /\ toWake' = [toWake EXCEPT ![k] = {callCpu[k]}]
     ELSE UNCHANGED <<queued, linkCpu, queuedPrio, headRequeue, ready, readySummary,
                      preemptRequested, yieldToOther, toWake>>
  /\ Return(k)
  /\ UNCHANGED <<blocked, suspended, running, hasRun, terminatePending, blockedList,
                 suspendedList, kept, walker, currentThread, exitedThread, window,
                 sleepVars, loopVars, stateTerminated, suspendCount, currentCpu,
                 priority, fiberAt, reclaimed>>

\* SetActiveCpu writes current_cpu, then MigrateForAffinity moves a queued thread.
SetActiveCpu(k, t, c) ==
  /\ Idle(k) /\ Created(t) /\ "affinity" \in workload
  /\ currentCpu[t] # c
  /\ currentCpu' = [currentCpu EXCEPT ![t] = c]
  /\ Call(k, t, "migrate")
  /\ UNCHANGED <<linkVars, listVars, cpuVars, sleepVars, loopVars, stateTerminated,
                 suspendCount, priority, preemptRequested, fiberAt, reclaimed,
                 callCpu, toWake>>

\* A thread that leaves a CPU is no longer its voluntary yielder.
YielderKept(c, t) == yieldToOther
YielderWithout(c, t) ==
  [yieldToOther EXCEPT ![c] = IF @ = t THEN NoThread ELSE @]

MigrateForAffinity(k) ==
  /\ callPc[k] = "migrate" /\ LockFree
  /\ LET t == callThread[k]
         from == linkCpu[t]
         target == currentCpu[t]
     IN IF queued[t] /\ ~running[t] /\ target # from
        THEN /\ LinkReady(ReadyWithout(from, queuedPrio[t], t),
                          SummaryWithout(from, queuedPrio[t], t),
                          target, t, headRequeue[t], TRUE)
             /\ yieldToOther' = YielderWithout(from, t)
             /\ linkCpu' = [linkCpu EXCEPT ![t] = target]
             /\ toWake' = [toWake EXCEPT ![k] = {target}]
        ELSE UNCHANGED <<linkCpu, queuedPrio, headRequeue, ready, readySummary,
                         preemptRequested, yieldToOther, toWake>>
  /\ Return(k)
  /\ UNCHANGED <<queued, blocked, suspended, running, hasRun, terminatePending,
                 blockedList, suspendedList, kept, walker, currentThread,
                 exitedThread, window, sleepVars, loopVars, stateTerminated,
                 suspendCount, currentCpu, priority, fiberAt, reclaimed>>

\* PublishPriority writes priority_, then RequeueForPriority re-links a queued thread.
PublishPriority(k, t, p) ==
  /\ Idle(k) /\ Created(t) /\ "priority" \in workload
  /\ priority[t] # p
  /\ priority' = [priority EXCEPT ![t] = p]
  /\ Call(k, t, "requeue")
  /\ UNCHANGED <<linkVars, listVars, cpuVars, sleepVars, loopVars, stateTerminated,
                 suspendCount, currentCpu, preemptRequested, fiberAt, reclaimed,
                 callCpu, toWake>>

NeedsRequeueRaised(t) == queued[t] /\ priority[t] > queuedPrio[t]
NeedsRequeue(t) == queued[t]

RequeueForPriority(k) ==
  /\ callPc[k] = "requeue" /\ LockFree
  /\ LET t == callThread[k]
         c == linkCpu[t]
     IN IF NeedsRequeue(t)
        THEN LinkReady(ReadyWithout(c, queuedPrio[t], t),
                       SummaryWithout(c, queuedPrio[t], t), c, t, FALSE, FALSE)
        ELSE UNCHANGED <<queuedPrio, headRequeue, ready, readySummary,
                         preemptRequested>>
  /\ Return(k)
  /\ UNCHANGED <<queued, blocked, suspended, running, linkCpu, hasRun,
                 terminatePending, blockedList, suspendedList, kept, walker, cpuVars,
                 sleepVars, loopVars, stateTerminated, suspendCount, currentCpu,
                 priority, fiberAt, reclaimed, toWake>>

\* XThread::Terminate of another fiber-backed thread marks it, then calls the scheduler.
Terminate(k, t) ==
  /\ Idle(k) /\ Created(t) /\ "terminate" \in workload
  /\ stateTerminated' = [stateTerminated EXCEPT ![t] = TRUE]
  /\ Call(k, t, "terminate")
  /\ UNCHANGED <<linkVars, listVars, cpuVars, sleepVars, loopVars, suspendCount,
                 currentCpu, priority, preemptRequested, fiberAt, reclaimed, callCpu,
                 toWake>>

\* Running: forced to a safepoint.
TerminateRunning(t) ==
  /\ running[t]
  /\ preemptRequested' = [preemptRequested EXCEPT ![t] = TRUE]
  /\ UNCHANGED <<queued, blocked, suspended, queuedPrio, headRequeue, ready,
                 readySummary, blockedList, suspendedList>>

\* Parked: dispatched, at the head of its level, so that it exits on its own stack.
Unpark(t) ==
  /\ ~running[t] /\ (blocked[t] \/ suspended[t])
  /\ IF blocked[t]
     THEN /\ blockedList' = [blockedList EXCEPT ![linkCpu[t]] = Unlink(@, t)]
          /\ UNCHANGED suspendedList
     ELSE /\ suspendedList' = [suspendedList EXCEPT ![linkCpu[t]] = Unlink(@, t)]
          /\ UNCHANGED blockedList
  /\ blocked' = [blocked EXCEPT ![t] = FALSE]
  /\ suspended' = [suspended EXCEPT ![t] = FALSE]

TerminateParked(t) ==
  /\ Unpark(t)
  /\ queued' = [queued EXCEPT ![t] = TRUE]
  /\ LinkReady(ready, readySummary, linkCpu[t], t, TRUE, FALSE)

\* Queued, exited or crashed: left to its dispatcher.  Never run and in no list: the
\* caller may free it.
TerminateUnparked(t) ==
  /\ ~running[t] /\ ~blocked[t] /\ ~suspended[t]
  /\ UNCHANGED <<queued, blocked, suspended, queuedPrio, headRequeue, ready,
                 readySummary, blockedList, suspendedList, preemptRequested>>

NeverRanMaybeQueued(t) ==
  ~(running[t] \/ blocked[t] \/ suspended[t] \/ hasRun[t])
NeverRan(t) ==
  ~(running[t] \/ blocked[t] \/ suspended[t] \/ queued[t] \/ hasRun[t])

TerminateThread(k) ==
  /\ callPc[k] = "terminate" /\ LockFree
  /\ LET t == callThread[k]
         parkedHere == ~running[t] /\ (blocked[t] \/ suspended[t])
     IN /\ terminatePending' = [terminatePending EXCEPT ![t] = TRUE]
        /\ TerminateRunning(t) \/ TerminateParked(t) \/ TerminateUnparked(t)
        /\ toWake' = [toWake EXCEPT ![k] = IF parkedHere THEN {linkCpu[t]} ELSE {}]
        /\ IF NeverRan(t) THEN Call(k, t, "reclaim") /\ UNCHANGED callCpu
                       ELSE Return(k)
  /\ UNCHANGED <<running, linkCpu, hasRun, kept, walker, cpuVars, sleepVars, loopVars,
                 stateTerminated, suspendCount, currentCpu, priority, fiberAt,
                 reclaimed>>

ReclaimByCaller(k) ==
  /\ callPc[k] = "reclaim"
  /\ reclaimed' = [reclaimed EXCEPT ![callThread[k]] = TRUE]
  /\ Return(k)
  /\ UNCHANGED <<linkVars, listVars, cpuVars, sleepVars, loopVars, stateTerminated,
                 suspendCount, currentCpu, priority, preemptRequested, fiberAt,
                 toWake>>

\* Sets headRequeue (repoll_preempt) and the preempt flag of the fibers in S.
Bump(S) ==
  /\ headRequeue' = [x \in Threads |-> x \in S \/ headRequeue[x]]
  /\ preemptRequested' = [x \in Threads |-> x \in S \/ preemptRequested[x]]

\* WakeAll and WakeForSignal: the CPUs in S hold a waiter of what was signalled, and
\* the fibers in B are outranked by one.
WakeForSignal(k, S) ==
  /\ Idle(k) /\ LockFree /\ "wake" \in workload
  /\ S # {} /\ \A c \in S : blockedList[c] # <<>>
  /\ repollNow' = [c \in Cpus |-> c \in S \/ repollNow[c]]
  /\ \E watcher \in [S -> Threads] :
       /\ \A c \in S : watcher[c] \in Elems(blockedList[c])
       /\ Bump({x \in Threads : \E c \in S :
                  x = currentThread[c] /\ priority[watcher[c]] > priority[x]})
  /\ toWake' = [toWake EXCEPT ![k] = S]
  /\ UNCHANGED <<queued, blocked, suspended, running, linkCpu, queuedPrio, hasRun,
                 terminatePending, listVars, cpuVars, parked, readyEvent, loopVars,
                 stateTerminated, suspendCount, currentCpu, priority, fiberAt,
                 reclaimed, callVars>>

\* The vblank hook opens a window on the CPUs in S and bumps the runners it locks out.
EnterBackgroundMode(k, S) ==
  /\ Idle(k) /\ LockFree /\ "background" \in workload
  /\ S # {}
  /\ window' = [c \in Cpus |-> c \in S \/ window[c]]
  /\ Bump({x \in Threads : \E c \in S :
             /\ x = currentThread[c] /\ priority[x] \notin Band
             /\ readySummary[c] \cap Band # {}})
  /\ UNCHANGED <<queued, blocked, suspended, running, linkCpu, queuedPrio, hasRun,
                 terminatePending, listVars, currentThread, yieldToOther,
                 exitedThread, sleepVars, loopVars, stateTerminated, suspendCount,
                 currentCpu, priority, fiberAt, reclaimed, callVars, toWake>>

OverdueOnce(c) ==
  currentThread[c] # NoThread /\ ~headRequeue[currentThread[c]]
Overdue(c) == currentThread[c] # NoThread

\* WatchdogLoop: the fiber of c outlived its slice.
Watchdog(c) ==
  /\ LockFree /\ "watchdog" \in workload
  /\ Overdue(c)
  /\ preemptRequested' = [preemptRequested EXCEPT ![currentThread[c]] = TRUE]
  /\ UNCHANGED <<linkVars, listVars, cpuVars, sleepVars, loopVars, stateTerminated,
                 suspendCount, currentCpu, priority, fiberAt, reclaimed, callVars,
                 toWake>>

-----------------------------------------------------------------------------
\* What the dispatch thread does by itself.
LoopStep(c) ==
  \/ Wake(c) \/ BeginReready(c) \/ SkipReready(c) \/ RereadyOne(c) \/ KeepParked(c)
  \/ EndReready(c) \/ DequeueReady(c) \/ DequeueNothing(c) \/ Inspect(c)
  \/ MigrateHome(c) \/ ParkSuspended(c) \/ RunAfterAll(c) \/ SwitchTo(c)
  \/ EnterFiber(c) \/ SwitchBack(c) \/ Reclaim(c) \/ IdlePark(c) \/ RecheckWork(c)
  \/ WakeUp(c)

\* What the fiber does once it has started to leave the guest code.
FiberStep(c) ==
  \/ ResumeAndExit(c) \/ ResumeGuest(c) \/ ResumeDead(c) \/ EnqueueSelf(c)
  \/ ParkBlocked(c) \/ Safepoint(c)

\* What guest code chooses to do.
GuestStep(c) ==
  \/ YieldVoluntary(c) \/ SelfSuspend(c) \/ FiberExit(c) \/ Crash(c)
  \/ \E interruptible \in BOOLEAN : Block(c, interruptible)

\* The rest of a call a caller has begun.
CallStep(k) ==
  \/ Wake(k) \/ ResumeThread(k) \/ MarkReady(k) \/ EnqueueByCaller(k)
  \/ MigrateForAffinity(k) \/ RequeueForPriority(k) \/ TerminateThread(k)
  \/ ReclaimByCaller(k)

NewCall(k) ==
  \/ \E t \in Threads :
       \/ \E c \in Cpus, p \in Prios : Create(k, t, c, p)
       \/ Suspend(k, t) \/ Resume(k, t) \/ Terminate(k, t)
       \/ \E c \in Cpus : SetActiveCpu(k, t, c)
       \/ \E p \in Prios : PublishPriority(k, t, p)
  \/ \E S \in SUBSET Cpus : WakeForSignal(k, S) \/ EnterBackgroundMode(k, S)

Step ==
  \/ \E c \in Cpus : LoopStep(c) \/ FiberStep(c) \/ GuestStep(c) \/ Watchdog(c)
  \/ \E k \in Callers : CallStep(k) \/ NewCall(k)

Next == Step /\ UNCHANGED workload

Spec == Init /\ [][Next]_vars
=============================================================================
