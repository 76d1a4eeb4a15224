------------------------- MODULE SchedulerProperties -------------------------
(***************************************************************************)
(* What the guest scheduler has to guarantee, over GuestScheduler.         *)
(***************************************************************************)
EXTENDS GuestScheduler

\* Where a dispatch thread owns its next thread, whose context is not saved yet.
Standing == {"dequeued", "migrate", "hold", "switchTo", "switch", "resumed", "guest",
             "enqueue", "park", "back", "killed"}

\* The flags of SchedulerLinks say which list a thread is on: each list holds exactly
\* the threads whose links name it, once, and a thread is on at most one list.  All
\* lists share ready_next, so one thread on two lists corrupts both.
LinksMatchLists ==
  /\ \A c \in Cpus, p \in Prios :
       /\ Distinct(ready[c][p])
       /\ Elems(ready[c][p]) =
            {t \in Threads : queued[t] /\ linkCpu[t] = c /\ queuedPrio[t] = p}
  /\ \A c \in Cpus :
       /\ Distinct(blockedList[c]) /\ Distinct(kept[c])
       /\ Elems(blockedList[c]) \cap Elems(kept[c]) = {}
       /\ Elems(blockedList[c]) \cup Elems(kept[c]) =
            {t \in Threads : blocked[t] /\ linkCpu[t] = c}
       /\ Distinct(suspendedList[c])
       /\ Elems(suspendedList[c]) = {t \in Threads : suspended[t] /\ linkCpu[t] = c}
  /\ \A t \in Threads :
       /\ ~(queued[t] /\ blocked[t]) /\ ~(queued[t] /\ suspended[t])
       /\ ~(blocked[t] /\ suspended[t])
       /\ queued[t] \/ blocked[t] \/ suspended[t] => linkCpu[t] \in Cpus

\* ready_summary has the bit of a level exactly when the level is not empty: DequeueReady
\* dereferences the head of the highest bit without looking.
SummaryExact ==
  \A c \in Cpus : readySummary[c] = {p \in Prios : ready[c][p] # <<>>}

\* A fiber's stack is used by one dispatch thread at a time, which is what links.running
\* records.  While its context is not saved the fiber is on no list, or on a list of the
\* dispatch thread it is still standing on.
OneDispatcher ==
  /\ \A c \in Cpus : pc[c] \in Standing =>
       /\ next[c] \in Threads /\ running[next[c]] /\ linkCpu[next[c]] = c
       /\ pc[c] # "back" =>
            ~queued[next[c]] /\ ~blocked[next[c]] /\ ~suspended[next[c]]
  /\ \A t \in Threads : running[t] => \E c \in Cpus : pc[c] \in Standing /\ next[c] = t
  /\ \A c, d \in Cpus :
       pc[c] \in Standing /\ pc[d] \in Standing /\ next[c] = next[d] => c = d

\* yield_to_other names a thread that is ready on that CPU: HighestReadyExcept follows
\* its ready_next, and a stale pointer would walk another list or a freed thread.
YielderIsReadyHere ==
  \A c \in Cpus : yieldToOther[c] # NoThread =>
    queued[yieldToOther[c]] /\ linkCpu[yieldToOther[c]] = c

\* A ready thread is linked at the level of its priority, or the call that changed the
\* priority has not reached RequeueForPriority yet.
QueuedAtItsPriority ==
  \A t \in Threads : queued[t] /\ queuedPrio[t] # priority[t] =>
    \E k \in Callers : callPc[k] = "requeue" /\ callThread[k] = t

\* The lists, the links of the threads, the level summaries and the priorities agree, and
\* a yield names a thread that is ready: every list shares ready_next.  A fiber's stack is
\* in use by one dispatch thread at a time (guest_scheduler.cc, LinkReadyLocked to
\* UnlinkLocked, RequeueForPriority, RunLoop, SwitchTo).
ListsConsistent ==
  TypeOK /\ LinksMatchLists /\ SummaryExact /\ QueuedAtItsPriority /\ YielderIsReadyHere
    /\ OneDispatcher

\* A dispatch thread never sleeps while it has a ready thread or a re-poll request,
\* unless its event is set or some waker is about to set it; and it never sleeps
\* without a timeout while it has a parked waiter.
NoSleepThroughWork ==
  \A c \in Cpus :
    /\ pc[c] \in {"sleep", "sleepTimed"} /\ (readySummary[c] # {} \/ repollNow[c]) =>
         readyEvent[c] \/ \E a \in Actors : c \in toWake[a]
    /\ pc[c] = "sleep" => blockedList[c] = <<>>

\* Parked as suspended with a reason: the count is not zero, or the Resume that took it
\* to zero is on its way to unpark the thread.
HeldForAReason(t) ==
  suspended[t] /\ (suspendCount[t] > 0 \/ \E k \in Callers : callPc[k] = "unpark"
                                                           /\ callThread[k] = t)

\* A call on t that ends with t in a ready list, unless t is terminated meanwhile.
BringsBack(k, t) == callThread[k] = t /\ callPc[k] \in {"unpark", "markReady", "enqueue"}

\* What can still lead to t: a list, a suspension that is still on, a dispatch thread that
\* stands on it, a resume in progress; or nothing has to, because it was not created or was
\* created suspended and never resumed, has made its final yield, or is reclaimed.
Reachable(t) ==
  \/ fiberAt[t] \in {"none", "exit", "crashed"} \/ reclaimed[t]
  \/ queued[t] \/ blocked[t] \/ HeldForAReason(t) \/ running[t]
  \/ \E k \in Callers : BringsBack(k, t)
  \/ ~hasRun[t] /\ suspendCount[t] > 0

\* No thread is lost, however many callers suspend, resume, move and wake threads: what is
\* not terminated can still be reached (guest_scheduler.cc, ParkSuspended, ResumeThread,
\* EnqueueReady, RereadyBlocked, MigrateForAffinity).
NoStrandedThread == \A t \in Threads : stateTerminated[t] \/ Reachable(t)

\* Once TerminateThread or the dispatcher let a thread be reclaimed, nothing stands on
\* its stack and no list leads to it (sched_freed_then_queued shows where it fails).
ReclaimedForGood ==
  \A t \in Threads : reclaimed[t] => ~running[t] /\ ~queued[t] /\ ~blocked[t]

\* Where one caller at a time acts on the threads, a terminated thread can still be led to
\* its exit, and one that is reclaimed is free of the scheduler, if no Resume can be in its
\* way (XThread::Terminate; guest_scheduler.cc, TerminateThread; ReclaimExited).
FreedForGood ==
  (\A j, k \in Callers : j = k) =>
    /\ \A t \in Threads : stateTerminated[t] => Reachable(t)
    /\ "suspend" \in workload \/ ReclaimedForGood

-----------------------------------------------------------------------------
(* Fairness: host threads run on (weakly fair: nobody is promised lock_ against a walk *)
(* that comes again and again), so a dispatch thread, a fiber leaving guest code, a    *)
(* caller inside a call and the watchdog all continue.  The timed re-poll              *)
(* (kRepollPollMs) comes due again and again, and its backstop (kRepollBackstopMs)     *)
(* re-readies every parked waiter: both strongly fair.  Guest code is free never to    *)
(* yield, wait or exit.                                                                *)
Fairness ==
  /\ \A c \in Cpus :
       /\ WF_steps(LoopStep(c) \/ FiberStep(c)) /\ WF_steps(Watchdog(c))
       /\ SF_steps(BeginReready(c))
       /\ \A t \in Threads :
            SF_steps(blockedList[c] # <<>> /\ Head(blockedList[c]) = t /\ RereadyOne(c))
  /\ \A k \in Callers : WF_steps(CallStep(k))

FairSpec == Spec /\ Fairness

\* Every ready thread is dispatched, however long the others on its CPU compute: no wake
\* is lost on the way to a sleeping dispatch thread, and the watchdog ends every slice.
\* A higher priority may starve a lower one, so this is about threads of one priority.
OneLevel == {"levels", "priority"} \cap workload = {}
ReadyRuns == \A t \in Threads : queued[t] /\ OneLevel ~> running[t]

\* A parked waiter polls again, even if every signal for it was missed.
ParkedPolls == \A t \in Threads : blocked[t] ~> ~blocked[t]

\* A thread that ran and is terminated from outside makes its final yield.
TerminatedExits ==
  \A t \in Threads :
    terminatePending[t] /\ hasRun[t] ~> fiberAt[t] \in {"exit", "crashed"}

\* A fiber outranked by a ready thread of its CPU gives the CPU up.
OutrankedYields ==
  \A c \in Cpus :
    pc[c] = "guest" /\ (\E p \in readySummary[c] : p > priority[next[c]])
      ~> (pc[c] # "guest" \/ \A p \in readySummary[c] : p <= priority[next[c]])

\* What is asked of a fiber takes effect: a re-poll, a termination, a preemption
\* (guest_scheduler.cc, RereadyBlocked, SafepointYield, WatchdogLoop).
FibersComply == ParkedPolls /\ TerminatedExits /\ OutrankedYields
=============================================================================
