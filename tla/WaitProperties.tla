---------------------------- MODULE WaitProperties ----------------------------
(***************************************************************************)
(* What cooperative waits have to guarantee, over CooperativeWait.         *)
(***************************************************************************)
EXTENDS CooperativeWait, FiniteSets

\* The threads between taking the mutant's permit and giving it back.  A terminated one
\* has lost it.
Terminating(t) ==
  \/ terminatePending[t]
  \/ \E k \in Callers : callPc[k] \in {"abandonWait", "terminate"} /\ callThread[k] = t
Holds(t) ==
  /\ ~Terminating(t)
  /\ depth[t] > 0 \/ pc[t] \in {"relClear", "relFree", "callback", "leaveWon"}

\* The permit of a mutant is with at most one thread, or back in the host primitive:
\* neither a release nor an abandon may produce a second one.
MutantHeldByOne ==
  kind = "mutant" => Cardinality({t \in Threads : Holds(t)}) + free <= 1

\* A thread that exited inside a wait is in no waiter queue: a dead entry at the front
\* gates every other waiter.
NoDeadWaiter == \A t \in Threads : pc[t] = "dead" => t \notin Elems(fifo)

\* The front waiter never stays parked beside a permit it could take without the epoch
\* having moved: every change that could satisfy it bumps the epoch.
PermitMovesEpoch ==
  \A t \in Threads : blocked[t] /\ waitObject[t] /\ CanTake(t) =>
    moved[t] \/ \E a \in Actors : wake[a] = "bump"

-----------------------------------------------------------------------------
(* Refinement: without terminations the FIFO and the host permit behave as one fair *)
(* mutex.                                                                            *)
Holder ==
  IF \E t \in Threads : Holds(t) THEN CHOOSE t \in Threads : Holds(t) ELSE NoThread
Abstract == INSTANCE FifoMutex WITH holder <- Holder, queue <- fifo

\* A mutant goes to the thread that waited longest, and to one thread at a time, although
\* waiters poll it, park and give up independently.
ImplementsFifoMutex == Abstract!Spec

-----------------------------------------------------------------------------
(* Fairness: a running fiber and a caller in a call run on; a dispatch thread serves   *)
(* every ready fiber and the watchdog preempts guest code, again and again; the        *)
(* backstop comes due for every parked waiter; a holder of a mutant releases it at     *)
(* some time.                                                                          *)
Fairness ==
  /\ \A t \in Threads :
       /\ WF_steps(KernelStep(t)) /\ SF_steps(Dispatch(t))
       /\ SF_steps(Preempt(t)) /\ SF_steps(ReleaseMutant(t))
  /\ \A c \in Cpus : SF_steps(Backstop(c))
  /\ \A k \in Callers : WF_steps(CallerStep(k))

FairSpec == Spec /\ Fairness

\* No waiter for a mutant is starved by threads that take it again and again.
MutantWaiterGetsIt ==
  \A t \in Threads :
    pc[t] = "parked" ~> (pc[t] \in {"leaveWon", "dead"} \/ kind # "mutant")

\* A set auto-reset event with a queued waiter is consumed in the end, whatever wake was
\* missed: the backstop re-polls every parked waiter.
SetIsTaken ==
  (kind = "autoEvent" /\ free > 0 /\ fifo # <<>>) ~> (free = 0 \/ fifo = <<>>)

\* A pulse of a manual-reset event releases every thread that was waiting.
PulseReleases ==
  \A t \in Threads : pc[t] = "parked" /\ pulsed[t] ~> pc[t] \in {"leaveWon", "dying"}
=============================================================================
