------------------------- MODULE MultiWaitProperties -------------------------
(***************************************************************************)
(* What waits on several objects have to guarantee, over MultiWait.        *)
(***************************************************************************)
EXTENDS MultiWait, FiniteSets

\* A gated wait on several never stays parked beside objects that satisfy it without the
\* sum of its epochs having moved: BlockCurrentThread and RereadyBlocked would skip it until
\* the backstop.  A pulse in progress promises nothing.
SignalMovesGate ==
  \A t \in blocked :
    ~Single(t) /\ Gated(t) /\ Satisfied(t) /\ (\A o \in Waited(t) : StateLockFree(o)) =>
      moved[t] \/ \E a \in Actors : wake[a].step = "bump" /\ wake[a].obj \in Waited(t)

\* Who has the permit of mutant o: its owner, a thread whose poll took it and whose
\* WaitCallback has yet to come, or one that is giving it back.
HasPermit(t, o) ==
  \/ owner[o] = t \/ o \in Elems(taken[t])
  \/ pc[t] \in {"relClear", "relFree"} /\ wake[t].obj = o

\* WaitAll takes its mutants in one poll and records itself as their owner one by one,
\* beside single waits, WaitAny and releases: a permit is neither lost nor doubled.
OnePermitEach ==
  \A o \in Mutants : Cardinality({t \in Threads : HasPermit(t, o)}) + free[o] = 1

\* guest_scheduler.cc of the store of has_blocked: "epoch-read-then-store here vs
\* bump-then-load there, so at least one side always sees the other": a parked waiter
\* whose gate has moved has a wake on its way.
TakenUp(t) ==
  \/ CpuOf[t] \in repollNow
  \/ \E a \in Actors : /\ wake[a].step \in {"filter", "walk"}
                       /\ wake[a].obj \in Waited(t)
NoSleepThroughSignal == \A t \in blocked : Gated(t) /\ moved[t] => TakenUp(t)

\* xevent.cc of a pulse: "A parked cooperative waiter re-polls only after a host pulse has
\* already reset the event, so every pulse would be lost.  Deliver as a set the first
\* waiter consumes": a pulse that finds a fiber parked for its event sets it.
PulseIsDelivered ==
  [][\A k \in Callers : \A o \in Events :
       (pulsing[k] = Quiet /\ pulsing'[k].obj = o /\ KindOf[o] = "autoEvent"
        /\ \E t \in blocked : o \in Waited(t) /\ wait[t].shape # "all")
       => pulsing'[k].how = "set"]_vars

\* xevent.cc of an auto-reset event with a parked waiter: "NT wakes the first waiter
\* directly, so a later poller must not steal it."
FrontIsServed ==
  [][\A t \in Threads : \A o \in Objects :
       (KindOf[o] = "autoEvent" /\ pc[t] = "try" /\ o \in Elems(taken'[t])
        /\ taken[t] = <<>> /\ fifo[o] # <<>>)
       => Head(fifo[o]) = t]_vars

-----------------------------------------------------------------------------
(* Fairness: a running fiber, a caller in a call and a dispatch thread asked to         *)
(* re-poll run on; ready fibers are served, guest code is preempted and the backstop   *)
(* comes due again and again.                                                          *)
Fairness ==
  /\ \A t \in Threads :
       WF_vars(KernelStep(t)) /\ SF_vars(Dispatch(t)) /\ SF_vars(Preempt(t))
  /\ \A c \in Cpus : WF_vars(Repoll(c)) /\ SF_vars(Backstop(c))
  /\ \A k \in Callers : WF_vars(CallerStep(k))

FairSpec == Spec /\ Fairness

\* A wait does not last while what it waits for stays signaled: all the objects of a
\* WaitAll, or one of a WaitAny, whatever others do to the rest.
SatisfiedIsServed ==
  \A t \in Threads : []<>~(InWait(t) /\ Satisfied(t) /\ ~Twice(t))

\* A pulse of a manual-reset event releases every WaitAny that was in its wait.
PulseReleasesAny ==
  \A t \in Threads : (InWait(t) /\ ByPulse(t)) ~> pc[t] \in {"leave", "guest"}

\* A zero-timeout poll of the host primitives returns.
PollReturns == \A t \in Threads : pc[t] = "try" ~> pc[t] # "try"
=============================================================================
