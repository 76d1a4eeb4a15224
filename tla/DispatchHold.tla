----------------------------- MODULE DispatchHold -----------------------------
(***************************************************************************)
(* Stopping the dispatch threads of kernel/guest_scheduler.cc: a fiber     *)
(* freezes the other CPUs to run alone (FreezeOthers, Thaw), a host thread *)
(* pauses them all (PauseDispatch, ResumeDispatch), Shutdown ends them.    *)
(*                                                                         *)
(* The three share the head of RunLoop and three flags that are read       *)
(* without a lock, so every load and store of them is a step of its own.   *)
(* Which thread a CPU picks, and how it wakes for one, is the business of  *)
(* GuestScheduler; here any thread that runs nowhere may be picked.        *)
(***************************************************************************)
EXTENDS Naturals, FiniteSets

CONSTANTS
  Cpus,      \* the dispatch threads, kMaxCpus of them
  Threads,   \* fibers
  Workloads, \* sets of "freeze", "pause", "shutdown", "start", "watchdog"
  NoThread, NoCpu

ASSUME HoldAssumption ==
  NoThread \notin Threads /\ NoCpu \notin Cpus /\ IsFiniteSet(Cpus)

VARIABLES
  pc,                 \* where a dispatch thread, or the fiber on it, is
  next,               \* the thread it picked
  preemptRequested, readyEvent,
  freezer, freezerCpu, frozenCpus, thawEvent,
  capturing,          \* the fiber inside a capture of invocation_capture.cc
  dispatchPaused, quiescedMask, resumeEvent, dispatchReady,
  shuttingDown,
  apiLock,            \* who holds pause_api_lock_
  pausePc, shutPc,    \* the host threads in PauseDispatch/ResumeDispatch and Shutdown
  sessionPc,          \* the capture session's thread, which may thaw
  quiet,              \* what PauseDispatch last returned, see below
  workload            \* bound: what happens in this behaviour, one of Workloads

loopVars   == <<pc, next>>
flagVars   == <<preemptRequested, readyEvent>>
freezeVars == <<freezer, freezerCpu, frozenCpus, thawEvent, capturing, sessionPc>>
pauseVars  == <<dispatchPaused, quiescedMask, resumeEvent, apiLock, pausePc, quiet>>
startVars  == <<dispatchReady, shuttingDown, shutPc>>
steps == <<loopVars, flagVars, freezeVars, pauseVars, startVars>>
vars == <<steps, workload>>

\* The places where the fiber of a CPU executes, and those where it is current_thread.
Executing == {"guest", "store", "recheck", "settle", "thaw", "thawSet", "giveUp",
              "giveUpSet"}
Current == Executing \cup {"switch", "back"}
CpuPc == Current \cup {"off", "top", "freezerCpu", "frozen", "unfreeze", "pauseCheck",
                       "hold", "held", "unhold", "dequeue", "dequeued", "idle", "exited"}

TypeOK ==
  /\ pc \in [Cpus -> CpuPc] /\ next \in [Cpus -> Threads \cup {NoThread}]
  /\ preemptRequested \in [Threads -> BOOLEAN] /\ readyEvent \in [Cpus -> BOOLEAN]
  /\ freezer \in Threads \cup {NoThread} /\ freezerCpu \in Cpus \cup {NoCpu}
  /\ frozenCpus \in 0..Cardinality(Cpus) /\ thawEvent \in BOOLEAN
  /\ capturing \in Threads \cup {NoThread}
  /\ sessionPc \in {"idle", "set"}
  /\ dispatchPaused \in BOOLEAN /\ quiescedMask \subseteq Cpus /\ resumeEvent \in BOOLEAN
  /\ dispatchReady \in BOOLEAN /\ shuttingDown \in BOOLEAN
  /\ apiLock \in {"free", "pause", "shutdown"}
  /\ pausePc \in {"idle", "lock", "arm", "store", "armed", "raise", "poll", "resumeSet"}
  /\ shutPc \in {"idle", "thaw", "thawSet", "lock", "set", "join"}
  /\ quiet \in {"no", "settled", "assumed"}
  /\ workload \in Workloads

\* quiet: "settled" once PauseDispatch returned true because every CPU was quiesced,
\* "assumed" once it returned true without them, "no" otherwise.
\* "start": EnsureStarted has yet to create the dispatch threads.
Init ==
  /\ workload \in Workloads
  /\ pc = [c \in Cpus |-> IF "start" \in workload THEN "off" ELSE "top"]
  /\ dispatchReady = ("start" \notin workload)
  /\ next = [c \in Cpus |-> NoThread]
  /\ preemptRequested = [t \in Threads |-> FALSE] /\ readyEvent = [c \in Cpus |-> FALSE]
  /\ freezer = NoThread /\ freezerCpu = NoCpu /\ frozenCpus = 0 /\ thawEvent = TRUE
  /\ capturing = NoThread /\ sessionPc = "idle"
  /\ dispatchPaused = FALSE /\ quiescedMask = {} /\ resumeEvent = TRUE
  /\ shuttingDown = FALSE /\ apiLock = "free"
  /\ pausePc = "idle" /\ shutPc = "idle" /\ quiet = "no"

-----------------------------------------------------------------------------
Goto(c, step) == pc' = [pc EXCEPT ![c] = step]
SetAll(event) == event' = [c \in Cpus |-> TRUE]

\* The fibers that a loop over the Cpus' current_thread reaches, for the CPUs in S.
CurrentOf(S) == {t \in Threads : \E c \in S : pc[c] \in Current /\ next[c] = t}
Raise(S) ==
  preemptRequested' = [t \in Threads |-> t \in CurrentOf(S) \/ preemptRequested[t]]

\* Threads exist only once EnsureStarted is through: it runs in the Create of the first.
Ready == {t \in Threads : dispatchReady /\ \A c \in Cpus : next[c] # t}

-----------------------------------------------------------------------------
(* RunLoop on CPU c. *)

\* The loop condition and the load of freezer_.
LoopTop(c) ==
  /\ pc[c] = "top"
  /\ Goto(c, IF shuttingDown THEN "exited"
             ELSE IF freezer # NoThread THEN "freezerCpu" ELSE "pauseCheck")
  /\ UNCHANGED <<next, flagVars, freezeVars, pauseVars, startVars>>

\* The plain load of freezer_cpu_, then frozen_cpus_.fetch_add.
EnterFreeze(c) ==
  /\ pc[c] = "freezerCpu"
  /\ IF freezerCpu # c
     THEN Goto(c, "frozen") /\ frozenCpus' = frozenCpus + 1
     ELSE Goto(c, "pauseCheck") /\ UNCHANGED frozenCpus
  /\ UNCHANGED <<next, flagVars, freezer, freezerCpu, thawEvent, capturing, sessionPc,
                 pauseVars, startVars>>

ThawWaitOver(c) ==
  /\ pc[c] = "frozen" /\ thawEvent
  /\ Goto(c, "unfreeze")
  /\ UNCHANGED <<next, flagVars, freezeVars, pauseVars, startVars>>

FrozenNeverLeft == frozenCpus              \* a bug: the count only grows
FrozenLeft == frozenCpus - 1
LeaveFreeze(c) ==
  /\ pc[c] = "unfreeze"
  /\ frozenCpus' = FrozenLeft
  /\ Goto(c, "top")
  /\ UNCHANGED <<next, flagVars, freezer, freezerCpu, thawEvent, capturing, sessionPc,
                 pauseVars, startVars>>

PauseCheck(c) ==
  /\ pc[c] = "pauseCheck"
  /\ Goto(c, IF dispatchPaused THEN "hold" ELSE "dequeue")
  /\ UNCHANGED <<next, flagVars, freezeVars, pauseVars, startVars>>

\* HoldDispatchThread.
EnterHold(c) ==
  /\ pc[c] = "hold"
  /\ quiescedMask' = quiescedMask \cup {c}
  /\ Goto(c, "held")
  /\ UNCHANGED <<next, flagVars, freezeVars, dispatchPaused, resumeEvent, apiLock,
                 pausePc, quiet, startVars>>

ResumeWaitOver(c) ==
  /\ pc[c] = "held" /\ resumeEvent
  /\ Goto(c, "unhold")
  /\ UNCHANGED <<next, flagVars, freezeVars, pauseVars, startVars>>

QuiescedKept(c) == quiescedMask            \* a bug: the bit stays set
Quiesced(c) == quiescedMask \ {c}
LeaveHold(c) ==
  /\ pc[c] = "unhold"
  /\ quiescedMask' = Quiesced(c)
  /\ Goto(c, "top")
  /\ UNCHANGED <<next, flagVars, freezeVars, dispatchPaused, resumeEvent, apiLock,
                 pausePc, quiet, startVars>>

\* DequeueReady, and the wait on ready_event if it has nothing.
Dequeue(c) ==
  /\ pc[c] = "dequeue"
  /\ \/ \E t \in Ready : next' = [next EXCEPT ![c] = t] /\ Goto(c, "dequeued")
     \/ Ready = {} /\ Goto(c, "idle") /\ UNCHANGED next
  /\ UNCHANGED <<flagVars, freezeVars, pauseVars, startVars>>

IdleOver(c) ==
  /\ pc[c] = "idle" /\ (readyEvent[c] \/ Ready # {})
  /\ readyEvent' = [readyEvent EXCEPT ![c] = FALSE]
  /\ Goto(c, "top")
  /\ UNCHANGED <<next, preemptRequested, freezeVars, pauseVars, startVars>>

\* SwitchTo: current_thread under lock_, the flag cleared after it.
SwitchTo(c) ==
  /\ pc[c] = "dequeued"
  /\ Goto(c, "switch")
  /\ UNCHANGED <<next, flagVars, freezeVars, pauseVars, startVars>>

EnterFiber(c) ==
  /\ pc[c] = "switch"
  /\ preemptRequested' = [preemptRequested EXCEPT ![next[c]] = FALSE]
  /\ Goto(c, "guest")
  /\ UNCHANGED <<next, readyEvent, freezeVars, pauseVars, startVars>>

SwitchBack(c) ==
  /\ pc[c] = "back"
  /\ next' = [next EXCEPT ![c] = NoThread]
  /\ Goto(c, "top")
  /\ UNCHANGED <<flagVars, freezeVars, pauseVars, startVars>>

-----------------------------------------------------------------------------
(* The fiber of CPU c. *)

\* A yield, a block or a safepoint.  The freezer ends its freeze first, but a safepoint
\* does not make it yield.
Leave(c) ==
  /\ pc[c] = "guest"
  /\ Goto(c, IF freezer = next[c] THEN "giveUp" ELSE "back")
  /\ UNCHANGED <<next, flagVars, freezeVars, pauseVars, startVars>>

Safepoint(c) ==
  /\ pc[c] = "guest" /\ preemptRequested[next[c]]
  /\ preemptRequested' = [preemptRequested EXCEPT ![next[c]] = FALSE]
  /\ Goto(c, IF freezer = next[c] THEN "guest" ELSE "back")
  /\ UNCHANGED <<next, readyEvent, freezeVars, pauseVars, startVars>>

\* FreezeOthers by the one fiber that may capture: the checks and the Reset.
FreezeOthers(c) ==
  /\ pc[c] = "guest" /\ "freeze" \in workload /\ capturing = NoThread
  /\ ~shuttingDown /\ freezer = NoThread
  /\ capturing' = next[c]
  /\ thawEvent' = FALSE
  /\ Goto(c, "store")
  /\ UNCHANGED <<next, flagVars, freezer, freezerCpu, frozenCpus, sessionPc, pauseVars,
                 startVars>>

\* Under lock_: freezer_cpu_, freezer_, and a preemption of the other CPUs' fibers.
FreezeStore(c) ==
  /\ pc[c] = "store"
  /\ freezer' = next[c] /\ freezerCpu' = c
  /\ Raise(Cpus \ {c})
  /\ Goto(c, "recheck")
  /\ UNCHANGED <<next, readyEvent, frozenCpus, thawEvent, capturing, sessionPc,
                 pauseVars, startVars>>

FreezeRecheck(c) ==
  /\ pc[c] = "recheck"
  /\ IF shuttingDown THEN Goto(c, "thaw") /\ UNCHANGED readyEvent
                     ELSE /\ Goto(c, "settle")
                          /\ readyEvent' = [d \in Cpus |-> d # c \/ readyEvent[d]]
  /\ UNCHANGED <<next, preemptRequested, freezeVars, pauseVars, startVars>>

AllButOneFrozen == frozenCpus >= Cardinality(Cpus) - 2  \* a bug: one CPU too few
AllFrozen == frozenCpus >= Cardinality(Cpus) - 1

\* Returns true, or gives up at its deadline.
FreezeSettle(c) ==
  /\ pc[c] = "settle"
  /\ \/ AllFrozen /\ Goto(c, "guest")
     \/ ~AllFrozen /\ Goto(c, "thaw")
  /\ UNCHANGED <<next, flagVars, freezeVars, pauseVars, startVars>>

\* The capture is over and its fiber thaws, if the freeze has not ended before.
EndCapture(c) ==
  /\ pc[c] = "guest" /\ capturing = next[c]
  /\ Goto(c, "thaw")
  /\ UNCHANGED <<next, flagVars, freezeVars, pauseVars, startVars>>

\* Thaw by the fiber: the exchange of freezer_ ...
Thaw(c) ==
  /\ pc[c] \in {"thaw", "giveUp"}
  /\ freezer' = NoThread
  /\ Goto(c, IF freezer # NoThread THEN (IF pc[c] = "thaw" THEN "thawSet" ELSE "giveUpSet")
             ELSE IF pc[c] = "thaw" THEN "guest" ELSE "back")
  /\ capturing' = IF pc[c] = "thaw" /\ freezer = NoThread THEN NoThread ELSE capturing
  /\ UNCHANGED <<next, flagVars, freezerCpu, frozenCpus, thawEvent, sessionPc, pauseVars,
                 startVars>>

\* ... and thaw_event_->Set().
ThawUnset == UNCHANGED thawEvent           \* a bug: the event is forgotten
ThawSets == thawEvent' = TRUE
ThawSet(c) ==
  /\ pc[c] \in {"thawSet", "giveUpSet"}
  /\ ThawSets
  /\ capturing' = IF pc[c] = "thawSet" THEN NoThread ELSE capturing
  /\ Goto(c, IF pc[c] = "thawSet" THEN "guest" ELSE "back")
  /\ UNCHANGED <<next, flagVars, freezer, freezerCpu, frozenCpus, sessionPc, pauseVars,
                 startVars>>

\* Discard by the capture session, when the capture exceeds its budget.
SessionThaw ==
  /\ sessionPc = "idle" /\ capturing # NoThread /\ freezer # NoThread
  /\ freezer' = NoThread /\ sessionPc' = "set"
  /\ UNCHANGED <<loopVars, flagVars, freezerCpu, frozenCpus, thawEvent, capturing,
                 pauseVars, startVars>>

SessionThawSet ==
  /\ sessionPc = "set"
  /\ ThawSets /\ sessionPc' = "idle"
  /\ UNCHANGED <<loopVars, flagVars, freezer, freezerCpu, frozenCpus, capturing,
                 pauseVars, startVars>>

\* WatchdogLoop: a fiber outlived its slice.
Watchdog(c) ==
  /\ "watchdog" \in workload /\ pc[c] \in Current
  /\ Raise({c})
  /\ UNCHANGED <<loopVars, readyEvent, freezeVars, pauseVars, startVars>>

-----------------------------------------------------------------------------
(* PauseDispatch and ResumeDispatch by a host thread. *)

PauseTo(step) == pausePc' = step
PauseReturns(answer) == PauseTo("idle") /\ apiLock' = "free" /\ quiet' = answer

PauseDispatch ==
  /\ pausePc = "idle" /\ "pause" \in workload /\ quiet = "no"
  /\ IF shuttingDown THEN quiet' = "assumed" /\ UNCHANGED pausePc
                     ELSE PauseTo("lock") /\ UNCHANGED quiet
  /\ UNCHANGED <<loopVars, flagVars, freezeVars, dispatchPaused, quiescedMask,
                 resumeEvent, apiLock, startVars>>

\* Under pause_api_lock_ it looks again, and does nothing during a freeze.
EndedMeanwhileUnread == FALSE              \* a bug: no second look
EndedMeanwhile == shuttingDown
PauseLock ==
  /\ pausePc = "lock" /\ apiLock = "free"
  /\ IF EndedMeanwhile THEN PauseReturns("assumed")
     ELSE IF freezer # NoThread THEN PauseReturns("no")
     ELSE PauseTo("arm") /\ apiLock' = "pause" /\ UNCHANGED quiet
  /\ UNCHANGED <<loopVars, flagVars, freezeVars, dispatchPaused, quiescedMask,
                 resumeEvent, startVars>>

ArmUnreset == resumeEvent                  \* a bug: the event of the last resume stays
ArmReset == resumeEvent /\ dispatchPaused
PauseArm ==
  /\ pausePc = "arm"
  /\ resumeEvent' = ArmReset
  /\ PauseTo("store")
  /\ UNCHANGED <<loopVars, flagVars, freezeVars, dispatchPaused, quiescedMask, apiLock,
                 quiet, startVars>>

PauseStore ==
  /\ pausePc = "store"
  /\ dispatchPaused' = TRUE
  /\ PauseTo("armed")
  /\ UNCHANGED <<loopVars, flagVars, freezeVars, quiescedMask, resumeEvent, apiLock,
                 quiet, startVars>>

PauseArmed ==
  /\ pausePc = "armed"
  /\ IF dispatchReady THEN PauseTo("raise") /\ UNCHANGED <<apiLock, quiet>>
                      ELSE PauseReturns("assumed")
  /\ UNCHANGED <<loopVars, flagVars, freezeVars, dispatchPaused, quiescedMask,
                 resumeEvent, startVars>>

PauseRaise ==
  /\ pausePc = "raise"
  /\ Raise(Cpus)
  /\ PauseTo("poll")
  /\ UNCHANGED <<loopVars, readyEvent, freezeVars, dispatchPaused, quiescedMask,
                 resumeEvent, apiLock, quiet, startVars>>

\* All CPUs are quiesced, or another pass, or the deadline.
PausePoll ==
  /\ pausePc = "poll"
  /\ IF quiescedMask = Cpus \/ shuttingDown
     THEN /\ PauseReturns(IF quiescedMask = Cpus THEN "settled" ELSE "assumed")
          /\ UNCHANGED readyEvent
     ELSE /\ readyEvent' = [c \in Cpus |-> readyEvent[c] \/ c \notin quiescedMask]
          /\ \/ PauseTo("raise") /\ UNCHANGED <<apiLock, quiet>>
             \/ PauseReturns("no")
  /\ UNCHANGED <<loopVars, preemptRequested, freezeVars, dispatchPaused, quiescedMask,
                 resumeEvent, startVars>>

ResumeDispatch ==
  /\ pausePc = "idle" /\ "pause" \in workload /\ apiLock = "free"
  /\ quiet' = "no"
  /\ dispatchPaused' = FALSE
  /\ IF dispatchPaused THEN PauseTo("resumeSet") /\ apiLock' = "pause"
                       ELSE UNCHANGED <<pausePc, apiLock>>
  /\ UNCHANGED <<loopVars, flagVars, freezeVars, quiescedMask, resumeEvent, startVars>>

ResumeUnset == UNCHANGED resumeEvent       \* a bug: the event is forgotten
ResumeSets == resumeEvent' = TRUE
ResumeSet ==
  /\ pausePc = "resumeSet"
  /\ ResumeSets
  /\ IF dispatchReady THEN SetAll(readyEvent) ELSE UNCHANGED readyEvent
  /\ PauseTo("idle") /\ apiLock' = "free"
  /\ UNCHANGED <<loopVars, preemptRequested, freezeVars, dispatchPaused, quiescedMask,
                 quiet, startVars>>

-----------------------------------------------------------------------------
(* Shutdown and EnsureStarted. *)

ShutTo(step) == shutPc' = step

Shutdown ==
  /\ shutPc = "idle" /\ "shutdown" \in workload
  /\ shuttingDown' = TRUE
  /\ ShutTo("thaw")
  /\ UNCHANGED <<loopVars, flagVars, freezeVars, pauseVars, dispatchReady>>

ShutdownThaw ==
  /\ shutPc = "thaw"
  /\ freezer' = NoThread
  /\ ShutTo(IF freezer # NoThread THEN "thawSet" ELSE "lock")
  /\ UNCHANGED <<loopVars, flagVars, freezerCpu, frozenCpus, thawEvent, capturing,
                 sessionPc, pauseVars, dispatchReady, shuttingDown>>

ShutdownThawSet ==
  /\ shutPc = "thawSet"
  /\ ThawSets
  /\ ShutTo("lock")
  /\ UNCHANGED <<loopVars, flagVars, freezer, freezerCpu, frozenCpus, capturing,
                 sessionPc, pauseVars, dispatchReady, shuttingDown>>

\* Ends a pause under pause_api_lock_ ...
ShutdownLock ==
  /\ shutPc = "lock" /\ apiLock = "free"
  /\ apiLock' = "shutdown" /\ dispatchPaused' = FALSE /\ quiet' = "no"
  /\ ShutTo("set")
  /\ UNCHANGED <<loopVars, flagVars, freezeVars, quiescedMask, resumeEvent, pausePc,
                 dispatchReady, shuttingDown>>

\* ... and wakes the held CPUs, then the idle ones.
ShutdownResume ==
  /\ shutPc = "set"
  /\ resumeEvent' = TRUE /\ apiLock' = "free"
  /\ SetAll(readyEvent)
  /\ ShutTo("join")
  /\ UNCHANGED <<loopVars, preemptRequested, freezeVars, dispatchPaused, quiescedMask,
                 pausePc, quiet, dispatchReady, shuttingDown>>

\* While a dispatch thread has not exited: raise the flags again, wake the CPUs again.
ShutdownJoin ==
  /\ shutPc = "join" /\ \E c \in Cpus : pc[c] # "exited"
  /\ Raise(Cpus) /\ SetAll(readyEvent)
  /\ UNCHANGED <<loopVars, freezeVars, pauseVars, startVars>>

StartThread(c) ==
  /\ pc[c] = "off"
  /\ Goto(c, "top")
  /\ UNCHANGED <<next, flagVars, freezeVars, pauseVars, startVars>>

Started ==
  /\ ~dispatchReady /\ \A c \in Cpus : pc[c] # "off"
  /\ dispatchReady' = TRUE
  /\ UNCHANGED <<loopVars, flagVars, freezeVars, pauseVars, shuttingDown, shutPc>>

-----------------------------------------------------------------------------
LoopStep(c) ==
  \/ LoopTop(c) \/ EnterFreeze(c) \/ ThawWaitOver(c) \/ LeaveFreeze(c) \/ PauseCheck(c)
  \/ EnterHold(c) \/ ResumeWaitOver(c) \/ LeaveHold(c) \/ Dequeue(c) \/ IdleOver(c)
  \/ SwitchTo(c) \/ EnterFiber(c) \/ SwitchBack(c)

\* What a fiber does inside FreezeOthers, Thaw and the safepoint handler.
FiberStep(c) ==
  \/ Safepoint(c) \/ FreezeStore(c) \/ FreezeRecheck(c) \/ FreezeSettle(c)
  \/ Thaw(c) \/ ThawSet(c)

PauseStep ==
  \/ PauseLock \/ PauseArm \/ PauseStore \/ PauseArmed \/ PauseRaise \/ PausePoll
  \/ ResumeSet
SessionStep == SessionThaw \/ SessionThawSet
ShutdownStep ==
  \/ ShutdownThaw \/ ShutdownThawSet \/ ShutdownLock \/ ShutdownResume \/ ShutdownJoin

Step ==
  \/ \E c \in Cpus :
       \/ LoopStep(c) \/ FiberStep(c) \/ Watchdog(c) \/ StartThread(c)
       \/ Leave(c) \/ FreezeOthers(c) \/ EndCapture(c)
  \/ PauseStep \/ PauseDispatch \/ ResumeDispatch
  \/ SessionStep \/ ShutdownStep \/ Shutdown \/ Started

Next == Step /\ UNCHANGED workload

Spec == Init /\ [][Next]_vars

-----------------------------------------------------------------------------
\* A fiber whose FreezeOthers returned true runs alone for as long as it is the freezer.
FrozenAlone ==
  \A c, d \in Cpus : pc[c] = "guest" /\ freezer = next[c] /\ d # c =>
    pc[d] \notin Executing

\* Once PauseDispatch has seen every CPU quiesced and returned true, no fiber runs until
\* ResumeDispatch, or Shutdown, ends the pause.
QuietWhilePaused == quiet = "settled" => \A c \in Cpus : pc[c] \notin Executing

-----------------------------------------------------------------------------
(* Fairness: the dispatch threads and host threads run on, guest code that keeps      *)
(* running reaches a safepoint, and the capture's budget runs out: all weakly fair.   *)
Fairness ==
  /\ \A c \in Cpus :
       /\ WF_steps(StartThread(c) \/ LoopStep(c) \/ FiberStep(c)) /\ WF_steps(Safepoint(c))
       /\ WF_steps(Watchdog(c))
  /\ WF_steps(PauseStep) /\ WF_steps(SessionStep)
  /\ WF_steps(ShutdownStep) /\ WF_steps(ShutdownLock)
  /\ WF_steps(Started)

FairSpec == Spec /\ Fairness

\* Every dispatch thread gets out of a freeze that has ended, and out of a pause that was
\* resumed, unless the next one begins.
FrozenLeaves ==
  freezer = NoThread /\ capturing = NoThread ~>
    capturing # NoThread \/ \A c \in Cpus : pc[c] # "frozen"
HeldLeaves == ~dispatchPaused ~> dispatchPaused \/ \A c \in Cpus : pc[c] # "held"

\* Shutdown gets every dispatch thread to leave its loop, so that its join ends.
ShutdownJoins == shuttingDown ~> \A c \in Cpus : pc[c] = "exited"

\* A pause that is not resumed settles in the end, even if PauseDispatch gave up on it,
\* unless a freeze comes between.  It takes the watchdog of WatchdogLoop: a flag that
\* PauseDispatch raised may be cleared by a SwitchTo.
PauseTakesHold ==
  dispatchPaused /\ "watchdog" \in workload ~>
    ~dispatchPaused \/ freezer # NoThread \/ \A c \in Cpus : pc[c] \in {"held", "exited"}

\* A freeze or a pause lets every dispatch thread go when it ends, and a pause or a
\* Shutdown gets hold of every one (guest_scheduler.cc, ThreadMain, PauseDispatch, Shutdown).
HoldsBeginAndEnd == FrozenLeaves /\ HeldLeaves /\ ShutdownJoins /\ PauseTakesHold
=============================================================================
