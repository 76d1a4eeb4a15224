--------------------------- MODULE ExclusionProofs ---------------------------
(***************************************************************************)
(* Three things that must happen alone, or once.  A freeze and a pause of  *)
(* the dispatch threads: the freezer runs alone and a pause is quiet, for  *)
(* any number of CPUs and fibers.  A replay window: no packet is taken     *)
(* twice and none is refused that is still in reach, for every size of the *)
(* mask, of the jump, of the low part and of the sequence numbers.  A      *)
(* sweep of the instruction cache: once it has returned nobody runs what   *)
(* it swept, for any number of threads, names, functions and attempts, and *)
(* any sweeps.                                                             *)
(***************************************************************************)
EXTENDS DispatchHold, ReplayWindow, MCMemory, FiniteSetTheorems, TLAPS

(***************************************************************************)
(* The dispatch threads.                                                   *)
(***************************************************************************)
\* The types that need no argument, of the flags and of the rest.
Flags ==
  /\ preemptRequested \in [Threads -> BOOLEAN] /\ readyEvent \in [Cpus -> BOOLEAN]
  /\ thawEvent \in BOOLEAN /\ dispatchPaused \in BOOLEAN /\ resumeEvent \in BOOLEAN
  /\ dispatchReady \in BOOLEAN /\ shuttingDown \in BOOLEAN

Types ==
  /\ pc \in [Cpus -> CpuPc] /\ next \in [Cpus -> Threads \cup {NoThread}]
  /\ freezer \in Threads \cup {NoThread} /\ freezerCpu \in Cpus \cup {NoCpu}
  /\ capturing \in Threads \cup {NoThread} /\ sessionPc \in {"idle", "set"}
  /\ quiescedMask \subseteq Cpus /\ apiLock \in {"free", "pause", "shutdown"}
  /\ pausePc \in {"idle", "lock", "arm", "store", "armed", "raise", "poll", "resumeSet"}
  /\ shutPc \in {"idle", "thaw", "thawSet", "lock", "set", "join"}
  /\ quiet \in {"no", "settled", "assumed"} /\ workload \in Workloads

\* A CPU has a thread from the moment it picked one until it is back, and no two CPUs
\* have the same.
OwnThread ==
  /\ \A c \in Cpus : pc[c] \in Current \cup {"dequeued"} <=> next[c] # NoThread
  /\ \A c, d \in Cpus : next[c] = next[d] /\ next[c] # NoThread => c = d

\* The fiber inside FreezeOthers or at the end of its capture is the one that captures.
CaptorOnly ==
  \A c \in Cpus :
    /\ pc[c] \in {"store", "recheck", "settle", "thaw", "thawSet"} => capturing = next[c]
    /\ pc[c] \in {"store", "thawSet"} => freezer = NoThread

\* A freeze belongs to the fiber that captures, and to the CPU it runs on.
FreezerRuns ==
  freezer # NoThread =>
    /\ capturing = freezer
    /\ freezerCpu \in Cpus /\ next[freezerCpu] = freezer
    /\ pc[freezerCpu] \in {"recheck", "settle", "guest", "thaw", "giveUp"}

\* Where a dispatch thread is during a freeze that took hold.
Stopped == {"frozen", "unfreeze", "top", "freezerCpu", "exited"}
OthersStopped ==
  freezer # NoThread /\ pc[freezerCpu] = "guest" =>
    \A d \in Cpus \ {freezerCpu} : pc[d] \in Stopped

Frozen == {c \in Cpus : pc[c] \in {"frozen", "unfreeze"}}
CountExact == frozenCpus = Cardinality(Frozen)

Captor == Types /\ OwnThread /\ CaptorOnly /\ FreezerRuns
FreezeInv == Captor /\ OthersStopped /\ CountExact

\* Where a dispatch thread is that entered the hold and cannot get past the next look at
\* dispatch_paused_.
Holding == {"top", "freezerCpu", "frozen", "unfreeze", "pauseCheck", "hold", "held",
            "unhold", "exited"}

\* PauseDispatch and the end of a pause by Shutdown exclude each other with pause_api_lock_:
\* Shutdown cannot end the pause between the store of dispatch_paused_ and the answer.
PauseLocked ==
  /\ pausePc \in {"arm", "store", "armed", "raise", "poll", "resumeSet"} => apiLock = "pause"
  /\ pausePc \in {"armed", "raise", "poll"} => dispatchPaused
  /\ shutPc = "set" => apiLock = "shutdown"
QuietInv ==
  /\ Types /\ PauseLocked
  /\ \A c \in quiescedMask : pc[c] \in {"held", "unhold"}
  /\ quiet = "settled" => /\ dispatchPaused /\ pausePc = "idle"
                          /\ \A c \in Cpus : pc[c] \in Holding

-----------------------------------------------------------------------------
\* Every step keeps the flags Boolean.
LEMMA FlagsStep == Flags /\ [Next]_vars => Flags'
<1> SUFFICES ASSUME Flags, [Next]_vars PROVE Flags'
  OBVIOUS
<1>0. UNCHANGED workload
  BY DEF Next, vars
<1> USE <1>0
<1> USE DEF Flags, SetAll, Raise, PauseTo, PauseReturns, ThawSets, loopVars, flagVars,
            freezeVars, pauseVars, startVars
<1>1. ASSUME NEW c \in Cpus, LoopStep(c) PROVE Flags'
  BY <1>1 DEF LoopStep, LoopTop, EnterFreeze, ThawWaitOver, LeaveFreeze, PauseCheck, EnterHold,
              ResumeWaitOver, LeaveHold, Dequeue, IdleOver, SwitchTo, EnterFiber, SwitchBack
<1>2. ASSUME NEW c \in Cpus, FiberStep(c) PROVE Flags'
  BY <1>2 DEF FiberStep, Safepoint, FreezeStore, FreezeRecheck, FreezeSettle, Thaw, ThawSet
<1>3. ASSUME NEW c \in Cpus,
             \/ Leave(c) \/ FreezeOthers(c) \/ EndCapture(c) \/ Watchdog(c) \/ StartThread(c)
      PROVE  Flags'
  BY <1>3 DEF Leave, FreezeOthers, EndCapture, Watchdog, StartThread
<1>4. CASE PauseStep \/ PauseDispatch \/ ResumeDispatch
  BY <1>4 DEF PauseStep, PauseLock, PauseArm, PauseStore, PauseArmed, PauseRaise, PausePoll,
              ResumeSet, PauseDispatch, ResumeDispatch, EndedMeanwhile, ArmReset, ResumeSets
<1>5. CASE SessionStep \/ ShutdownStep \/ Shutdown \/ Started
  BY <1>5 DEF SessionStep, SessionThaw, SessionThawSet, ShutdownStep, ShutdownThaw,
              ShutdownThawSet, ShutdownLock, ShutdownResume, ShutdownJoin, Shutdown, Started
<1>6. CASE UNCHANGED vars
  BY <1>6 DEF vars, steps
<1> QED
  BY <1>1, <1>2, <1>3, <1>4, <1>5, <1>6 DEF Next, Step

\* Threads are taken by one CPU each, and a freeze is begun and ended by the one that
\* captures.
LEMMA CaptorStep == Captor /\ [Next]_vars => Captor'
<1> SUFFICES ASSUME Captor, [Next]_vars PROVE Captor'
  OBVIOUS
<1>0. UNCHANGED workload
  BY DEF Next, vars
<1> USE <1>0
<1> USE DEF Captor, Types, CpuPc, Current, Executing, Goto, PauseTo, PauseReturns, ShutTo,
            loopVars, flagVars, freezeVars, pauseVars, startVars, OwnThread, CaptorOnly,
            FreezerRuns
<1>1. ASSUME NEW c \in Cpus, LoopStep(c) PROVE Captor'
  <2>1. CASE LoopTop(c)
    BY <2>1 DEF LoopTop
  <2>2. CASE EnterFreeze(c)
    BY <2>2 DEF EnterFreeze
  <2>3. CASE ThawWaitOver(c)
    BY <2>3 DEF ThawWaitOver
  <2>4. CASE LeaveFreeze(c)
    BY <2>4 DEF LeaveFreeze
  <2>5. CASE PauseCheck(c)
    BY <2>5 DEF PauseCheck
  <2>6. CASE EnterHold(c)
    BY <2>6 DEF EnterHold
  <2>7. CASE ResumeWaitOver(c)
    BY <2>7 DEF ResumeWaitOver
  <2>8. CASE LeaveHold(c)
    BY <2>8 DEF LeaveHold, Quiesced
  <2>9. CASE Dequeue(c)
    BY <2>9 DEF Dequeue, Ready
  <2>10. CASE IdleOver(c)
    BY <2>10 DEF IdleOver
  <2>11. CASE SwitchTo(c)
    BY <2>11 DEF SwitchTo
  <2>12. CASE EnterFiber(c)
    BY <2>12 DEF EnterFiber
  <2>13. CASE SwitchBack(c)
    BY <2>13 DEF SwitchBack
  <2> QED
    BY <1>1, <2>1, <2>2, <2>3, <2>4, <2>5, <2>6, <2>7, <2>8, <2>9, <2>10, <2>11, <2>12,
       <2>13 DEF LoopStep
<1>2. ASSUME NEW c \in Cpus, FiberStep(c) PROVE Captor'
  <2>1. CASE Safepoint(c)
    BY <2>1 DEF Safepoint
  <2>2. CASE FreezeStore(c)
    BY <2>2 DEF FreezeStore
  <2>3. CASE FreezeRecheck(c)
    BY <2>3 DEF FreezeRecheck
  <2>4. CASE FreezeSettle(c)
    BY <2>4 DEF FreezeSettle
  <2>5. CASE Thaw(c)
    BY <2>5 DEF Thaw
  <2>6. CASE ThawSet(c)
    BY <2>6 DEF ThawSet
  <2> QED
    BY <1>2, <2>1, <2>2, <2>3, <2>4, <2>5, <2>6 DEF FiberStep
<1>3. ASSUME NEW c \in Cpus,
               Leave(c) \/ FreezeOthers(c) \/ EndCapture(c) \/ Watchdog(c) \/ StartThread(c)
        PROVE  Captor'
  <2>1. CASE Leave(c)
    BY <2>1 DEF Leave
  <2>2. CASE FreezeOthers(c)
    BY <2>2 DEF FreezeOthers
  <2>3. CASE EndCapture(c)
    BY <2>3 DEF EndCapture
  <2>4. CASE Watchdog(c)
    BY <2>4 DEF Watchdog
  <2>5. CASE StartThread(c)
    BY <2>5 DEF StartThread
  <2> QED
    BY <1>3, <2>1, <2>2, <2>3, <2>4, <2>5
<1>4. CASE PauseStep \/ PauseDispatch \/ ResumeDispatch
  BY <1>4 DEF PauseStep, PauseLock, PauseArm, PauseStore, PauseArmed, PauseRaise, PausePoll,
              ResumeSet, PauseDispatch, ResumeDispatch
<1>5. CASE SessionStep \/ ShutdownStep \/ Shutdown \/ Started
  BY <1>5 DEF SessionStep, SessionThaw, SessionThawSet, ShutdownStep, ShutdownThaw,
              ShutdownThawSet, ShutdownLock, ShutdownResume, ShutdownJoin, Shutdown, Started
<1>6. CASE UNCHANGED vars
  BY <1>6 DEF vars, steps
<1> QED
  BY <1>1, <1>2, <1>3, <1>4, <1>5, <1>6 DEF Next, Step

\* If every other CPU was counted, every other CPU is in the freeze.
LEMMA OthersCounted ==
  ASSUME Types, CountExact, AllFrozen, NEW c \in Cpus, pc[c] = "settle"
  PROVE  Cpus \ {c} \subseteq Frozen
<1>1. IsFiniteSet(Cpus \ {c}) /\ Cardinality(Cpus \ {c}) = Cardinality(Cpus) - 1
  BY HoldAssumption, FS_RemoveElement
<1>2. Frozen \subseteq Cpus \ {c}
  BY DEF Frozen
<1>3. /\ Cardinality(Frozen) <= Cardinality(Cpus \ {c})
      /\ Cardinality(Frozen) \in Nat /\ Cardinality(Cpus) \in Nat
  BY <1>1, <1>2, FS_Subset, FS_CardinalityType, HoldAssumption
<1>4. Cardinality(Frozen) = Cardinality(Cpus \ {c})
  BY <1>1, <1>3 DEF AllFrozen, CountExact
<1> QED
  BY <1>1, <1>2, <1>4, FS_Subset

\* A freeze takes hold when all were counted, and while it lasts no dispatch thread gets
\* past it.
LEMMA StoppedStep ==
  Captor /\ OthersStopped /\ CountExact /\ [Next]_vars => OthersStopped'
<1> SUFFICES ASSUME Captor, OthersStopped, CountExact, [Next]_vars PROVE OthersStopped'
  OBVIOUS
<1>0. UNCHANGED workload
  BY DEF Next, vars
<1> USE <1>0
<1> USE DEF Captor, Types, CpuPc, Current, Executing, Goto, PauseTo, PauseReturns, ShutTo,
            loopVars, flagVars, freezeVars, pauseVars, startVars, OwnThread, CaptorOnly,
            FreezerRuns, OthersStopped, Stopped
<1>1. ASSUME NEW c \in Cpus, LoopStep(c) PROVE OthersStopped'
  <2>1. CASE LoopTop(c)
    BY <2>1 DEF LoopTop
  <2>2. CASE EnterFreeze(c)
    BY <2>2 DEF EnterFreeze
  <2>3. CASE ThawWaitOver(c)
    BY <2>3 DEF ThawWaitOver
  <2>4. CASE LeaveFreeze(c)
    BY <2>4 DEF LeaveFreeze
  <2>5. CASE PauseCheck(c)
    BY <2>5 DEF PauseCheck
  <2>6. CASE EnterHold(c)
    BY <2>6 DEF EnterHold
  <2>7. CASE ResumeWaitOver(c)
    BY <2>7 DEF ResumeWaitOver
  <2>8. CASE LeaveHold(c)
    BY <2>8 DEF LeaveHold, Quiesced
  <2>9. CASE Dequeue(c)
    BY <2>9 DEF Dequeue, Ready
  <2>10. CASE IdleOver(c)
    BY <2>10 DEF IdleOver
  <2>11. CASE SwitchTo(c)
    BY <2>11 DEF SwitchTo
  <2>12. CASE EnterFiber(c)
    BY <2>12 DEF EnterFiber
  <2>13. CASE SwitchBack(c)
    BY <2>13 DEF SwitchBack
  <2> QED
    BY <1>1, <2>1, <2>2, <2>3, <2>4, <2>5, <2>6, <2>7, <2>8, <2>9, <2>10, <2>11, <2>12,
       <2>13 DEF LoopStep
<1>2. ASSUME NEW c \in Cpus, FiberStep(c) PROVE OthersStopped'
  <2>1. CASE Safepoint(c)
    BY <2>1 DEF Safepoint
  <2>2. CASE FreezeStore(c)
    BY <2>2 DEF FreezeStore
  <2>3. CASE FreezeRecheck(c)
    BY <2>3 DEF FreezeRecheck
  <2>4. CASE FreezeSettle(c)
    <3>1. CASE AllFrozen
      <4>1. Cpus \ {c} \subseteq Frozen
        BY <2>4, <3>1, OthersCounted DEF FreezeSettle
      <4> QED
        BY <2>4, <3>1, <4>1 DEF FreezeSettle, Frozen
    <3>2. CASE ~AllFrozen
      BY <2>4, <3>2 DEF FreezeSettle
    <3> QED
      BY <3>1, <3>2
  <2>5. CASE Thaw(c)
    BY <2>5 DEF Thaw
  <2>6. CASE ThawSet(c)
    BY <2>6 DEF ThawSet
  <2> QED
    BY <1>2, <2>1, <2>2, <2>3, <2>4, <2>5, <2>6 DEF FiberStep
<1>3. ASSUME NEW c \in Cpus,
               Leave(c) \/ FreezeOthers(c) \/ EndCapture(c) \/ Watchdog(c) \/ StartThread(c)
        PROVE  OthersStopped'
  <2>1. CASE Leave(c)
    BY <2>1 DEF Leave
  <2>2. CASE FreezeOthers(c)
    BY <2>2 DEF FreezeOthers
  <2>3. CASE EndCapture(c)
    BY <2>3 DEF EndCapture
  <2>4. CASE Watchdog(c)
    BY <2>4 DEF Watchdog
  <2>5. CASE StartThread(c)
    BY <2>5 DEF StartThread
  <2> QED
    BY <1>3, <2>1, <2>2, <2>3, <2>4, <2>5
<1>4. CASE PauseStep \/ PauseDispatch \/ ResumeDispatch
  BY <1>4 DEF PauseStep, PauseLock, PauseArm, PauseStore, PauseArmed, PauseRaise, PausePoll,
              ResumeSet, PauseDispatch, ResumeDispatch
<1>5. CASE SessionStep \/ ShutdownStep \/ Shutdown \/ Started
  BY <1>5 DEF SessionStep, SessionThaw, SessionThawSet, ShutdownStep, ShutdownThaw,
              ShutdownThawSet, ShutdownLock, ShutdownResume, ShutdownJoin, Shutdown, Started
<1>6. CASE UNCHANGED vars
  BY <1>6 DEF vars, steps
<1> QED
  BY <1>1, <1>2, <1>3, <1>4, <1>5, <1>6 DEF Next, Step

\* frozen_cpus_ counts the dispatch threads between its increment and its decrement.
LEMMA CountStep == Types /\ CountExact /\ [Next]_vars => CountExact'
<1> SUFFICES ASSUME Types, CountExact, [Next]_vars PROVE CountExact'
  OBVIOUS
<1>0. UNCHANGED workload
  BY DEF Next, vars
<1> USE <1>0
<1> IsFiniteSet(Frozen) /\ Cardinality(Frozen) \in Nat
  BY HoldAssumption, FS_Subset, FS_CardinalityType DEF Frozen
<1> USE DEF Types, CountExact, Frozen, CpuPc, Current, Executing, Goto, PauseTo,
            PauseReturns, ShutTo, loopVars, flagVars, freezeVars, pauseVars, startVars
<1>1. ASSUME NEW c \in Cpus, LoopStep(c) PROVE CountExact'
  <2>1. CASE LoopTop(c)
    BY <2>1 DEF LoopTop
  <2>2. CASE EnterFreeze(c)
    <3>1. CASE freezerCpu # c
      <4>1. c \notin Frozen /\ Frozen' = Frozen \cup {c} /\ frozenCpus' = frozenCpus + 1
        BY <2>2, <3>1 DEF EnterFreeze
      <4> QED
        BY <4>1, FS_AddElement
    <3>2. CASE freezerCpu = c
      BY <2>2, <3>2 DEF EnterFreeze
    <3> QED
      BY <3>1, <3>2
  <2>3. CASE ThawWaitOver(c)
    BY <2>3 DEF ThawWaitOver
  <2>4. CASE LeaveFreeze(c)
    <3>1. c \in Frozen /\ Frozen' = Frozen \ {c} /\ frozenCpus' = frozenCpus - 1
      BY <2>4 DEF LeaveFreeze, FrozenLeft
    <3> QED
      BY <3>1, FS_RemoveElement, ZenonT(60)
  <2>5. CASE PauseCheck(c)
    BY <2>5 DEF PauseCheck
  <2>6. CASE EnterHold(c)
    BY <2>6 DEF EnterHold
  <2>7. CASE ResumeWaitOver(c)
    BY <2>7 DEF ResumeWaitOver
  <2>8. CASE LeaveHold(c)
    BY <2>8 DEF LeaveHold, Quiesced
  <2>9. CASE Dequeue(c)
    BY <2>9 DEF Dequeue, Ready
  <2>10. CASE IdleOver(c)
    BY <2>10 DEF IdleOver
  <2>11. CASE SwitchTo(c)
    BY <2>11 DEF SwitchTo
  <2>12. CASE EnterFiber(c)
    BY <2>12 DEF EnterFiber
  <2>13. CASE SwitchBack(c)
    BY <2>13 DEF SwitchBack
  <2> QED
    BY <1>1, <2>1, <2>2, <2>3, <2>4, <2>5, <2>6, <2>7, <2>8, <2>9, <2>10, <2>11, <2>12,
       <2>13 DEF LoopStep
<1>2. ASSUME NEW c \in Cpus, FiberStep(c) PROVE CountExact'
  <2>1. CASE Safepoint(c)
    BY <2>1 DEF Safepoint
  <2>2. CASE FreezeStore(c)
    BY <2>2 DEF FreezeStore
  <2>3. CASE FreezeRecheck(c)
    BY <2>3 DEF FreezeRecheck
  <2>4. CASE FreezeSettle(c)
    BY <2>4 DEF FreezeSettle
  <2>5. CASE Thaw(c)
    BY <2>5 DEF Thaw
  <2>6. CASE ThawSet(c)
    BY <2>6 DEF ThawSet
  <2> QED
    BY <1>2, <2>1, <2>2, <2>3, <2>4, <2>5, <2>6 DEF FiberStep
<1>3. ASSUME NEW c \in Cpus,
               Leave(c) \/ FreezeOthers(c) \/ EndCapture(c) \/ Watchdog(c) \/ StartThread(c)
        PROVE  CountExact'
  <2>1. CASE Leave(c)
    BY <2>1 DEF Leave
  <2>2. CASE FreezeOthers(c)
    BY <2>2 DEF FreezeOthers
  <2>3. CASE EndCapture(c)
    BY <2>3 DEF EndCapture
  <2>4. CASE Watchdog(c)
    BY <2>4 DEF Watchdog
  <2>5. CASE StartThread(c)
    BY <2>5 DEF StartThread
  <2> QED
    BY <1>3, <2>1, <2>2, <2>3, <2>4, <2>5
<1>4. CASE PauseStep \/ PauseDispatch \/ ResumeDispatch
  BY <1>4 DEF PauseStep, PauseLock, PauseArm, PauseStore, PauseArmed, PauseRaise, PausePoll,
              ResumeSet, PauseDispatch, ResumeDispatch
<1>5. CASE SessionStep \/ ShutdownStep \/ Shutdown \/ Started
  BY <1>5 DEF SessionStep, SessionThaw, SessionThawSet, ShutdownStep, ShutdownThaw,
              ShutdownThawSet, ShutdownLock, ShutdownResume, ShutdownJoin, Shutdown, Started
<1>6. CASE UNCHANGED vars
  BY <1>6 DEF vars, steps
<1> QED
  BY <1>1, <1>2, <1>3, <1>4, <1>5, <1>6 DEF Next, Step

-----------------------------------------------------------------------------
\* The invariant holds in every state.
LEMMA FreezeInvHolds == Spec => [](Flags /\ FreezeInv)
<1>1. Init => Flags /\ FreezeInv
  <2> SUFFICES ASSUME Init PROVE Flags /\ FreezeInv
    OBVIOUS
  <2>1. Flags
    BY DEF Init, Flags
  <2>2. Captor /\ OthersStopped
    BY DEF Init, Captor, Types, CpuPc, Current, Executing, OwnThread, CaptorOnly, FreezerRuns,
           OthersStopped
  <2>3. Frozen = {}
    BY DEF Init, Frozen
  <2>4. CountExact
    BY <2>3, FS_EmptySet DEF Init, CountExact
  <2> QED
    BY <2>1, <2>2, <2>4 DEF FreezeInv
<1>2. Flags /\ FreezeInv /\ [Next]_vars => (Flags /\ FreezeInv)'
  BY FlagsStep, CaptorStep, StoppedStep, CountStep DEF FreezeInv, Captor
<1> HIDE DEF Flags, FreezeInv
<1> QED
  BY <1>1, <1>2, PTL DEF Spec

\* The types of all variables: no flag, count or program counter of the dispatch threads,
\* of PauseDispatch, FreezeOthers or Shutdown leaves its range, and frozen_cpus_, which
\* many threads increment and decrement, never exceeds the CPUs.
THEOREM HoldTypesCorrect == Spec => []TypeOK
<1>1. Flags /\ FreezeInv => TypeOK
  <2> SUFFICES ASSUME Flags, FreezeInv PROVE TypeOK
    OBVIOUS
  <2>1. /\ Cardinality(Frozen) <= Cardinality(Cpus)
        /\ Cardinality(Frozen) \in Nat /\ Cardinality(Cpus) \in Nat
    BY HoldAssumption, FS_Subset, FS_CardinalityType DEF Frozen
  <2>2. frozenCpus \in 0..Cardinality(Cpus)
    BY <2>1 DEF FreezeInv, CountExact
  <2> QED
    BY <2>2 DEF Flags, FreezeInv, Captor, Types, TypeOK
<1> QED
  BY <1>1, FreezeInvHolds, PTL

\* A fiber whose FreezeOthers has succeeded is the only one that executes, until Thaw, the
\* end of the capture's budget or Shutdown ends the freeze.
THEOREM FreezerAlone == Spec => []FrozenAlone
<1>1. FreezeInv => FrozenAlone
  BY DEF FreezeInv, Captor, Types, OwnThread, FreezerRuns, OthersStopped, Stopped, FrozenAlone,
         Executing, Current, CpuPc
<1> QED
  BY <1>1, FreezeInvHolds, PTL

-----------------------------------------------------------------------------
\* A pause that has settled stays settled: who is held gets no further than the next look at
\* dispatch_paused_.
LEMMA QuietStep == QuietInv /\ [Next]_vars => QuietInv'
<1> SUFFICES ASSUME QuietInv, [Next]_vars PROVE QuietInv'
  OBVIOUS
<1>0. UNCHANGED workload
  BY DEF Next, vars
<1> USE <1>0
<1> USE DEF QuietInv, PauseLocked, Holding, Types, CpuPc, Current, Executing, Goto,
            PauseTo, PauseReturns, ShutTo, loopVars, flagVars, freezeVars, pauseVars,
            startVars
<1>1. ASSUME NEW c \in Cpus, LoopStep(c) PROVE QuietInv'
  <2>1. CASE LoopTop(c)
    BY <2>1 DEF LoopTop
  <2>2. CASE EnterFreeze(c)
    BY <2>2 DEF EnterFreeze
  <2>3. CASE ThawWaitOver(c)
    BY <2>3 DEF ThawWaitOver
  <2>4. CASE LeaveFreeze(c)
    BY <2>4 DEF LeaveFreeze
  <2>5. CASE PauseCheck(c)
    BY <2>5 DEF PauseCheck
  <2>6. CASE EnterHold(c)
    BY <2>6 DEF EnterHold
  <2>7. CASE ResumeWaitOver(c)
    BY <2>7 DEF ResumeWaitOver
  <2>8. CASE LeaveHold(c)
    BY <2>8 DEF LeaveHold, Quiesced
  <2>9. CASE Dequeue(c)
    BY <2>9 DEF Dequeue, Ready
  <2>10. CASE IdleOver(c)
    BY <2>10 DEF IdleOver
  <2>11. CASE SwitchTo(c)
    BY <2>11 DEF SwitchTo
  <2>12. CASE EnterFiber(c)
    BY <2>12 DEF EnterFiber
  <2>13. CASE SwitchBack(c)
    BY <2>13 DEF SwitchBack
  <2> QED
    BY <1>1, <2>1, <2>2, <2>3, <2>4, <2>5, <2>6, <2>7, <2>8, <2>9, <2>10, <2>11, <2>12,
       <2>13 DEF LoopStep
<1>2. ASSUME NEW c \in Cpus, FiberStep(c) PROVE QuietInv'
  <2>1. CASE Safepoint(c)
    BY <2>1 DEF Safepoint
  <2>2. CASE FreezeStore(c)
    BY <2>2 DEF FreezeStore
  <2>3. CASE FreezeRecheck(c)
    BY <2>3 DEF FreezeRecheck
  <2>4. CASE FreezeSettle(c)
    BY <2>4 DEF FreezeSettle
  <2>5. CASE Thaw(c)
    BY <2>5 DEF Thaw
  <2>6. CASE ThawSet(c)
    BY <2>6 DEF ThawSet
  <2> QED
    BY <1>2, <2>1, <2>2, <2>3, <2>4, <2>5, <2>6 DEF FiberStep
<1>3. ASSUME NEW c \in Cpus,
               Leave(c) \/ FreezeOthers(c) \/ EndCapture(c) \/ Watchdog(c) \/ StartThread(c)
        PROVE  QuietInv'
  <2>1. CASE Leave(c)
    BY <2>1 DEF Leave
  <2>2. CASE FreezeOthers(c)
    BY <2>2 DEF FreezeOthers
  <2>3. CASE EndCapture(c)
    BY <2>3 DEF EndCapture
  <2>4. CASE Watchdog(c)
    BY <2>4 DEF Watchdog
  <2>5. CASE StartThread(c)
    BY <2>5 DEF StartThread
  <2> QED
    BY <1>3, <2>1, <2>2, <2>3, <2>4, <2>5
<1>4. CASE PauseStep \/ PauseDispatch \/ ResumeDispatch
  <2>1. CASE PauseLock
    BY <2>1 DEF PauseLock, EndedMeanwhile
  <2>2. CASE PauseArm
    BY <2>2 DEF PauseArm
  <2>3. CASE PauseStore
    BY <2>3 DEF PauseStore
  <2>4. CASE PauseArmed
    BY <2>4 DEF PauseArmed
  <2>5. CASE PauseRaise
    BY <2>5 DEF PauseRaise
  <2>6. CASE PausePoll
    BY <2>6 DEF PausePoll
  <2>7. CASE ResumeSet
    BY <2>7 DEF ResumeSet
  <2>8. CASE PauseDispatch
    BY <2>8 DEF PauseDispatch
  <2>9. CASE ResumeDispatch
    BY <2>9 DEF ResumeDispatch
  <2> QED
    BY <1>4, <2>1, <2>2, <2>3, <2>4, <2>5, <2>6, <2>7, <2>8, <2>9 DEF PauseStep
<1>5. CASE SessionStep \/ ShutdownStep \/ Shutdown \/ Started
  <2>1. CASE SessionThaw
    BY <2>1 DEF SessionThaw
  <2>2. CASE SessionThawSet
    BY <2>2 DEF SessionThawSet
  <2>3. CASE ShutdownThaw
    BY <2>3 DEF ShutdownThaw
  <2>4. CASE ShutdownThawSet
    BY <2>4 DEF ShutdownThawSet
  <2>5. CASE ShutdownLock
    BY <2>5 DEF ShutdownLock
  <2>6. CASE ShutdownResume
    BY <2>6 DEF ShutdownResume
  <2>7. CASE ShutdownJoin
    BY <2>7 DEF ShutdownJoin
  <2>8. CASE Shutdown
    BY <2>8 DEF Shutdown
  <2>9. CASE Started
    BY <2>9 DEF Started
  <2> QED
    BY <1>5, <2>1, <2>2, <2>3, <2>4, <2>5, <2>6, <2>7, <2>8, <2>9 DEF SessionStep,
       ShutdownStep
<1>6. CASE UNCHANGED vars
  BY <1>6 DEF vars, steps
<1> QED
  BY <1>1, <1>2, <1>3, <1>4, <1>5, <1>6 DEF Next, Step

\* From the moment PauseDispatch has seen every dispatch thread held and returns true until
\* ResumeDispatch or Shutdown ends the pause, no fiber executes: a dispatch thread that
\* leaves the hold finds dispatch_paused_ set at the next head of its loop.
THEOREM PauseIsQuiet == Spec => []QuietWhilePaused
<1>1. Init => QuietInv
  BY DEF Init, QuietInv, PauseLocked, Types, CpuPc, Current, Executing
<1>2. QuietInv /\ [Next]_vars => QuietInv'
  BY QuietStep
<1>3. QuietInv => QuietWhilePaused
  BY DEF QuietInv, Holding, QuietWhilePaused, Executing
<1> HIDE DEF QuietInv
<1> QED
  BY <1>1, <1>2, <1>3, PTL DEF Spec

-----------------------------------------------------------------------------
(***************************************************************************)
(* The replay window.                                                      *)
(***************************************************************************)
\* A number the window would refuse because it is too old or has been seen.
Marked(w, s) == s <= w.highest /\ (w.highest - s >= Window \/ w.highest - s \in w.seen)

\* What has been taken is marked; what the mask shows was taken; nothing is
\* taken that was not sent.
Recorded ==
  /\ \A s \in Sequence : taken[s] = 0 \/ (taken[s] = 1 /\ Marked(window, s))
  /\ \A s \in Sequence :
       s <= window.highest /\ window.highest - s \in window.seen => taken[s] = 1

WindowInv == WindowTypeOK /\ Recorded

-----------------------------------------------------------------------------
(***************************************************************************)
(* Low parts.                                                              *)
(***************************************************************************)
LEMMA LowPart ==
  ASSUME NEW m \in Nat \ {0}, NEW a \in Nat
  PROVE  a % m \in 0 .. m - 1 /\ a = m * (a \div m) + (a % m) /\ a \div m \in Int
OBVIOUS

LEMMA NearMultiple ==
  ASSUME NEW m \in Nat \ {0}, NEW d \in Int, m * d < 2 * m, m * d > -2 * m
  PROVE  d \in {-1, 0, 1}
OBVIOUS

\* A number less than a range away is one of three guesses from its low part.
LEMMA ThreeGuesses ==
  ASSUME NEW m \in Nat \ {0}, NEW h \in Nat, NEW s \in Nat, s - h < m, h - s < m
  PROVE  LET base == h - (h % m) + (s % m)
         IN  s \in {base, base - m, base + m}
<1> DEFINE d == (s \div m) - (h \div m)
<1>1. /\ h % m \in 0 .. m - 1 /\ h = m * (h \div m) + (h % m) /\ h \div m \in Int
      /\ s % m \in 0 .. m - 1 /\ s = m * (s \div m) + (s % m) /\ s \div m \in Int
  BY LowPart
<1>2. s = h - (h % m) + (s % m) + m * d
  BY <1>1
<1>3. m * d < 2 * m /\ m * d > -2 * m
  BY <1>1, <1>2
<1>4. d \in {-1, 0, 1}
  BY <1>1, <1>3, NearMultiple
<1>5. m * d \in {-m, 0, m}
  BY <1>4
<1> QED
  BY <1>1, <1>2, <1>5

\* A commit marks its number and unmarks none.
LEMMA CommitMarks ==
  ASSUME NEW w \in Windows, NEW s \in Sequence, Permitted(w, s)
  PROVE  /\ Commit(w, s) \in Windows
         /\ Marked(Commit(w, s), s)
         /\ \A t \in Sequence : Marked(w, t) => Marked(Commit(w, s), t)
         /\ \A t \in Sequence :
              t <= Commit(w, s).highest /\ Commit(w, s).highest - t \in Commit(w, s).seen
                => t = s \/ (t <= w.highest /\ w.highest - t \in w.seen)
<1>1. w.highest \in Nat /\ s \in Nat /\ w.seen \subseteq 0 .. Window - 1 /\ Window \in Nat \ {0}
  BY WindowAssumption DEF Windows, Sequence
<1>2. CASE s > w.highest
  <2> DEFINE c == [highest |-> s,
                   seen |-> {0} \union
                            {a \in 0 .. Window - 1 : a - (s - w.highest) \in w.seen}]
  <2>1. Commit(w, s) = c
    BY <1>2 DEF Commit
  <2>2. c \in Windows
    BY <1>1 DEF Windows
  <2>3. Marked(c, s)
    BY <1>1 DEF Marked
  <2>4. ASSUME NEW t \in Sequence, Marked(w, t)
        PROVE  Marked(c, t)
    <3>1. t \in Nat /\ t <= w.highest
      BY <2>4 DEF Marked, Sequence
    <3>2. CASE s - t >= Window
      BY <1>1, <1>2, <3>1, <3>2 DEF Marked
    <3>3. CASE s - t < Window
      <4>1. w.highest - t \in w.seen
        BY <1>1, <1>2, <2>4, <3>1, <3>3 DEF Marked
      <4>2. (s - t) - (s - w.highest) = w.highest - t /\ s - t \in 0 .. Window - 1
        BY <1>1, <1>2, <3>1, <3>3
      <4>3. s - t \in c.seen
        BY <4>1, <4>2
      <4> QED
        BY <1>1, <1>2, <3>1, <4>3 DEF Marked
    <3> QED
      BY <1>1, <3>1, <3>2, <3>3
  <2>5. ASSUME NEW t \in Sequence, t <= c.highest, c.highest - t \in c.seen
        PROVE  t = s \/ (t <= w.highest /\ w.highest - t \in w.seen)
    <3>1. t \in Nat /\ s - t \in c.seen
      BY <2>5 DEF Sequence
    <3>2. CASE s - t = 0
      BY <1>1, <3>1, <3>2
    <3>3. CASE (s - t) - (s - w.highest) \in w.seen
      <4>1. (s - t) - (s - w.highest) = w.highest - t
        BY <1>1, <3>1
      <4>2. w.highest - t \in w.seen /\ w.highest - t >= 0
        BY <1>1, <3>3, <4>1
      <4> QED
        BY <1>1, <3>1, <4>2
    <3> QED
      BY <3>1, <3>2, <3>3
  <2> HIDE DEF c
  <2> QED
    BY <2>1, <2>2, <2>3, <2>4, <2>5
<1>3. CASE s <= w.highest
  <2>1. Commit(w, s) = [w EXCEPT !.seen = @ \union {w.highest - s}]
    BY <1>1, <1>3 DEF Commit
  <2>2. /\ Commit(w, s).highest = w.highest
        /\ Commit(w, s).seen = w.seen \union {w.highest - s}
        /\ Commit(w, s) \in [highest : Sequence, seen : SUBSET Int]
    BY <1>1, <2>1 DEF Windows
  <2>3. w.highest - s \in 0 .. Window - 1
    BY <1>1, <1>3 DEF Permitted
  <2>4. Commit(w, s) \in Windows
    BY <1>1, <2>1, <2>3 DEF Windows
  <2>5. ASSUME NEW t \in Sequence, w.highest - t = w.highest - s
        PROVE  t = s
    BY <1>1, <2>5 DEF Sequence
  <2> QED
    BY <1>3, <2>2, <2>4, <2>5 DEF Marked
<1>4. s > w.highest \/ s <= w.highest
  BY <1>1
<1> QED
  BY <1>2, <1>3, <1>4

-----------------------------------------------------------------------------
(***************************************************************************)
(* The window against the network.                                         *)
(***************************************************************************)
LEMMA WindowBegins == WindowInit => WindowInv
<1> SUFFICES ASSUME WindowInit PROVE WindowInv
  OBVIOUS
<1>1. window = [highest |-> 0, seen |-> {}] /\ used = -1 /\ taken = [s \in Sequence |-> 0]
  BY DEF WindowInit, NewWindow
<1>2. 0 \in Sequence
  BY WindowAssumption DEF Sequence
<1>3. WindowTypeOK
  BY <1>1, <1>2 DEF WindowTypeOK, Windows
<1>4. Recorded
  BY <1>1 DEF Recorded
<1> QED
  BY <1>3, <1>4 DEF WindowInv

LEMMA WindowStep == WindowInv /\ [WindowNext]_windowVars => WindowInv'
<1> SUFFICES ASSUME WindowInv, [WindowNext]_windowVars PROVE WindowInv'
  OBVIOUS
<1> USE DEF WindowInv
<1>1. CASE Transmit
  BY <1>1, WindowAssumption
     DEF Transmit, WindowTypeOK, Recorded, Marked, FirstNumber, Sequence
<1>2. ASSUME NEW s \in Sequence, Accept(s)
      PROVE  WindowInv'
  <2>1. /\ Permitted(window, s) /\ window' = Commit(window, s)
        /\ taken' = [taken EXCEPT ![s] = @ + 1] /\ used' = used
    BY <1>2 DEF Accept, Candidates
  <2>2. window \in Windows /\ taken \in [Sequence -> Nat]
    BY DEF WindowTypeOK
  <2>3. /\ window' \in Windows /\ Marked(window', s)
        /\ \A t \in Sequence : Marked(window, t) => Marked(window', t)
        /\ \A t \in Sequence :
             t <= window'.highest /\ window'.highest - t \in window'.seen
               => t = s \/ (t <= window.highest /\ window.highest - t \in window.seen)
    BY <2>1, <2>2, CommitMarks
  <2>4. WindowTypeOK'
    BY <2>1, <2>2, <2>3 DEF WindowTypeOK
  <2>5. ~Marked(window, s)
    <3>1. window.highest \in Nat /\ s \in Nat /\ Window \in Nat
      BY <2>2, WindowAssumption DEF Windows, Sequence
    <3> QED
      BY <2>1, <3>1 DEF Permitted, Marked
  <2>6. taken[s] = 0
    BY <2>5 DEF Recorded
  <2>7. taken'[s] = 1 /\ \A t \in Sequence \ {s} : taken'[t] = taken[t]
    BY <2>1, <2>2, <2>6
  <2>8. Recorded'
    <3>1. \A t \in Sequence : taken'[t] = 0 \/ (taken'[t] = 1 /\ Marked(window', t))
      BY <2>3, <2>7 DEF Recorded
    <3>2. \A t \in Sequence :
            t <= window'.highest /\ window'.highest - t \in window'.seen => taken'[t] = 1
      BY <2>3, <2>7 DEF Recorded
    <3> QED
      BY <3>1, <3>2 DEF Recorded, Marked
  <2> QED
    BY <2>4, <2>8
<1>3. CASE UNCHANGED windowVars
  BY <1>3 DEF windowVars, WindowTypeOK, Recorded, Marked
<1> QED
  BY <1>1, <1>2, <1>3 DEF WindowNext

LEMMA WindowInvHolds == WindowSpec => []WindowInv
BY WindowBegins, WindowStep, PTL DEF WindowSpec

\* The window, the numbers used and the counts keep their types.
THEOREM WindowTypes == WindowSpec => []WindowTypeOK
<1>1. WindowInv => WindowTypeOK
  BY DEF WindowInv
<1> QED
  BY <1>1, WindowInvHolds, PTL

\* No packet is taken twice, however often and however late the network
\* delivers it (ReplayWindow::Permitted and Commit).
THEOREM NoPacketTwice == WindowSpec => []TakenOnce
<1>1. WindowInv => TakenOnce
  BY DEF WindowInv, Recorded, TakenOnce, WindowTypeOK
<1> QED
  BY <1>1, WindowInvHolds, PTL

\* A packet in reach of the window that has not been taken is guessed from its
\* low part, also when that wrapped (ReplayWindow::Candidates).
THEOREM NewPacketsGuessed == WindowSpec => []NewIsGuessed
<1>1. ASSUME WindowInv PROVE NewIsGuessed
  <2> SUFFICES ASSUME NEW s \in FirstNumber .. used, taken[s] = 0,
                      window.highest - s < Window, s - window.highest <= Jump
               PROVE  s \in Candidates(window, s % LowRange)
    BY DEF NewIsGuessed
  <2>1. /\ window \in Windows /\ window.highest \in Nat /\ used \in Int /\ used <= MaxSequence
        /\ MaxSequence \in Nat
    BY <1>1, WindowAssumption DEF WindowInv, WindowTypeOK, Windows, Sequence
  <2>2. s \in Sequence /\ s \in Nat /\ (s # 0 \/ AllowZero)
    BY <2>1, WindowAssumption DEF FirstNumber, Sequence
  <2>3. s <= window.highest => window.highest - s \notin window.seen
    BY <1>1, <2>2 DEF WindowInv, Recorded
  <2>4. Permitted(window, s)
    BY <2>1, <2>2, <2>3 DEF Permitted
  <2>5. /\ LowRange \in Nat \ {0}
        /\ s - window.highest < LowRange /\ window.highest - s < LowRange
    BY <2>1, <2>2, WindowAssumption
  <2>6. LET base == window.highest - (window.highest % LowRange) + (s % LowRange)
        IN  s \in {base, base - LowRange, base + LowRange}
    BY <2>1, <2>2, <2>5, ThreeGuesses
  <2> QED
    BY <2>2, <2>4, <2>6 DEF Candidates
<1> QED
  BY <1>1, WindowInvHolds, PTL

\* At most one guess is permitted, so the order of the guesses does not matter.
THEOREM GuessIsUnique == WindowSpec => []OneGuess
<1>1. ASSUME WindowInv PROVE OneGuess
  <2> SUFFICES ASSUME NEW low \in 0 .. LowRange - 1,
                      NEW s \in Candidates(window, low), NEW t \in Candidates(window, low)
               PROVE  s = t
    BY DEF OneGuess
  <2>1. window.highest \in Nat
    BY <1>1 DEF WindowInv, WindowTypeOK, Windows, Sequence
  <2>2. s \in Nat /\ t \in Nat /\ Permitted(window, s) /\ Permitted(window, t)
    BY WindowAssumption DEF Candidates, Sequence
  <2>3. s - t < LowRange /\ t - s < LowRange
    BY <2>1, <2>2, WindowAssumption DEF Permitted
  <2>4. LowRange \in Nat \ {0} /\ low \in Nat
    BY <2>1, <2>2, WindowAssumption
  <2>5. window.highest % LowRange \in Nat
    BY <2>1, <2>4, LowPart
  <2> QED
    BY <2>1, <2>2, <2>3, <2>4, <2>5 DEF Candidates
<1> QED
  BY <1>1, WindowInvHolds, PTL

(***************************************************************************)
(* Code the guest writes at run time.                                      *)
(***************************************************************************)
Own == {"begin", "declare", "compile", "publish"}
Calling == Own \cup {"resolve", "wait", "store", "recheck", "run"}
At(t) == cCall[t].at
Addr(t) == cCall[t].addr
Fun(t) == cCall[t].function
EntryAt(a) == cEntry[cEntryOf[a]]

\* The expectations of a call and of a sweep are of the past.
Expects(t) ==
  /\ At(t) \in {"sweep", "clear"} =>
       /\ cCall[t].names # <<>> /\ cCall[t].expects \in [CodeWords -> Code!Version]
       /\ \A w \in CodeWords : cCall[t].expects[w] <= cCode[w]
  /\ At(t) \in Calling =>
       /\ Addr(t) \in Code!Addresses /\ cCall[t].expects \in [CodeWords -> Code!Version]
       /\ \A w \in CodeWords : cCall[t].expects[w] <= cSwept[w]
       /\ cCall[t].sampled <= cCount /\ Fun(t) \in Code!Functions(Addr(t))
Past ==
  /\ \A w \in CodeWords : cSwept[w] <= cCode[w]
  /\ \A t \in CodeThreads : At(t) = "clear" <=> cSweeping = t
  /\ \A t \in CodeThreads : Expects(t)

\* One compile at a time of an address, by the thread whose entry the table has.
HasEntry(t) ==
  /\ At(t) \in Own \cup {"wait"} => cCall[t].entry \in CodeEntries
  /\ At(t) \in Own =>
       cEntryOf[Addr(t)] = cCall[t].entry /\ cEntry[cCall[t].entry].status = "compiling"
  /\ \A a \in Code!Addresses :
       cCall[t].entry # none /\ cEntryOf[a] = cCall[t].entry => a = Addr(t)
Owned ==
  /\ \A a, b \in Code!Addresses : cEntryOf[a] = cEntryOf[b] /\ cEntryOf[a] # none => a = b
  /\ \A t \in CodeThreads : HasEntry(t)
  /\ \A t, u \in CodeThreads :
       At(t) \in Own /\ At(u) \in Own /\ Addr(t) = Addr(u) => t = u

\* What a thread in a compile has of the code is current, or a sweep it will see took it.
SweptAt(t, w) == \E s \in cLog : s.count > cCall[t].since /\ w \in s.words
Compiles(t) ==
  /\ cCall[t].dynamic => At(t) \in {"declare", "compile", "publish"} /\ cCall[t].since <= cCount
  /\ At(t) \in {"declare", "compile"} => cCall[t].dynamic
  /\ At(t) \in {"resolve", "wait", "begin", "declare", "compile"} => Fun(t) = Code!NoFunction
  /\ At(t) = "publish" =>
       IF Fun(t) = Code!NoFunction THEN cSymbol[Addr(t)].status # "defined"
       ELSE /\ cCall[t].dynamic /\ ~Fun(t).once
            /\ cSymbol[Addr(t)].status = "defined" /\ cSymbol[Addr(t)].function = Fun(t)
            /\ \A w \in Code!Extent(Addr(t)) :
                 Fun(t).code[w] >= cSwept[w] \/ SweptAt(t, w)
LoggedFor(t) ==
  cCall[t].dynamic /\ cSweeping # none =>
    \E s \in cLog : s.count > cCall[t].since /\ s.words = cCall[cSweeping].words
Compiling == \A t \in CodeThreads : Compiles(t) /\ LoggedFor(t)

\* What a lookup finds, and what the module has of it.
ReadyAt(a) ==
  LET f == EntryAt(a).function
  IN /\ f \in Code!Functions(a) /\ ~f.once /\ Code!IsCurrent(f, cSwept)
     /\ cSymbol[a].status = "defined" /\ cSymbol[a].function = f
     /\ Code!Pieces(a) \subseteq cPieces
     /\ cSweeping # none => Code!Extent(a) \cap cCall[cSweeping].words = {}
Readies == \A a \in Code!Addresses : Code!IsReady(a) => ReadyAt(a)
Publishing(t, a) == At(t) = "publish" /\ cCall[t].dynamic /\ Addr(t) = a
SymbolOf(a) ==
  IF cSymbol[a].status = "defined"
  THEN /\ cSymbol[a].function \in Code!Functions(a)
       /\ Code!IsReady(a) \/ \E t \in CodeThreads : Publishing(t, a)
  ELSE cSymbol[a].function = Code!NoFunction
Symbols == \A a \in Code!Addresses : SymbolOf(a)

\* What a call waits for, and what it found.
Served(f, t) == Code!IsCurrent(f, cCall[t].expects) \/ f.once
Finds(t) ==
  /\ At(t) = "wait" =>
       /\ cCount = cCall[t].sampled => cEntryOf[Addr(t)] = cCall[t].entry
       /\ cEntry[cCall[t].entry].status = "ready" =>
            /\ cEntry[cCall[t].entry].function \in Code!Functions(Addr(t))
            /\ Served(cEntry[cCall[t].entry].function, t)
  /\ At(t) \in {"store", "recheck", "run"} => Served(Fun(t), t)
  /\ At(t) \in {"store", "recheck"} /\ cCount = cCall[t].sampled =>
       Code!IsReady(Addr(t)) /\ EntryAt(Addr(t)).function = Fun(t)
  /\ At(t) = "recheck" => cCache[t][Addr(t)] \in {Code!NoFunction, Fun(t)}
Found == \A t \in CodeThreads : Finds(t)

\* What a thread cached a lookup finds too, or the sweep under way takes it.
Keeps(t, a) ==
  /\ Code!IsCurrent(cCache[t][a], cSwept) /\ ~cCache[t][a].once
  /\ \/ cCache[t][a] = Code!NoFunction
     \/ Code!IsReady(a) /\ EntryAt(a).function = cCache[t][a]
     \/ cSweeping # none /\ a \in cCall[cSweeping].dropped
CachedBy(t) ==
  \A a \in Code!Addresses :
    /\ cCache[t][a] \in Code!Functions(a)
    /\ (At(t) = "recheck" /\ Addr(t) = a) \/ Keeps(t, a)
Cached == \A t \in CodeThreads : CachedBy(t)

SweepInv ==
  /\ Code!TypeOK /\ Past /\ Owned /\ Compiling /\ Readies /\ Symbols /\ Found /\ Cached

-----------------------------------------------------------------------------
USE CodeOK

\* The guest writes a word, which only makes what is expected older than the code.
LEMMA WriteStep ==
  ASSUME SweepInv, NEW t \in CodeThreads, NEW w \in CodeWords, Code!Write(t, w),
         UNCHANGED cSetting
  PROVE  SweepInv'
<1>1. /\ cCode \in [CodeWords -> 0 .. MaxVersion] /\ cCode[w] < cSetting.versions
      /\ cSetting.versions \in 0 .. MaxVersion /\ MaxVersion \in Nat
  BY DEF SweepInv, Code!TypeOK, Code!Version, Code!Write, Code!CodeAssumption
<1>2. /\ cCode' \in [CodeWords -> 0 .. MaxVersion]
      /\ \A v \in CodeWords : cCode[v] <= cCode'[v]
  BY <1>1 DEF Code!Write
<1>3. UNCHANGED <<cSwept, cCount, cLog, cEntryOf, cEntry, cSymbol, cPieces, cCache, cSweeping,
                  cCall>>
  BY DEF Code!Write
<1>4. Code!TypeOK'
  BY <1>2, <1>3 DEF SweepInv, Code!TypeOK, Code!Version, Code!CallInfo
<1>5. Past'
  <2>1. \A v \in CodeWords : cCode[v] \in Nat /\ cCode'[v] \in Nat /\ cSwept[v] \in Nat
    BY <1>1, <1>2 DEF SweepInv, Code!TypeOK, Code!Version
  <2>2. \A u \in CodeThreads : cCall[u].expects \in [CodeWords -> Code!Version] =>
          \A v \in CodeWords : cCall[u].expects[v] \in Nat
    BY DEF Code!Version
  <2>3. \A v \in CodeWords : cSwept'[v] <= cCode'[v]
    BY <1>2, <1>3, <2>1 DEF SweepInv, Past
  <2>4. ASSUME NEW u \in CodeThreads, At(u) \in {"sweep", "clear"}, NEW v \in CodeWords
        PROVE  cCall[u].expects[v] <= cCode'[v]
    BY <1>2, <2>1, <2>2, <2>4 DEF SweepInv, Past, Expects
  <2> QED BY <1>3, <2>3, <2>4 DEF SweepInv, Past, Expects, At, Addr, Fun
<1>6. Owned' BY <1>3 DEF SweepInv, Owned, HasEntry, At, Addr
<1>7. Compiling'
  BY <1>3 DEF SweepInv, Compiling, Compiles, LoggedFor, SweptAt, At, Addr, Fun
<1>8. Readies' BY <1>3 DEF SweepInv, Readies, ReadyAt, EntryAt, Code!IsReady
<1>9. Symbols' BY <1>3 DEF SweepInv, Symbols, SymbolOf, Publishing, Code!IsReady, At, Addr
<1>10. Found'
  BY <1>3 DEF SweepInv, Found, Finds, Served, At, Addr, Fun, Code!IsReady, EntryAt
<1>11. Cached' BY <1>3 DEF SweepInv, Cached, CachedBy, Keeps, At, Addr, Code!IsReady, EntryAt
<1> QED BY <1>4, <1>5, <1>6, <1>7, <1>8, <1>9, <1>10, <1>11 DEF SweepInv

\* A thread that moves on, neither from the end of a compile nor into or out of a sweep's
\* second section, is the only one whose part of the invariant there is to show, with what
\* the threads cached.
LEMMA CacheMoves ==
  ASSUME SweepInv, NEW t \in CodeThreads,
         UNCHANGED <<cCode, cSwept, cCount, cLog, cEntryOf, cEntry, cSymbol, cPieces,
                     cSweeping, cSetting>>,
         cCache' \in [CodeThreads -> [Code!Addresses -> Code!AnyFunction]], Cached',
         cCall' \in [CodeThreads -> Code!CallInfo],
         \A u \in CodeThreads \ {t} : cCall'[u] = cCall[u],
         At(t) \notin {"clear", "publish"}, At(t)' # "clear",
         \A u \in CodeThreads \ {t} : cCache'[u] = cCache[u],
         At(t)' \in Own => At(t) \in Own /\ Addr(t)' = Addr(t),
         Expects(t)', HasEntry(t)', Compiles(t)', LoggedFor(t)', Finds(t)'
  PROVE  SweepInv'
<1>1. Code!TypeOK'
  BY DEF SweepInv, Code!TypeOK
<1>2. \A u \in CodeThreads \ {t} : At(u)' = At(u) /\ Addr(u)' = Addr(u) /\ Fun(u)' = Fun(u)
  BY DEF At, Addr, Fun
<1>3. Past'
  <2>1. \A u \in CodeThreads \ {t} : Expects(u)'
    BY <1>2 DEF SweepInv, Past, Expects
  <2> QED BY <1>2, <2>1 DEF SweepInv, Past
<1>4. Owned'
  <2>1. \A u \in CodeThreads \ {t} : HasEntry(u)'
    BY <1>2 DEF SweepInv, Owned, HasEntry
  <2> QED BY <1>2, <2>1 DEF SweepInv, Owned
<1>5. cSweeping # none => cSweeping \in CodeThreads \ {t}
  BY DEF SweepInv, Past, Code!TypeOK, Code!CodeAssumption
<1>6. Compiling'
  <2>1. \A u \in CodeThreads \ {t} : Compiles(u)'
    BY <1>2 DEF SweepInv, Compiling, Compiles, SweptAt
  <2>2. \A u \in CodeThreads \ {t} : LoggedFor(u)'
    BY <1>2, <1>5 DEF SweepInv, Compiling, LoggedFor
  <2> QED BY <2>1, <2>2 DEF Compiling
<1>7. Readies'
  BY <1>5 DEF SweepInv, Readies, ReadyAt, EntryAt, Code!IsReady
<1>8. Symbols'
  <2>1. \A u \in CodeThreads, a \in Code!Addresses : Publishing(u, a) => Publishing(u, a)'
    BY <1>2 DEF Publishing
  <2> QED BY <2>1 DEF SweepInv, Symbols, SymbolOf, Code!IsReady
<1>9. Found'
  <2>1. \A u \in CodeThreads \ {t} : Finds(u)'
    <3>1. ASSUME NEW u \in CodeThreads \ {t} PROVE Finds(u)'
      <4>1. Finds(u) /\ cCache'[u] = cCache[u]
        BY DEF SweepInv, Found
      <4> QED BY <1>2, <4>1 DEF Finds, Served, Code!IsReady, EntryAt
    <3> QED BY <3>1
  <2> QED BY <2>1 DEF Found
<1> QED BY <1>1, <1>3, <1>4, <1>6, <1>7, <1>8, <1>9 DEF SweepInv

\* The same where no cache changes either.
LEMMA CallMoves ==
  ASSUME SweepInv, NEW t \in CodeThreads,
         UNCHANGED <<cCode, cSwept, cCount, cLog, cEntryOf, cEntry, cSymbol, cPieces, cCache,
                     cSweeping, cSetting>>,
         cCall' \in [CodeThreads -> Code!CallInfo],
         \A u \in CodeThreads \ {t} : cCall'[u] = cCall[u],
         At(t) \notin {"clear", "publish", "recheck"}, At(t)' # "clear",
         At(t)' \in Own => At(t) \in Own /\ Addr(t)' = Addr(t),
         Expects(t)', HasEntry(t)', Compiles(t)', LoggedFor(t)', Finds(t)'
  PROVE  SweepInv'
<1>1. \A u \in CodeThreads \ {t} : At(u)' = At(u) /\ Addr(u)' = Addr(u)
  BY DEF At, Addr
<1>2. cSweeping # none => cSweeping \in CodeThreads \ {t}
  BY DEF SweepInv, Past, Code!TypeOK, Code!CodeAssumption
<1>3. \A u \in CodeThreads, a \in Code!Addresses : Keeps(u, a) => Keeps(u, a)'
  BY <1>2 DEF Keeps, Code!IsReady, EntryAt
<1>4. Cached'
  BY <1>1, <1>3 DEF SweepInv, Cached, CachedBy
<1>5. cCache' \in [CodeThreads -> [Code!Addresses -> Code!AnyFunction]]
  BY DEF SweepInv, Code!TypeOK
<1> QED BY <1>4, <1>5, CacheMoves

\* What the types say of one thread.
LEMMA InfoOf ==
  ASSUME SweepInv, NEW t \in CodeThreads
  PROVE  /\ cCall \in [CodeThreads -> Code!CallInfo] /\ cCall[t] \in Code!CallInfo
         /\ cCall[t].at \in {"idle", "sweep", "clear", "resolve", "wait", "begin", "declare",
                             "compile", "publish", "store", "recheck", "run", "fault"}
         /\ cCall[t].sampled \in Nat /\ cCall[t].since \in Nat /\ cCount \in Nat
         /\ cCall[t].function \in Code!AnyFunction /\ cCall[t].entry \in CodeEntries \cup {none}
         /\ cCall[t].attempt \in 0 .. MaxAttempts /\ cCall[t].names \in Seq(CodeNames)
         /\ cCall[t].words \subseteq CodeWords /\ cCall[t].dropped \subseteq Code!Addresses
         /\ cCall[t].dynamic \in BOOLEAN
BY DEF SweepInv, Code!TypeOK, Code!CallInfo, Code!Places

LEMMA IdleInfo ==
  /\ Code!Idle \in Code!CallInfo
  /\ Code!Idle.at = "idle" /\ Code!Idle.dynamic = FALSE /\ Code!Idle.entry = none
  /\ Code!Idle.function = Code!NoFunction
<1>1. <<>> \in Seq(CodeNames)
  OBVIOUS
<1>2. MaxAttempts \in Nat
  BY DEF Code!CodeAssumption
<1> QED BY <1>1, <1>2 DEF Code!Idle, Code!CallInfo, Code!AnyFunction, Code!Places

\* Of an address: its extent, and which functions of it are current.
LEMMA ExtentIn ==
  ASSUME NEW a \in Code!Addresses
  PROVE  /\ Code!Extent(a) \subseteq CodeWords /\ a[2] \in Code!Extent(a)
         /\ a[1] \in CodeNames /\ a[2] \in CodeWords /\ a = <<a[1], a[2]>>
<1>1. a[1] \in CodeNames /\ a[2] \in CodeWords /\ a = <<a[1], a[2]>>
  BY DEF Code!Addresses
<1>2. /\ a[2] \in Nat /\ End[a[2]] \in Nat /\ a[2] <= End[a[2]]
      /\ a[2] .. End[a[2]] \subseteq CodeWords
  BY <1>1 DEF Code!CodeAssumption
<1>3. a[2] \in a[2] .. End[a[2]]
  BY <1>2
<1> QED BY <1>1, <1>2, <1>3 DEF Code!Extent

\* A function is current when none of its words is older, or when it has none.
LEMMA CurrentMeans ==
  ASSUME NEW a \in Code!Addresses, NEW f \in Code!Functions(a), NEW e
  PROVE  Code!IsCurrent(f, e) <=>
           f = Code!NoFunction \/ \A w \in Code!Extent(a) : f.code[w] >= e[w]
<1>1. CASE f = Code!NoFunction
  <2>1. DOMAIN f.code = {}
    BY <1>1 DEF Code!NoFunction
  <2> QED BY <1>1, <2>1 DEF Code!IsCurrent
<1>2. CASE f # Code!NoFunction
  <2>1. DOMAIN f.code = Code!Extent(a)
    BY <1>2 DEF Code!Functions
  <2> QED BY <1>2, <2>1 DEF Code!IsCurrent
<1> QED BY <1>1, <1>2

\* What is current is current for whoever expects less.
LEMMA CurrentBefore ==
  ASSUME NEW a \in Code!Addresses, NEW f \in Code!Functions(a),
         NEW e \in [CodeWords -> Code!Version], NEW d \in [CodeWords -> Code!Version],
         \A w \in Code!Extent(a) : d[w] <= e[w], Code!IsCurrent(f, e)
  PROVE  Code!IsCurrent(f, d)
<1>1. CASE f = Code!NoFunction
  BY <1>1, CurrentMeans
<1>2. CASE f # Code!NoFunction
  <2>1. \A w \in Code!Extent(a) :
          e[w] \in Nat /\ d[w] \in Nat /\ f.code[w] \in Nat /\ d[w] <= e[w] /\ f.code[w] >= e[w]
    BY <1>2, ExtentIn, CurrentMeans DEF Code!Functions, Code!Version
  <2> QED BY <2>1, CurrentMeans
<1> QED BY <1>1, <1>2

\* A step of one thread keeps the calls of the others.
LEMMA Moved ==
  ASSUME SweepInv, NEW t \in CodeThreads, NEW r \in Code!CallInfo,
         cCall' = [cCall EXCEPT ![t] = r]
  PROVE  /\ cCall' \in [CodeThreads -> Code!CallInfo] /\ cCall'[t] = r
         /\ \A u \in CodeThreads \ {t} : cCall'[u] = cCall[u]
BY InfoOf

\* A thread at rest, or on its way from a call.
LEMMA IdleStep ==
  ASSUME SweepInv, NEW t \in CodeThreads, Code!Finish(t), UNCHANGED cSetting
  PROVE  SweepInv'
<1>1. /\ cCall' = [cCall EXCEPT ![t] = Code!Idle] /\ At(t) \in {"run", "fault"}
      /\ UNCHANGED <<cCode, cSwept, cCount, cLog, cEntryOf, cEntry, cSymbol, cPieces, cCache,
                     cSweeping, cSetting>>
  BY DEF Code!Finish, At
<1>2. cCall' \in [CodeThreads -> Code!CallInfo] /\ cCall'[t] = Code!Idle
  BY <1>1, InfoOf, IdleInfo
<1>3. At(t)' = "idle" /\ cCall'[t].entry = none /\ cCall'[t].dynamic = FALSE
  BY <1>2, IdleInfo DEF At
<1>4. /\ Expects(t)' /\ HasEntry(t)' /\ Compiles(t)' /\ LoggedFor(t)' /\ Finds(t)'
  BY <1>3 DEF Expects, HasEntry, Compiles, LoggedFor, Finds, Own, Calling
<1> QED BY <1>1, <1>2, <1>3, <1>4, CallMoves DEF Own

\* A sweep begins: what it promises is the code there is.
LEMMA KeSweepStep ==
  ASSUME SweepInv, NEW t \in CodeThreads, NEW s \in cSetting.sweeps,
         Code!KeSweepIcacheRange(t, s), UNCHANGED cSetting
  PROVE  SweepInv'
<1>1. At(t) = "idle" /\ UNCHANGED <<cCode, cSwept, cCount, cLog, cEntryOf, cEntry, cSymbol,
                                    cPieces, cCache, cSweeping, cSetting>>
  BY DEF Code!KeSweepIcacheRange, At, Code!At
<1>2. cCall' = [cCall EXCEPT ![t] = [Code!Idle EXCEPT !.at = "sweep",
                                !.names = SweepNames[s.name], !.words = s.words,
                                !.expects = cCode]]
  BY DEF Code!KeSweepIcacheRange
<1>3. /\ s.name \in CodeNames /\ s.words \subseteq CodeWords
      /\ SweepNames[s.name] \in Seq(CodeNames) /\ SweepNames[s.name] # <<>>
      /\ cCode \in [CodeWords -> Code!Version]
  BY DEF SweepInv, Code!TypeOK, Code!CodeAssumption
<1>4. /\ cCall' \in [CodeThreads -> Code!CallInfo]
      /\ \A u \in CodeThreads \ {t} : cCall'[u] = cCall[u]
      /\ At(t)' = "sweep" /\ cCall'[t].entry = none /\ cCall'[t].dynamic = FALSE
      /\ cCall'[t].names = SweepNames[s.name] /\ cCall'[t].expects = cCode
  BY <1>2, <1>3, InfoOf, IdleInfo DEF Code!CallInfo, Code!Places, At
<1>5. Expects(t)'
  <2>1. \A w \in CodeWords : cCode[w] <= cCode[w]
    BY <1>3 DEF Code!Version
  <2> QED BY <1>1, <1>3, <1>4, <2>1 DEF Expects, Own, Calling
<1>6. HasEntry(t)' /\ Compiles(t)' /\ LoggedFor(t)' /\ Finds(t)'
  BY <1>4 DEF HasEntry, Compiles, LoggedFor, Finds, Own
<1> QED BY <1>1, <1>4, <1>5, <1>6, CallMoves DEF Own

\* A call begins: it expects what the last sweeps promised.
LEMMA CallStep ==
  ASSUME SweepInv, NEW t \in CodeThreads, NEW a \in cSetting.called, Code!Call(t, a),
         UNCHANGED cSetting
  PROVE  SweepInv'
<1>1. At(t) = "idle" /\ UNCHANGED <<cCode, cSwept, cCount, cLog, cEntryOf, cEntry, cSymbol,
                                    cPieces, cCache, cSweeping, cSetting>>
  BY DEF Code!Call, At, Code!At
<1>2. /\ a \in Code!Addresses /\ cSwept \in [CodeWords -> Code!Version] /\ cCount \in Nat
      /\ cCache[t][a] \in Code!AnyFunction /\ cCache[t][a] \in Code!Functions(a)
      /\ Keeps(t, a)
  BY <1>1 DEF SweepInv, Code!TypeOK, Code!CodeAssumption, Code!Addresses, Cached, CachedBy
<1>3. CASE cCache[t][a] # Code!NoFunction
  <2>1. cCall' = [cCall EXCEPT ![t] = [Code!Idle EXCEPT !.at = "run", !.addr = a,
                                  !.function = cCache[t][a], !.expects = cSwept]]
    BY <1>3 DEF Code!Call
  <2>2. /\ cCall' \in [CodeThreads -> Code!CallInfo]
        /\ \A u \in CodeThreads \ {t} : cCall'[u] = cCall[u]
        /\ At(t)' = "run" /\ cCall'[t].entry = none /\ cCall'[t].dynamic = FALSE
        /\ cCall'[t].expects = cSwept /\ Addr(t)' = a /\ Fun(t)' = cCache[t][a]
        /\ cCall'[t].sampled = 0
    BY <1>2, <2>1, InfoOf, IdleInfo DEF Code!CallInfo, Code!Places, At, Addr, Fun, Code!Idle
  <2>3. Expects(t)'
    <3>1. \A w \in CodeWords : cSwept[w] <= cSwept[w]
      BY <1>2 DEF Code!Version
    <3> QED BY <1>1, <1>2, <2>2, <3>1 DEF Expects, Own, Calling
  <2>4. HasEntry(t)' /\ Compiles(t)' /\ LoggedFor(t)'
    BY <2>2 DEF HasEntry, Compiles, LoggedFor, Own
  <2>5. Finds(t)'
    BY <1>2, <2>2 DEF Finds, Served, Keeps
  <2> QED BY <1>1, <2>2, <2>3, <2>4, <2>5, CallMoves DEF Own
<1>4. CASE cCache[t][a] = Code!NoFunction
  <2>1. cCall' = [cCall EXCEPT ![t] = [Code!Idle EXCEPT !.at = "resolve", !.addr = a,
                                  !.sampled = cCount, !.expects = cSwept]]
    BY <1>4 DEF Code!Call
  <2>2. /\ cCall' \in [CodeThreads -> Code!CallInfo]
        /\ \A u \in CodeThreads \ {t} : cCall'[u] = cCall[u]
        /\ At(t)' = "resolve" /\ cCall'[t].entry = none /\ cCall'[t].dynamic = FALSE
        /\ cCall'[t].expects = cSwept /\ Addr(t)' = a /\ Fun(t)' = Code!NoFunction
        /\ cCall'[t].sampled = cCount
    BY <1>2, <2>1, InfoOf, IdleInfo DEF Code!CallInfo, Code!Places, At, Addr, Fun, Code!Idle
  <2>3. Expects(t)'
    <3>1. \A w \in CodeWords : cSwept[w] <= cSwept[w]
      BY <1>2 DEF Code!Version
    <3> QED BY <1>1, <1>2, <2>2, <3>1 DEF Expects, Own, Calling, Code!Functions
  <2>4. HasEntry(t)' /\ Compiles(t)' /\ LoggedFor(t)' /\ Finds(t)'
    BY <2>2 DEF HasEntry, Compiles, LoggedFor, Own, Finds
  <2> QED BY <1>1, <2>2, <2>3, <2>4, CallMoves DEF Own
<1> QED BY <1>3, <1>4

\* A call that waited takes what the other compiled.
LEMMA AwaitStep ==
  ASSUME SweepInv, NEW t \in CodeThreads, Code!AwaitCompile(t), UNCHANGED cSetting
  PROVE  SweepInv'
<1> DEFINE i == cCall[t].entry
           e == cEntry[i]
<1>1. /\ At(t) = "wait" /\ UNCHANGED <<cCode, cSwept, cCount, cLog, cEntryOf, cEntry, cSymbol,
                                       cPieces, cCache, cSweeping, cSetting>>
      /\ cCall' = [cCall EXCEPT ![t] = Code!Resolved(cCall[t], e)]
  BY DEF Code!AwaitCompile, At, Code!At, Code!Locked
<1>2. /\ i \in CodeEntries /\ i # none /\ Expects(t) /\ HasEntry(t) /\ Compiles(t) /\ Finds(t)
      /\ cCall[t] \in Code!CallInfo
  BY <1>1, InfoOf DEF SweepInv, Owned, Past, Compiling, Found, HasEntry, Code!CodeAssumption
<1>3. e.function \in Code!AnyFunction
  <2>1. e \in [status : {"compiling", "ready", "failed"}, function : Code!AnyFunction]
    BY <1>2 DEF SweepInv, Code!TypeOK
  <2> QED BY <2>1
<1>4. CASE e.status = "ready"
  <2> DEFINE r == [cCall[t] EXCEPT !.at = "store", !.entry = none, !.function = e.function]
  <2>1. /\ r \in Code!CallInfo /\ r.at = "store" /\ r.addr = cCall[t].addr
        /\ r.entry = none /\ r.function = e.function /\ r.sampled = cCall[t].sampled
        /\ r.dynamic = cCall[t].dynamic /\ r.expects = cCall[t].expects
    BY <1>2, <1>3 DEF Code!CallInfo, Code!Places
  <2>2. cCall' = [cCall EXCEPT ![t] = r]
    BY <1>1, <1>4 DEF Code!Resolved
  <2> HIDE DEF r
  <2>3. /\ cCall' \in [CodeThreads -> Code!CallInfo]
        /\ \A u \in CodeThreads \ {t} : cCall'[u] = cCall[u]
        /\ At(t)' = "store" /\ cCall'[t].entry = none /\ Fun(t)' = e.function
        /\ Addr(t)' = Addr(t) /\ cCall'[t].expects = cCall[t].expects
        /\ cCall'[t].sampled = cCall[t].sampled /\ cCall'[t].dynamic = cCall[t].dynamic
    BY <2>1, <2>2, Moved DEF At, Addr, Fun
  <2>4. e.function \in Code!Functions(Addr(t)) /\ Served(e.function, t)
    BY <1>1, <1>2, <1>4 DEF Finds
  <2>5. HasEntry(t)' /\ Compiles(t)' /\ LoggedFor(t)' /\ Expects(t)'
    BY <1>1, <1>2, <2>3, <2>4 DEF HasEntry, Compiles, LoggedFor, Own, Expects, Calling
  <2>6. Finds(t)'
    <3>1. cCount = cCall[t].sampled =>
            Code!IsReady(Addr(t)) /\ EntryAt(Addr(t)).function = e.function
      BY <1>1, <1>2, <1>4 DEF Finds, Code!IsReady, EntryAt
    <3> QED BY <1>1, <2>3, <2>4, <3>1 DEF Finds, Served, Code!IsReady, EntryAt
  <2> QED BY <1>1, <2>3, <2>5, <2>6, CallMoves DEF Own
<1>5. CASE e.status # "ready"
  <2> DEFINE r == [cCall[t] EXCEPT !.at = "fault", !.entry = none]
  <2>1. /\ r \in Code!CallInfo /\ r.at = "fault" /\ r.entry = none
        /\ r.dynamic = cCall[t].dynamic
    BY <1>2 DEF Code!CallInfo, Code!Places
  <2>2. cCall' = [cCall EXCEPT ![t] = r]
    BY <1>1, <1>5 DEF Code!Resolved
  <2> HIDE DEF r
  <2>3. /\ cCall' \in [CodeThreads -> Code!CallInfo]
        /\ \A u \in CodeThreads \ {t} : cCall'[u] = cCall[u]
        /\ At(t)' = "fault" /\ cCall'[t].entry = none /\ cCall'[t].dynamic = cCall[t].dynamic
    BY <2>1, <2>2, Moved DEF At, Addr, Fun
  <2>4. /\ Expects(t)' /\ HasEntry(t)' /\ Compiles(t)' /\ LoggedFor(t)' /\ Finds(t)'
    BY <1>1, <1>2, <2>3 DEF Expects, HasEntry, Compiles, LoggedFor, Finds, Own, Calling
  <2> QED BY <1>1, <2>3, <2>4, CallMoves DEF Own
<1> QED BY <1>4, <1>5

\* The address a thread compiles, but for what it has just compiled itself, has nothing yet.
LEMMA NothingDefined ==
  ASSUME SweepInv, NEW t \in CodeThreads, At(t) \in {"begin", "declare", "compile"}
  PROVE  Addr(t) \in Code!Addresses /\ cSymbol[Addr(t)].status # "defined"
<1>1. Addr(t) \in Code!Addresses /\ ~Code!IsReady(Addr(t))
  BY DEF SweepInv, Past, Owned, Expects, HasEntry, Own, Calling, Code!IsReady
<1>2. \A u \in CodeThreads : ~Publishing(u, Addr(t))
  BY DEF SweepInv, Owned, Publishing, Own
<1> QED BY <1>1, <1>2 DEF SweepInv, Symbols, SymbolOf

\* A compile begins.
LEMMA BeginStep ==
  ASSUME SweepInv, NEW t \in CodeThreads, Code!BeginCompile(t), UNCHANGED cSetting
  PROVE  SweepInv'
<1>1. /\ At(t) = "begin" /\ cSweeping = none
      /\ UNCHANGED <<cCode, cSwept, cCount, cLog, cEntryOf, cEntry, cSymbol, cPieces, cCache,
                     cSweeping, cSetting>>
      /\ cCall' = [cCall EXCEPT ![t] =
                     IF Code!ContainsAddress(cCall[t].addr)
                     THEN [cCall[t] EXCEPT !.at = "declare", !.dynamic = TRUE,
                                           !.since = cCount, !.attempt = 1]
                     ELSE [cCall[t] EXCEPT !.at = "publish"]]
  BY DEF Code!BeginCompile, At, Code!At, Code!Locked
<1>2. /\ Expects(t) /\ HasEntry(t) /\ Compiles(t) /\ cCount \in Nat /\ 1 \in 0 .. MaxAttempts
      /\ cCall[t] \in Code!CallInfo
  BY InfoOf DEF SweepInv, Owned, Past, Compiling, Code!CodeAssumption
<1>3. CASE Code!ContainsAddress(cCall[t].addr)
  <2> DEFINE r == [cCall[t] EXCEPT !.at = "declare", !.dynamic = TRUE, !.since = cCount,
                                   !.attempt = 1]
  <2>1. /\ r \in Code!CallInfo /\ r.at = "declare" /\ r.addr = cCall[t].addr
        /\ r.entry = cCall[t].entry /\ r.function = cCall[t].function
        /\ r.sampled = cCall[t].sampled /\ r.dynamic /\ r.since = cCount
        /\ r.expects = cCall[t].expects
    BY <1>2 DEF Code!CallInfo, Code!Places
  <2>2. cCall' = [cCall EXCEPT ![t] = r]
    BY <1>1, <1>3
  <2> HIDE DEF r
  <2>3. /\ cCall' \in [CodeThreads -> Code!CallInfo]
        /\ \A u \in CodeThreads \ {t} : cCall'[u] = cCall[u]
        /\ At(t)' = "declare" /\ cCall'[t].entry = cCall[t].entry /\ Fun(t)' = Fun(t)
        /\ Addr(t)' = Addr(t) /\ cCall'[t].expects = cCall[t].expects
        /\ cCall'[t].sampled = cCall[t].sampled /\ cCall'[t].dynamic
        /\ cCall'[t].since = cCount
    BY <2>1, <2>2, Moved DEF At, Addr, Fun
  <2>4. Expects(t)' /\ HasEntry(t)' /\ Compiles(t)' /\ LoggedFor(t)' /\ Finds(t)'
    BY <1>1, <1>2, <2>3 DEF Expects, HasEntry, Compiles, LoggedFor, Finds, Own, Calling
  <2> QED BY <1>1, <2>3, <2>4, CallMoves DEF Own
<1>4. CASE ~Code!ContainsAddress(cCall[t].addr)
  <2> DEFINE r == [cCall[t] EXCEPT !.at = "publish"]
  <2>1. /\ r \in Code!CallInfo /\ r.at = "publish" /\ r.addr = cCall[t].addr
        /\ r.entry = cCall[t].entry /\ r.function = cCall[t].function
        /\ r.sampled = cCall[t].sampled /\ r.dynamic = cCall[t].dynamic
        /\ r.expects = cCall[t].expects
    BY <1>2 DEF Code!CallInfo, Code!Places
  <2>2. cCall' = [cCall EXCEPT ![t] = r]
    BY <1>1, <1>4
  <2> HIDE DEF r
  <2>3. /\ cCall' \in [CodeThreads -> Code!CallInfo]
        /\ \A u \in CodeThreads \ {t} : cCall'[u] = cCall[u]
        /\ At(t)' = "publish" /\ cCall'[t].entry = cCall[t].entry /\ Fun(t)' = Fun(t)
        /\ Addr(t)' = Addr(t) /\ cCall'[t].expects = cCall[t].expects
        /\ cCall'[t].sampled = cCall[t].sampled /\ cCall'[t].dynamic = cCall[t].dynamic
    BY <2>1, <2>2, Moved DEF At, Addr, Fun
  <2>4. cSymbol[Addr(t)].status # "defined"
    BY <1>1, NothingDefined
  <2>5. Expects(t)' /\ HasEntry(t)' /\ LoggedFor(t)' /\ Finds(t)' /\ Compiles(t)'
    BY <1>1, <1>2, <2>3, <2>4 DEF Expects, HasEntry, LoggedFor, Finds, Own, Calling, Compiles
  <2> QED BY <1>1, <2>3, <2>5, CallMoves DEF Own
<1> QED BY <1>3, <1>4

\* GetOrCreate where the table has an entry.
LEMMA LookStep ==
  ASSUME SweepInv, NEW t \in CodeThreads, Code!GetOrCreate(t), cEntryOf[Addr(t)] # none,
         UNCHANGED cSetting
  PROVE  SweepInv'
<1> DEFINE a == Addr(t)
           old == cEntryOf[a]
           e == cEntry[old]
<1>1. /\ At(t) = "resolve" /\ UNCHANGED <<cCode, cSwept, cCount, cLog, cEntryOf, cEntry, cSymbol,
                                    cPieces, cCache, cSweeping, cSetting>>
      /\ cCall' = [cCall EXCEPT ![t] =
                          IF e.status = "compiling"
                          THEN [cCall[t] EXCEPT !.entry = old, !.at = "wait"]
                          ELSE Code!Resolved(cCall[t], e)]
  BY DEF Code!GetOrCreate, At, Code!At, Code!Locked, Addr
<1>2. /\ a \in Code!Addresses /\ old \in CodeEntries /\ old # none
      /\ Expects(t) /\ HasEntry(t) /\ Compiles(t) /\ Fun(t) = Code!NoFunction
      /\ cCall[t] \in Code!CallInfo /\ cSwept \in [CodeWords -> Code!Version]
  BY <1>1, InfoOf DEF SweepInv, Past, Owned, Compiling, Expects, Calling, Compiles, Code!TypeOK
<1>3. e.function \in Code!AnyFunction
  <2>1. e \in [status : {"compiling", "ready", "failed"}, function : Code!AnyFunction]
    BY <1>2 DEF SweepInv, Code!TypeOK
  <2> QED BY <2>1
<1>4. CASE e.status = "compiling"
  <2> DEFINE r == [cCall[t] EXCEPT !.entry = old, !.at = "wait"]
  <2>1. /\ r \in Code!CallInfo /\ r.at = "wait" /\ r.addr = cCall[t].addr
        /\ r.entry = old /\ r.function = cCall[t].function /\ r.sampled = cCall[t].sampled
        /\ r.dynamic = cCall[t].dynamic /\ r.expects = cCall[t].expects
    BY <1>2 DEF Code!CallInfo, Code!Places
  <2>2. cCall' = [cCall EXCEPT ![t] = r]
    BY <1>1, <1>4
  <2> HIDE DEF r
  <2>3. /\ cCall' \in [CodeThreads -> Code!CallInfo]
        /\ \A u \in CodeThreads \ {t} : cCall'[u] = cCall[u]
        /\ At(t)' = "wait" /\ cCall'[t].entry = old /\ Fun(t)' = Fun(t)
        /\ Addr(t)' = a /\ cCall'[t].expects = cCall[t].expects
        /\ cCall'[t].sampled = cCall[t].sampled /\ cCall'[t].dynamic = cCall[t].dynamic
    BY <2>1, <2>2, Moved DEF At, Addr, Fun
  <2>4. HasEntry(t)'
    BY <1>1, <1>2, <2>3 DEF HasEntry, Own, SweepInv, Owned
  <2>5. Expects(t)' /\ Compiles(t)' /\ LoggedFor(t)' /\ Finds(t)'
    BY <1>1, <1>2, <1>4, <2>3 DEF Expects, Compiles, LoggedFor, Finds, Own, Calling
  <2> QED BY <1>1, <2>3, <2>4, <2>5, CallMoves DEF Own
<1>5. CASE e.status = "ready"
  <2> DEFINE r == [cCall[t] EXCEPT !.at = "store", !.entry = none, !.function = e.function]
  <2>1. /\ r \in Code!CallInfo /\ r.at = "store" /\ r.addr = cCall[t].addr
        /\ r.entry = none /\ r.function = e.function /\ r.sampled = cCall[t].sampled
        /\ r.dynamic = cCall[t].dynamic /\ r.expects = cCall[t].expects
    BY <1>2, <1>3 DEF Code!CallInfo, Code!Places
  <2>2. cCall' = [cCall EXCEPT ![t] = r]
    BY <1>1, <1>5 DEF Code!Resolved
  <2> HIDE DEF r
  <2>3. /\ cCall' \in [CodeThreads -> Code!CallInfo]
        /\ \A u \in CodeThreads \ {t} : cCall'[u] = cCall[u]
        /\ At(t)' = "store" /\ cCall'[t].entry = none /\ Fun(t)' = e.function
        /\ Addr(t)' = a /\ cCall'[t].expects = cCall[t].expects
        /\ cCall'[t].sampled = cCall[t].sampled /\ cCall'[t].dynamic = cCall[t].dynamic
    BY <2>1, <2>2, Moved DEF At, Addr, Fun
  <2>4. Code!IsReady(a) /\ EntryAt(a).function = e.function /\ ReadyAt(a)
    BY <1>2, <1>5 DEF Code!IsReady, EntryAt, SweepInv, Readies
  <2>5. e.function \in Code!Functions(a) /\ Served(e.function, t)
    <3>1. e.function \in Code!Functions(a) /\ Code!IsCurrent(e.function, cSwept)
      BY <2>4 DEF ReadyAt
    <3>2. \A w \in Code!Extent(a) : cCall[t].expects[w] <= cSwept[w]
      BY <1>1, <1>2, ExtentIn DEF Expects, Calling
    <3>3. cCall[t].expects \in [CodeWords -> Code!Version]
      BY <1>1, <1>2 DEF Expects, Calling
    <3>4. Code!IsCurrent(e.function, cCall[t].expects)
      BY <1>2, <3>1, <3>2, <3>3, CurrentBefore
    <3> QED BY <3>1, <3>4 DEF Served
  <2>6. HasEntry(t)' /\ Compiles(t)' /\ LoggedFor(t)' /\ Expects(t)'
    BY <1>1, <1>2, <2>3, <2>5 DEF HasEntry, Compiles, LoggedFor, Own, Expects, Calling
  <2>7. Finds(t)'
    BY <1>1, <2>3, <2>4, <2>5 DEF Finds, Served, Code!IsReady, EntryAt
  <2> QED BY <1>1, <2>3, <2>6, <2>7, CallMoves DEF Own
<1>6. CASE e.status \notin {"compiling", "ready"}
  <2> DEFINE r == [cCall[t] EXCEPT !.at = "fault", !.entry = none]
  <2>1. /\ r \in Code!CallInfo /\ r.at = "fault" /\ r.entry = none
        /\ r.dynamic = cCall[t].dynamic
    BY <1>2 DEF Code!CallInfo, Code!Places
  <2>2. cCall' = [cCall EXCEPT ![t] = r]
    BY <1>1, <1>6 DEF Code!Resolved
  <2> HIDE DEF r
  <2>3. /\ cCall' \in [CodeThreads -> Code!CallInfo]
        /\ \A u \in CodeThreads \ {t} : cCall'[u] = cCall[u]
        /\ At(t)' = "fault" /\ cCall'[t].entry = none /\ cCall'[t].dynamic = cCall[t].dynamic
    BY <2>1, <2>2, Moved DEF At, Addr, Fun
  <2>4. /\ Expects(t)' /\ HasEntry(t)' /\ Compiles(t)' /\ LoggedFor(t)' /\ Finds(t)'
    BY <1>1, <1>2, <2>3 DEF Expects, HasEntry, Compiles, LoggedFor, Finds, Own, Calling
  <2> QED BY <1>1, <2>3, <2>4, CallMoves DEF Own
<1> QED BY <1>4, <1>5, <1>6

\* GetOrCreate where it has none: the call owns the new one.
LEMMA CreateStep ==
  ASSUME SweepInv, NEW t \in CodeThreads, Code!GetOrCreate(t), cEntryOf[Addr(t)] = none,
         UNCHANGED cSetting
  PROVE  SweepInv'
<1> DEFINE a == Addr(t)
<1>1. PICK i \in CodeEntries :
        /\ \A b \in Code!Addresses : cEntryOf[b] # i
        /\ \A u \in CodeThreads : cCall[u].entry # i
        /\ cEntryOf' = [cEntryOf EXCEPT ![a] = i]
        /\ cEntry' = [cEntry EXCEPT ![i] = Code!NewEntry]
        /\ cCall' = [cCall EXCEPT ![t].entry = i, ![t].at = "begin"]
  BY DEF Code!GetOrCreate, Addr, Code!NewEntries, Code!Unused
<1>2. /\ At(t) = "resolve" /\ cSweeping = none
      /\ UNCHANGED <<cCode, cSwept, cCount, cLog, cSymbol, cPieces, cCache, cSweeping, cSetting>>
  BY DEF Code!GetOrCreate, At, Code!At, Code!Locked
<1>3. /\ a \in Code!Addresses /\ none \notin CodeEntries
      /\ Expects(t) /\ HasEntry(t) /\ Compiles(t) /\ Fun(t) = Code!NoFunction
      /\ cCall[t] \in Code!CallInfo /\ ~cCall[t].dynamic
      /\ cEntryOf \in [Code!Addresses -> CodeEntries \cup {none}]
      /\ cEntry \in [CodeEntries -> [status : {"compiling", "ready", "failed"},
                                     function : Code!AnyFunction]]
  BY <1>2, InfoOf DEF SweepInv, Past, Owned, Compiling, Expects, Calling, Compiles, Code!TypeOK,
                      Code!CodeAssumption
<1>4. /\ cCall' \in [CodeThreads -> Code!CallInfo]
      /\ \A u \in CodeThreads \ {t} : cCall'[u] = cCall[u]
      /\ At(t)' = "begin" /\ cCall'[t].entry = i /\ Fun(t)' = Fun(t)
      /\ Addr(t)' = a /\ cCall'[t].expects = cCall[t].expects
      /\ cCall'[t].sampled = cCall[t].sampled /\ cCall'[t].dynamic = cCall[t].dynamic
  <2> DEFINE r == [cCall[t] EXCEPT !.entry = i, !.at = "begin"]
  <2>1. /\ r \in Code!CallInfo /\ r.at = "begin" /\ r.addr = cCall[t].addr
        /\ r.entry = i /\ r.function = cCall[t].function /\ r.sampled = cCall[t].sampled
        /\ r.dynamic = cCall[t].dynamic /\ r.expects = cCall[t].expects
    BY <1>3 DEF Code!CallInfo, Code!Places
  <2>2. cCall' = [cCall EXCEPT ![t] = r]
    BY <1>1, InfoOf
  <2> HIDE DEF r
  <2> QED BY <2>1, <2>2, Moved DEF At, Addr, Fun
<1>5. \A u \in CodeThreads \ {t} : At(u)' = At(u) /\ Addr(u)' = Addr(u) /\ Fun(u)' = Fun(u)
  BY <1>4 DEF At, Addr, Fun
<1>6. /\ cEntryOf'[a] = i /\ cEntry'[i].status = "compiling"
      /\ \A b \in Code!Addresses \ {a} : cEntryOf'[b] = cEntryOf[b]
      /\ \A j \in CodeEntries \ {i} : cEntry'[j] = cEntry[j]
  BY <1>1, <1>3 DEF Code!NewEntry
<1>7. Code!TypeOK'
  <2>1. Code!NewEntry \in [status : {"compiling", "ready", "failed"}, function : Code!AnyFunction]
    BY DEF Code!NewEntry, Code!AnyFunction
  <2>2. /\ cEntryOf' \in [Code!Addresses -> CodeEntries \cup {none}]
        /\ cEntry' \in [CodeEntries -> [status : {"compiling", "ready", "failed"},
                                       function : Code!AnyFunction]]
    BY <1>1, <1>3, <2>1
  <2> QED BY <1>2, <1>4, <2>2 DEF SweepInv, Code!TypeOK
<1>8. Past'
  <2>1. \A u \in CodeThreads \ {t} : Expects(u)'
    BY <1>2, <1>4, <1>5 DEF SweepInv, Past, Expects
  <2>2. Expects(t)'
    BY <1>2, <1>3, <1>4 DEF Expects, Own, Calling
  <2> QED BY <1>2, <1>4, <1>5, <2>1, <2>2 DEF SweepInv, Past, Code!CodeAssumption
<1>9. Owned'
  <2>1. \A b, d \in Code!Addresses : cEntryOf'[b] = cEntryOf'[d] /\ cEntryOf'[b] # none => b = d
    BY <1>1, <1>6 DEF SweepInv, Owned
  <2>2. ASSUME NEW u \in CodeThreads \ {t}, At(u) \in Own PROVE Addr(u) # a
    BY <1>3, <2>2 DEF SweepInv, Owned, HasEntry
  <2>3. ASSUME NEW u \in CodeThreads \ {t} PROVE HasEntry(u)'
    <3>1. HasEntry(u) /\ cCall[u].entry # i /\ (At(u) \in Own => Addr(u) \in Code!Addresses)
      BY <1>1 DEF SweepInv, Owned, Past, Expects, Own, Calling
    <3> QED BY <1>4, <1>5, <1>6, <2>2, <3>1 DEF HasEntry
  <2>4. HasEntry(t)'
    BY <1>1, <1>4, <1>6 DEF HasEntry, Own
  <2> QED BY <1>4, <1>5, <2>1, <2>2, <2>3, <2>4 DEF SweepInv, Owned
<1>10. Compiling'
  <2>1. \A u \in CodeThreads \ {t} : Compiles(u)' /\ LoggedFor(u)'
    BY <1>2, <1>4, <1>5 DEF SweepInv, Compiling, Compiles, SweptAt, LoggedFor
  <2>2. Compiles(t)' /\ LoggedFor(t)'
    BY <1>2, <1>3, <1>4 DEF Compiles, LoggedFor
  <2> QED BY <2>1, <2>2 DEF Compiling
<1>11. \A b \in Code!Addresses : /\ Code!IsReady(b)' <=> Code!IsReady(b)
                                 /\ Code!IsReady(b) => b # a /\ EntryAt(b)' = EntryAt(b)
  BY <1>1, <1>3, <1>6 DEF Code!IsReady, EntryAt
<1>12. Readies'
  BY <1>2, <1>11 DEF SweepInv, Readies, ReadyAt
<1>13. Symbols'
  <2>1. \A u \in CodeThreads, b \in Code!Addresses : Publishing(u, b) => Publishing(u, b)'
    BY <1>2, <1>4, <1>5 DEF Publishing
  <2> QED BY <1>2, <1>11, <2>1 DEF SweepInv, Symbols, SymbolOf
<1>14. Found'
  <2>1. ASSUME NEW u \in CodeThreads \ {t} PROVE Finds(u)'
    <3>1. Finds(u) /\ HasEntry(u) /\ Expects(u)
      BY DEF SweepInv, Found, Owned, Past
    <3>2. At(u) = "wait" => /\ cCall[u].entry \in CodeEntries \ {i} /\ Addr(u) \in Code!Addresses
                            /\ cCount = cCall[u].sampled => Addr(u) # a
      BY <1>1, <1>3, <3>1 DEF HasEntry, Expects, Calling, Finds
    <3>3. At(u) \in {"store", "recheck"} => Addr(u) \in Code!Addresses
      BY <3>1 DEF Expects, Calling
    <3> QED BY <1>2, <1>4, <1>5, <1>6, <1>11, <3>1, <3>2, <3>3 DEF Finds, Served
  <2>2. Finds(t)'
    BY <1>4 DEF Finds
  <2> QED BY <2>1, <2>2 DEF Found
<1>15. Cached'
  <2>1. \A u \in CodeThreads, b \in Code!Addresses : Keeps(u, b) => Keeps(u, b)'
    BY <1>2, <1>11 DEF Keeps
  <2> QED BY <1>2, <1>4, <1>5, <2>1 DEF SweepInv, Cached, CachedBy
<1> QED BY <1>7, <1>8, <1>9, <1>10, <1>12, <1>13, <1>14, <1>15 DEF SweepInv

\* A thread that compiles an address defines its symbol.
LEMMA OwnerMoves ==
  ASSUME SweepInv, NEW t \in CodeThreads, At(t) \in {"declare", "compile"}, At(t)' \in Own,
         Addr(t)' = Addr(t),
         UNCHANGED <<cCode, cSwept, cCount, cLog, cEntryOf, cEntry, cPieces, cCache,
                     cSweeping, cSetting>>,
         cCall' \in [CodeThreads -> Code!CallInfo],
         \A u \in CodeThreads \ {t} : cCall'[u] = cCall[u],
         cSymbol' \in [Code!Addresses -> [status : {"none", "defining", "defined", "failed"},
                                          function : Code!AnyFunction]],
         \A b \in Code!Addresses \ {Addr(t)} : cSymbol'[b] = cSymbol[b],
         SymbolOf(Addr(t))', Expects(t)', HasEntry(t)', Compiles(t)', LoggedFor(t)'
  PROVE  SweepInv'
<1>1. Code!TypeOK'
  BY DEF SweepInv, Code!TypeOK
<1>2. \A u \in CodeThreads \ {t} : At(u)' = At(u) /\ Addr(u)' = Addr(u) /\ Fun(u)' = Fun(u)
  BY DEF At, Addr, Fun
<1>3. Past'
  <2>1. \A u \in CodeThreads \ {t} : Expects(u)'
    BY <1>2 DEF SweepInv, Past, Expects
  <2> QED BY <1>2, <2>1 DEF SweepInv, Past, Own
<1>4. Owned'
  <2>1. \A u \in CodeThreads \ {t} : HasEntry(u)'
    BY <1>2 DEF SweepInv, Owned, HasEntry
  <2> QED BY <1>2, <2>1 DEF SweepInv, Owned, Own
<1>5. cSweeping # none => cSweeping \in CodeThreads \ {t}
  BY DEF SweepInv, Past, Code!TypeOK, Code!CodeAssumption
<1>6. Addr(t) \in Code!Addresses /\ ~Code!IsReady(Addr(t))
  BY DEF SweepInv, Past, Owned, Expects, HasEntry, Own, Calling, Code!IsReady
<1>7. Compiling'
  <2>1. ASSUME NEW u \in CodeThreads \ {t} PROVE Compiles(u)'
    <3>1. At(u) = "publish" => Addr(u) \in Code!Addresses \ {Addr(t)}
      BY DEF SweepInv, Owned, Own, Past, Expects, Calling
    <3>2. Compiles(u)
      BY DEF SweepInv, Compiling
    <3> QED BY <1>2, <3>1, <3>2 DEF Compiles, SweptAt
  <2>2. \A u \in CodeThreads \ {t} : LoggedFor(u)'
    BY <1>2, <1>5 DEF SweepInv, Compiling, LoggedFor
  <2> QED BY <2>1, <2>2 DEF Compiling
<1>8. Readies'
  BY <1>5, <1>6 DEF SweepInv, Readies, ReadyAt, EntryAt, Code!IsReady
<1>9. Symbols'
  <2>1. \A u \in CodeThreads, a \in Code!Addresses \ {Addr(t)} :
          Publishing(u, a) => Publishing(u, a)'
    BY <1>2 DEF Publishing
  <2> QED BY <2>1 DEF SweepInv, Symbols, SymbolOf, Code!IsReady
<1>10. Found'
  <2>1. \A u \in CodeThreads \ {t} : Finds(u)'
    BY <1>2 DEF SweepInv, Found, Finds, Served, Code!IsReady, EntryAt
  <2> QED BY <2>1 DEF Found, Finds, Own
<1>11. Cached'
  <2>1. \A u \in CodeThreads, a \in Code!Addresses : Keeps(u, a) => Keeps(u, a)'
    BY <1>5 DEF Keeps, Code!IsReady, EntryAt
  <2> QED BY <1>2, <2>1 DEF SweepInv, Cached, CachedBy, Own
<1> QED BY <1>1, <1>3, <1>4, <1>7, <1>8, <1>9, <1>10, <1>11 DEF SweepInv

\* The module hands out the symbol to be defined.
LEMMA DefineSymbolStep ==
  ASSUME SweepInv, NEW t \in CodeThreads, Code!DefineSymbol(t), UNCHANGED cSetting
  PROVE  SweepInv'
<1> DEFINE a == Addr(t)
<1>1. /\ At(t) = "declare" /\ cSweeping = none
      /\ UNCHANGED <<cCode, cSwept, cCount, cLog, cEntryOf, cEntry, cPieces, cCache,
                     cSweeping, cSetting>>
  BY DEF Code!DefineSymbol, At, Code!At, Code!Locked
<1>2. /\ Expects(t) /\ HasEntry(t) /\ Compiles(t) /\ Fun(t) = Code!NoFunction
      /\ cCall[t] \in Code!CallInfo /\ a \in Code!Addresses /\ cSymbol[a].status # "defined"
      /\ cSymbol \in [Code!Addresses -> [status : {"none", "defining", "defined", "failed"},
                                         function : Code!AnyFunction]]
  BY <1>1, InfoOf, NothingDefined DEF SweepInv, Owned, Past, Compiling, Compiles, Code!TypeOK
<1>3. cSymbol[a].function = Code!NoFunction
  BY <1>2 DEF SweepInv, Symbols, SymbolOf
<1>4. CASE cSymbol[a].status = "none"
  <2>1. /\ cCall' = [cCall EXCEPT ![t] = [cCall[t] EXCEPT !.at = "compile"]]
        /\ cSymbol' = [cSymbol EXCEPT ![a] = [cSymbol[a] EXCEPT !.status = "defining"]]
    BY <1>4, <1>2, InfoOf DEF Code!DefineSymbol, Addr
  <2> DEFINE r == [cCall[t] EXCEPT !.at = "compile"]
  <2>2. /\ r \in Code!CallInfo /\ r.at = "compile" /\ r.addr = cCall[t].addr
        /\ r.entry = cCall[t].entry /\ r.function = cCall[t].function
        /\ r.sampled = cCall[t].sampled /\ r.dynamic = cCall[t].dynamic
        /\ r.expects = cCall[t].expects /\ r.since = cCall[t].since
    BY <1>2 DEF Code!CallInfo, Code!Places
  <2>3. cCall' = [cCall EXCEPT ![t] = r]
    BY <2>1
  <2> HIDE DEF r
  <2>4. /\ cCall' \in [CodeThreads -> Code!CallInfo]
        /\ \A u \in CodeThreads \ {t} : cCall'[u] = cCall[u]
        /\ At(t)' = "compile" /\ cCall'[t].entry = cCall[t].entry /\ Fun(t)' = Fun(t)
        /\ Addr(t)' = a /\ cCall'[t].expects = cCall[t].expects
        /\ cCall'[t].sampled = cCall[t].sampled /\ cCall'[t].dynamic = cCall[t].dynamic
        /\ cCall'[t].since = cCall[t].since
    BY <2>2, <2>3, Moved DEF At, Addr, Fun
  <2>5. /\ cSymbol' \in [Code!Addresses -> [status : {"none", "defining", "defined", "failed"},
                                            function : Code!AnyFunction]]
        /\ \A b \in Code!Addresses \ {a} : cSymbol'[b] = cSymbol[b]
        /\ cSymbol'[a].status = "defining" /\ cSymbol'[a].function = Code!NoFunction
    BY <1>2, <1>3, <2>1
  <2>6. SymbolOf(a)'
    BY <2>4, <2>5 DEF SymbolOf
  <2>7. Expects(t)' /\ HasEntry(t)' /\ Compiles(t)' /\ LoggedFor(t)'
    BY <1>1, <1>2, <2>4 DEF Expects, HasEntry, Compiles, LoggedFor, Own, Calling
  <2> QED BY <1>1, <2>4, <2>5, <2>6, <2>7, OwnerMoves DEF Own
<1>5. CASE cSymbol[a].status # "none"
  <2>1. /\ cCall' = [cCall EXCEPT ![t].at = "publish", ![t].function = cSymbol[a].function]
        /\ UNCHANGED cSymbol
    BY <1>5 DEF Code!DefineSymbol, Addr
  <2> DEFINE r == [cCall[t] EXCEPT !.at = "publish", !.function = Code!NoFunction]
  <2>2. /\ r \in Code!CallInfo /\ r.at = "publish" /\ r.addr = cCall[t].addr
        /\ r.entry = cCall[t].entry /\ r.function = Code!NoFunction
        /\ r.sampled = cCall[t].sampled /\ r.dynamic = cCall[t].dynamic
        /\ r.expects = cCall[t].expects /\ r.since = cCall[t].since
    BY <1>2 DEF Code!CallInfo, Code!Places, Code!AnyFunction
  <2>3. cCall' = [cCall EXCEPT ![t] = r]
    BY <1>3, <2>1, InfoOf
  <2> HIDE DEF r
  <2>4. /\ cCall' \in [CodeThreads -> Code!CallInfo]
        /\ \A u \in CodeThreads \ {t} : cCall'[u] = cCall[u]
        /\ At(t)' = "publish" /\ cCall'[t].entry = cCall[t].entry /\ Fun(t)' = Fun(t)
        /\ Addr(t)' = a /\ cCall'[t].expects = cCall[t].expects
        /\ cCall'[t].sampled = cCall[t].sampled /\ cCall'[t].dynamic = cCall[t].dynamic
        /\ cCall'[t].since = cCall[t].since
    BY <1>2, <2>2, <2>3, Moved DEF At, Addr, Fun
  <2>5. Expects(t)' /\ HasEntry(t)' /\ Compiles(t)' /\ LoggedFor(t)' /\ Finds(t)'
    BY <1>1, <1>2, <2>1, <2>4 DEF Expects, HasEntry, Compiles, LoggedFor, Finds, Own, Calling
  <2> QED BY <1>1, <2>1, <2>4, <2>5, CallMoves DEF Own
<1> QED BY <1>4, <1>5

\* The compile reads the code: it is as new as any sweep that returned.
LEMMA DefineFunctionStep ==
  ASSUME SweepInv, NEW t \in CodeThreads, Code!DefineFunction(t), UNCHANGED cSetting
  PROVE  SweepInv'
<1> DEFINE a == Addr(t)
           f == IF cCode[a[2]] = 0 THEN Code!NoFunction
                ELSE [code |-> [w \in Code!Extent(a) |-> cCode[w]], once |-> FALSE]
           d == [status |-> IF f = Code!NoFunction THEN "failed" ELSE "defined", function |-> f]
<1>1. /\ At(t) = "compile"
      /\ UNCHANGED <<cCode, cSwept, cCount, cLog, cEntryOf, cEntry, cPieces, cCache,
                     cSweeping, cSetting>>
      /\ cCall' = [cCall EXCEPT ![t].at = "publish", ![t].function = f]
      /\ cSymbol' = [cSymbol EXCEPT ![a] = d]
  BY DEF Code!DefineFunction, At, Code!At, Addr
<1>2. /\ Expects(t) /\ HasEntry(t) /\ Compiles(t) /\ cCall[t].dynamic
      /\ cCall[t] \in Code!CallInfo /\ a \in Code!Addresses /\ LoggedFor(t)
      /\ cSymbol \in [Code!Addresses -> [status : {"none", "defining", "defined", "failed"},
                                         function : Code!AnyFunction]]
      /\ cCode \in [CodeWords -> Code!Version] /\ cSwept \in [CodeWords -> Code!Version]
      /\ cSweeping # t /\ cSweeping \in CodeThreads \cup {none}
  BY <1>1, InfoOf, NothingDefined DEF SweepInv, Owned, Past, Compiling, Compiles, Code!TypeOK
<1>3. /\ f \in Code!Functions(a) /\ f \in Code!AnyFunction /\ ~f.once
      /\ f # Code!NoFunction =>
           \A w \in Code!Extent(a) : f.code[w] = cCode[w] /\ cCode[w] >= cSwept[w]
  <2>1. \A w \in Code!Extent(a) : cCode[w] \in Code!Version /\ cCode[w] >= cSwept[w]
    <3>1. \A w \in CodeWords : cCode[w] \in Nat /\ cSwept[w] \in Nat /\ cSwept[w] <= cCode[w]
      BY <1>2 DEF SweepInv, Past, Code!Version
    <3> QED BY <1>2, <3>1, ExtentIn
  <2>2. CASE cCode[a[2]] = 0
    BY <2>2 DEF Code!Functions, Code!AnyFunction, Code!NoFunction
  <2>3. CASE cCode[a[2]] # 0
    <3> DEFINE g == [w \in Code!Extent(a) |-> cCode[w]]
    <3>1. g \in [Code!Extent(a) -> Code!Version] /\ \A w \in Code!Extent(a) : g[w] = cCode[w]
      BY <2>1
    <3>2. f = [code |-> g, once |-> FALSE]
      BY <2>3
    <3> HIDE DEF g, f
    <3>3. f \in [code : [Code!Extent(a) -> Code!Version], once : BOOLEAN] /\ f.code = g /\ ~f.once
      BY <3>1, <3>2
    <3> QED BY <1>2, <2>1, <3>1, <3>3 DEF Code!Functions, Code!AnyFunction
  <2> QED BY <2>2, <2>3
<1> HIDE DEF f
<1>4. /\ cCall' \in [CodeThreads -> Code!CallInfo]
      /\ \A u \in CodeThreads \ {t} : cCall'[u] = cCall[u]
      /\ At(t)' = "publish" /\ cCall'[t].entry = cCall[t].entry /\ Fun(t)' = f
      /\ Addr(t)' = a /\ cCall'[t].expects = cCall[t].expects
      /\ cCall'[t].sampled = cCall[t].sampled /\ cCall'[t].dynamic
      /\ cCall'[t].since = cCall[t].since
  <2> DEFINE r == [cCall[t] EXCEPT !.at = "publish", !.function = f]
  <2>2. /\ r \in Code!CallInfo /\ r.at = "publish" /\ r.addr = cCall[t].addr
        /\ r.entry = cCall[t].entry /\ r.function = f
        /\ r.sampled = cCall[t].sampled /\ r.dynamic = cCall[t].dynamic
        /\ r.expects = cCall[t].expects /\ r.since = cCall[t].since
    BY <1>2, <1>3 DEF Code!CallInfo, Code!Places
  <2>3. cCall' = [cCall EXCEPT ![t] = r]
    BY <1>1, InfoOf
  <2> HIDE DEF r
  <2> QED BY <1>2, <2>2, <2>3, Moved DEF At, Addr, Fun
<1>5. /\ cSymbol' \in [Code!Addresses -> [status : {"none", "defining", "defined", "failed"},
                                          function : Code!AnyFunction]]
      /\ \A b \in Code!Addresses \ {a} : cSymbol'[b] = cSymbol[b]
      /\ cSymbol'[a].status = IF f = Code!NoFunction THEN "failed" ELSE "defined"
      /\ cSymbol'[a].function = f
  BY <1>1, <1>2, <1>3
<1>6. SymbolOf(a)'
  BY <1>3, <1>4, <1>5 DEF SymbolOf, Publishing
<1>7. Compiles(t)'
  BY <1>1, <1>2, <1>3, <1>4, <1>5 DEF Compiles
<1>8. Expects(t)' /\ HasEntry(t)' /\ LoggedFor(t)'
  BY <1>1, <1>2, <1>3, <1>4 DEF Expects, HasEntry, LoggedFor, Own, Calling
<1> QED BY <1>1, <1>4, <1>5, <1>6, <1>7, <1>8, OwnerMoves DEF Own

\* Where a thread is that publishes what it compiled, and what the log keeps for the others.
LEMMA PublishFacts ==
  ASSUME SweepInv, NEW t \in CodeThreads, Code!Publishes(t)
  PROVE  /\ At(t) = "publish" /\ cSweeping = none /\ cCall[t] \in Code!CallInfo
         /\ Addr(t) \in Code!Addresses /\ cCall[t].entry \in CodeEntries
         /\ cCall[t].entry # none /\ cEntryOf[Addr(t)] = cCall[t].entry
         /\ cEntry[cCall[t].entry].status = "compiling"
         /\ Expects(t) /\ HasEntry(t) /\ Compiles(t) /\ Fun(t) \in Code!Functions(Addr(t))
         /\ ~Code!IsReady(Addr(t))
         /\ \A u \in CodeThreads \ {t} : At(u) \in Own =>
              /\ Addr(u) \in Code!Addresses \ {Addr(t)}
              /\ cCall[u].entry \in CodeEntries \ {cCall[t].entry}
         /\ \A b \in Code!Addresses \ {Addr(t)} : cEntryOf[b] # cCall[t].entry
         /\ \A u \in CodeThreads : cCall[u].entry = cCall[t].entry => Addr(u) = Addr(t)
         /\ cLog' \subseteq cLog
         /\ \A u \in CodeThreads \ {t}, w \in CodeWords :
              cCall[u].dynamic /\ SweptAt(u, w) =>
                \E s \in cLog' : s.count > cCall[u].since /\ w \in s.words
<1> DEFINE a == Addr(t)
           e == cCall[t].entry
<1>1. /\ At(t) = "publish" /\ cSweeping = none /\ cCall[t] \in Code!CallInfo
      /\ Expects(t) /\ HasEntry(t) /\ Compiles(t)
  BY InfoOf DEF Code!Publishes, Code!Locked, Code!At, At, SweepInv, Past, Owned, Compiling
<1>2. /\ a \in Code!Addresses /\ e \in CodeEntries /\ e # none /\ cEntryOf[a] = e
      /\ cEntry[e].status = "compiling" /\ Fun(t) \in Code!Functions(a)
  BY <1>1 DEF Expects, HasEntry, Own, Calling, Code!CodeAssumption
<1>3. ~Code!IsReady(a)
  BY <1>2 DEF Code!IsReady
<1>4. \A b \in Code!Addresses \ {a} : cEntryOf[b] # e
  BY <1>2 DEF SweepInv, Owned
<1>5. ASSUME NEW u \in CodeThreads \ {t}, At(u) \in Own
      PROVE  /\ Addr(u) \in Code!Addresses \ {a} /\ cCall[u].entry \in CodeEntries \ {e}
  <2>1. HasEntry(u) /\ Expects(u) /\ Addr(u) # a
    BY <1>1, <1>5 DEF SweepInv, Owned, Past, Own
  <2>2. Addr(u) \in Code!Addresses /\ cCall[u].entry \in CodeEntries
        /\ cEntryOf[Addr(u)] = cCall[u].entry
    BY <1>5, <2>1 DEF HasEntry, Expects, Calling
  <2> QED BY <1>4, <2>1, <2>2
<1>6. \A u \in CodeThreads : cCall[u].entry = e => Addr(u) = a
  BY <1>2 DEF SweepInv, Owned, HasEntry
<1>7. cLog' = IF cCall[t].dynamic
              THEN {s \in cLog : \E u \in Code!InFlight \ {t} : s.count > cCall[u].since}
              ELSE cLog
  BY DEF Code!Publishes, Code!EndCompile
<1>8. ASSUME NEW u \in CodeThreads \ {t}, NEW w \in CodeWords, cCall[u].dynamic, SweptAt(u, w)
      PROVE  \E s \in cLog' : s.count > cCall[u].since /\ w \in s.words
  <2>1. PICK s \in cLog : s.count > cCall[u].since /\ w \in s.words
    BY <1>8 DEF SweptAt
  <2>2. u \in Code!InFlight \ {t}
    BY <1>8 DEF Code!InFlight
  <2> QED BY <1>7, <2>1, <2>2
<1> QED BY <1>1, <1>2, <1>3, <1>4, <1>5, <1>6, <1>7, <1>8

\* What a publish has to show of its own address.
LEMMA PublishMoves ==
  ASSUME SweepInv, NEW t \in CodeThreads, Code!Publishes(t),
         UNCHANGED <<cCode, cSwept, cCache, cSweeping, cSetting>>,
         cCount' \in {cCount, cCount + 1},
         cEntryOf' \in [Code!Addresses -> CodeEntries \cup {none}],
         \A b \in Code!Addresses \ {Addr(t)} : cEntryOf'[b] = cEntryOf[b],
         \/ cEntryOf'[Addr(t)] = cCall[t].entry
         \/ cEntryOf'[Addr(t)] = none /\ cCount' = cCount + 1,
         cEntry' \in [CodeEntries -> [status : {"compiling", "ready", "failed"},
                                      function : Code!AnyFunction]],
         \A j \in CodeEntries \ {cCall[t].entry} : cEntry'[j] = cEntry[j],
         cEntry'[cCall[t].entry].status = "ready" =>
           /\ cEntry'[cCall[t].entry].function \in Code!Functions(Addr(t))
           /\ \/ cEntry'[cCall[t].entry].function.once
              \/ Code!IsCurrent(cEntry'[cCall[t].entry].function, cSwept),
         cSymbol' \in [Code!Addresses -> [status : {"none", "defining", "defined", "failed"},
                                          function : Code!AnyFunction]],
         \A b \in Code!Addresses \ {Addr(t)} : cSymbol'[b] = cSymbol[b],
         cPieces \subseteq cPieces',
         cPieces' \subseteq [function : Code!Addresses, words : SUBSET CodeWords],
         cCall' \in [CodeThreads -> Code!CallInfo],
         \A u \in CodeThreads \ {t} : cCall'[u] = cCall[u],
         Addr(t)' = Addr(t), At(t)' \in {"fault", "store", "declare"},
         SymbolOf(Addr(t))', Code!IsReady(Addr(t))' => ReadyAt(Addr(t))',
         Expects(t)', HasEntry(t)', Compiles(t)', Finds(t)'
  PROVE  SweepInv'
<1> DEFINE a == Addr(t)
           e == cCall[t].entry
<1>1. /\ At(t) = "publish" /\ cSweeping = none /\ cCall[t] \in Code!CallInfo
      /\ a \in Code!Addresses /\ e \in CodeEntries /\ e # none /\ cEntryOf[a] = e
      /\ cEntry[e].status = "compiling" /\ HasEntry(t) /\ Compiles(t) /\ ~Code!IsReady(a)
      /\ \A u \in CodeThreads \ {t} : At(u) \in Own =>
           Addr(u) \in Code!Addresses \ {a} /\ cCall[u].entry \in CodeEntries \ {e}
      /\ \A b \in Code!Addresses \ {a} : cEntryOf[b] # e
      /\ \A u \in CodeThreads : cCall[u].entry = e => Addr(u) = a
      /\ cLog' \subseteq cLog
      /\ \A u \in CodeThreads \ {t}, w \in CodeWords :
           cCall[u].dynamic /\ SweptAt(u, w) =>
             \E s \in cLog' : s.count > cCall[u].since /\ w \in s.words
  BY PublishFacts
<1>2. \A u \in CodeThreads \ {t} : At(u)' = At(u) /\ Addr(u)' = Addr(u) /\ Fun(u)' = Fun(u)
  BY DEF At, Addr, Fun
<1>3. cCount \in Nat /\ cCount' \in Nat /\ cCount <= cCount'
  BY InfoOf
<1>4. Code!TypeOK'
  <2>1. cLog' \subseteq [count : 0 .. cCount', words : SUBSET CodeWords]
    <3>1. cLog \subseteq [count : 0 .. cCount, words : SUBSET CodeWords]
      BY DEF SweepInv, Code!TypeOK
    <3>2. 0 .. cCount \subseteq 0 .. cCount'
      BY <1>3
    <3> QED BY <1>1, <3>1, <3>2
  <2> QED BY <1>1, <1>3, <2>1 DEF SweepInv, Code!TypeOK
<1>5. Past'
  <2>1. ASSUME NEW u \in CodeThreads \ {t} PROVE Expects(u)'
    <3>1. Expects(u) /\ cCall[u].sampled \in Nat
      BY InfoOf DEF SweepInv, Past
    <3> QED BY <1>2, <1>3, <3>1 DEF Expects
  <2> QED BY <1>1, <1>2, <2>1 DEF SweepInv, Past, Code!CodeAssumption
<1>6. \A b \in Code!Addresses : b # a =>
        cEntryOf'[b] = cEntryOf[b] /\ cEntryOf'[b] # e /\ cEntryOf'[b] \in CodeEntries \cup {none}
  BY <1>1
<1>7. Owned'
  <2>1. \A b, d \in Code!Addresses : cEntryOf'[b] = cEntryOf'[d] /\ cEntryOf'[b] # none => b = d
    BY <1>6 DEF SweepInv, Owned
  <2>2. ASSUME NEW u \in CodeThreads \ {t} PROVE HasEntry(u)'
    <3>1. HasEntry(u)
      BY DEF SweepInv, Owned
    <3> QED BY <1>1, <1>2, <1>6, <3>1 DEF HasEntry
  <2> QED BY <1>1, <1>2, <2>1, <2>2 DEF SweepInv, Owned
<1>8. Compiling'
  <2>1. ASSUME NEW u \in CodeThreads \ {t} PROVE Compiles(u)'
    <3>1. Compiles(u) /\ cCall[u].since \in Nat
      BY InfoOf DEF SweepInv, Compiling
    <3>2. At(u) = "publish" => Addr(u) \in Code!Addresses \ {a}
      BY <1>1 DEF Own
    <3>3. ASSUME At(u) = "publish", Fun(u) # Code!NoFunction, NEW w \in Code!Extent(Addr(u))
          PROVE  Fun(u).code[w] >= cSwept[w] \/ SweptAt(u, w)'
      <4>1. w \in CodeWords /\ cCall[u].dynamic
        BY <3>1, <3>2, <3>3, ExtentIn DEF Compiles
      <4> QED BY <1>1, <3>1, <3>3, <4>1 DEF Compiles, SweptAt
    <3> QED BY <1>2, <1>3, <3>1, <3>2, <3>3 DEF Compiles
  <2> QED BY <1>1, <2>1 DEF Compiling, LoggedFor
<1>9. \A b \in Code!Addresses : b # a => /\ Code!IsReady(b)' <=> Code!IsReady(b)
                                         /\ Code!IsReady(b) => EntryAt(b)' = EntryAt(b)
  BY <1>6 DEF Code!IsReady, EntryAt
<1>10. Readies'
  <2>1. ASSUME NEW b \in Code!Addresses, b # a, Code!IsReady(b)' PROVE ReadyAt(b)'
    <3>1. ReadyAt(b)
      BY <1>9, <2>1 DEF SweepInv, Readies
    <3> QED BY <1>1, <1>9, <2>1, <3>1 DEF ReadyAt
  <2> QED BY <2>1 DEF Readies
<1>11. Symbols'
  <2>1. \A u \in CodeThreads, b \in Code!Addresses :
          b # a /\ Publishing(u, b) => Publishing(u, b)'
    BY <1>2 DEF Publishing
  <2> QED BY <1>9, <2>1 DEF SweepInv, Symbols, SymbolOf
<1>12. Found'
  <2>1. ASSUME NEW u \in CodeThreads \ {t} PROVE Finds(u)'
    <3>1. Finds(u) /\ HasEntry(u) /\ Expects(u) /\ cCall[u].sampled \in Nat
      BY InfoOf DEF SweepInv, Found, Owned, Past
    <3>2. At(u) \in {"wait", "store", "recheck"} =>
            Addr(u) \in Code!Addresses /\ cCall[u].sampled <= cCount
      BY <3>1 DEF Expects, Calling
    <3>3. ASSUME At(u) = "wait"
          PROVE  cCount' = cCall[u].sampled => cEntryOf'[Addr(u)] = cCall[u].entry
      BY <1>1, <1>3, <1>6, <3>1, <3>2, <3>3 DEF Finds
    <3>4. ASSUME At(u) = "wait", cEntry'[cCall[u].entry].status = "ready"
          PROVE  /\ cEntry'[cCall[u].entry].function \in Code!Functions(Addr(u))
                 /\ Served(cEntry'[cCall[u].entry].function, u)
      <4>1. CASE cCall[u].entry = e
        <5>1. Addr(u) = a
          BY <1>1, <4>1
        <5> DEFINE f == cEntry'[e].function
        <5>2. f \in Code!Functions(a) /\ (f.once \/ Code!IsCurrent(f, cSwept))
          BY <3>4, <4>1
        <5>3. /\ cCall[u].expects \in [CodeWords -> Code!Version]
              /\ cSwept \in [CodeWords -> Code!Version]
              /\ \A w \in CodeWords : cCall[u].expects[w] <= cSwept[w]
          BY <3>1, <3>4 DEF Expects, Calling, SweepInv, Code!TypeOK
        <5> HIDE DEF f
        <5>4. Code!IsCurrent(f, cSwept) => Code!IsCurrent(f, cCall[u].expects)
          BY <1>1, <5>2, <5>3, ExtentIn, CurrentBefore
        <5>5. Served(f, u)
          BY <5>2, <5>4 DEF Served
        <5> QED BY <4>1, <5>1, <5>2, <5>5 DEF f
      <4>2. CASE cCall[u].entry # e
        BY <3>1, <3>4, <4>2 DEF HasEntry, Finds
      <4> QED BY <4>1, <4>2
    <3>5. ASSUME At(u) \in {"store", "recheck"}, cCount' = cCall[u].sampled
          PROVE  Code!IsReady(Addr(u))' /\ EntryAt(Addr(u))'.function = Fun(u)
      BY <1>1, <1>2, <1>3, <1>9, <3>1, <3>2, <3>5 DEF Finds
    <3> QED BY <1>2, <3>1, <3>3, <3>4, <3>5 DEF Finds, Served
  <2> QED BY <2>1 DEF Found
<1>13. Cached'
  <2>1. ASSUME NEW u \in CodeThreads, NEW b \in Code!Addresses, Keeps(u, b) PROVE Keeps(u, b)'
    BY <1>1, <1>9, <2>1 DEF Keeps
  <2> QED BY <1>1, <1>2, <2>1 DEF SweepInv, Cached, CachedBy
<1> QED BY <1>4, <1>5, <1>7, <1>8, <1>10, <1>11, <1>12, <1>13 DEF SweepInv

\* The four ends of an attempt.
LEMMA MarkFailedStep ==
  ASSUME SweepInv, NEW t \in CodeThreads, Code!MarkFailed(t), UNCHANGED cSetting
  PROVE  SweepInv'
<1> DEFINE a == Addr(t)
           e == cCall[t].entry
           r == [cCall[t] EXCEPT !.at = "fault", !.dynamic = FALSE, !.entry = none]
<1>1. /\ Code!Publishes(t) /\ Fun(t) = Code!NoFunction
      /\ UNCHANGED <<cCode, cSwept, cCount, cEntryOf, cSymbol, cPieces, cCache, cSweeping,
                     cSetting>>
      /\ cEntry' = [cEntry EXCEPT ![e].status = "failed"]
      /\ cCall' = [cCall EXCEPT ![t].at = "fault", ![t].dynamic = FALSE, ![t].entry = none]
  BY DEF Code!MarkFailed, Fun
<1>2. /\ At(t) = "publish" /\ cCall[t] \in Code!CallInfo /\ a \in Code!Addresses
      /\ e \in CodeEntries /\ cEntryOf[a] = e /\ Compiles(t) /\ cSweeping = none
      /\ cEntry[e].status = "compiling" /\ ~Code!IsReady(a)
  BY <1>1, PublishFacts
<1>3. /\ r \in Code!CallInfo /\ r.at = "fault" /\ r.addr = cCall[t].addr /\ r.entry = none
      /\ ~r.dynamic
  BY <1>2 DEF Code!CallInfo, Code!Places
<1>4. cCall' = [cCall EXCEPT ![t] = r]
  BY <1>1, InfoOf
<1> HIDE DEF r
<1>5. /\ cCall' \in [CodeThreads -> Code!CallInfo]
      /\ \A u \in CodeThreads \ {t} : cCall'[u] = cCall[u]
      /\ At(t)' = "fault" /\ Addr(t)' = a /\ cCall'[t].entry = none /\ ~cCall'[t].dynamic
  BY <1>3, <1>4, Moved DEF At, Addr
<1>6. /\ cEntry \in [CodeEntries -> [status : {"compiling", "ready", "failed"},
                                     function : Code!AnyFunction]]
      /\ cEntryOf \in [Code!Addresses -> CodeEntries \cup {none}]
      /\ cSymbol \in [Code!Addresses -> [status : {"none", "defining", "defined", "failed"},
                                         function : Code!AnyFunction]]
      /\ cPieces \subseteq [function : Code!Addresses, words : SUBSET CodeWords]
  BY DEF SweepInv, Code!TypeOK
<1>7. /\ cEntry' \in [CodeEntries -> [status : {"compiling", "ready", "failed"},
                                      function : Code!AnyFunction]]
      /\ \A j \in CodeEntries \ {e} : cEntry'[j] = cEntry[j]
      /\ cEntry'[e].status = "failed"
  BY <1>1, <1>2, <1>6
<1>8. cSymbol[a].status # "defined"
  BY <1>1, <1>2 DEF Compiles
<1>9. SymbolOf(a)' /\ ~Code!IsReady(a)'
  BY <1>1, <1>2, <1>5, <1>7, <1>8 DEF SweepInv, Symbols, SymbolOf, Code!IsReady
<1>10. Expects(t)' /\ HasEntry(t)' /\ Compiles(t)' /\ Finds(t)'
  BY <1>5 DEF Expects, HasEntry, Compiles, Finds, Own, Calling
<1> QED BY <1>1, <1>2, <1>5, <1>6, <1>7, <1>9, <1>10, PublishMoves

LEMMA CompileAgainStep ==
  ASSUME SweepInv, NEW t \in CodeThreads, Code!CompileAgain(t), UNCHANGED cSetting
  PROVE  SweepInv'
<1> DEFINE a == Addr(t)
           e == cCall[t].entry
           r == [cCall[t] EXCEPT !.at = "declare", !.attempt = cCall[t].attempt + 1,
                                 !.since = cCount, !.function = Code!NoFunction]
<1>1. /\ Code!Publishes(t) /\ cCall[t].dynamic /\ cCall[t].attempt < MaxAttempts
      /\ UNCHANGED <<cCode, cSwept, cCount, cEntryOf, cEntry, cPieces, cCache, cSweeping,
                     cSetting>>
      /\ cSymbol' = [cSymbol EXCEPT ![a] = Code!NoSymbol]
      /\ cCall' = [cCall EXCEPT ![t] = r]
  <2>1. /\ Code!Publishes(t) /\ cCall[t].dynamic /\ cCall[t].attempt < MaxAttempts
        /\ UNCHANGED <<cCode, cSwept, cCount, cEntryOf, cEntry, cPieces, cCache, cSweeping,
                       cSetting>>
        /\ cSymbol' = [cSymbol EXCEPT ![a] = Code!NoSymbol]
    BY DEF Code!CompileAgain, Code!Swept, Addr
  <2>2. cCall' = [cCall EXCEPT ![t] = r]
    BY DEF Code!CompileAgain
  <2> QED BY <2>1, <2>2
<1>2. /\ At(t) = "publish" /\ cCall[t] \in Code!CallInfo /\ a \in Code!Addresses
      /\ e \in CodeEntries /\ cEntryOf[a] = e /\ cSweeping = none
      /\ cEntry[e].status = "compiling" /\ ~Code!IsReady(a)
      /\ Expects(t) /\ HasEntry(t) /\ Compiles(t)
  BY <1>1, PublishFacts
<1>3. cCall[t].attempt + 1 \in 0 .. MaxAttempts /\ cCount \in Nat
  BY <1>1, InfoOf DEF Code!CodeAssumption
<1>4. /\ r \in Code!CallInfo /\ r.at = "declare" /\ r.addr = cCall[t].addr
      /\ r.entry = e /\ r.dynamic = cCall[t].dynamic /\ r.since = cCount
      /\ r.function = Code!NoFunction /\ r.expects = cCall[t].expects
      /\ r.sampled = cCall[t].sampled
  <2> DEFINE k == cCall[t].attempt + 1
  <2> HIDE DEF k
  <2>1. k \in 0 .. MaxAttempts
    BY <1>3 DEF k
  <2> DEFINE q == [cCall[t] EXCEPT !.at = "declare", !.attempt = k,
                                   !.since = cCount, !.function = Code!NoFunction]
  <2>2. /\ q \in Code!CallInfo /\ q.at = "declare" /\ q.addr = cCall[t].addr
        /\ q.entry = e /\ q.dynamic = cCall[t].dynamic /\ q.since = cCount
        /\ q.function = Code!NoFunction /\ q.expects = cCall[t].expects
        /\ q.sampled = cCall[t].sampled
    BY <1>2, <1>3, <2>1 DEF Code!CallInfo, Code!Places, Code!AnyFunction
  <2> QED BY <2>2 DEF k
<1> HIDE DEF r
<1>5. /\ cCall' \in [CodeThreads -> Code!CallInfo]
      /\ \A u \in CodeThreads \ {t} : cCall'[u] = cCall[u]
      /\ At(t)' = "declare" /\ Addr(t)' = a /\ cCall'[t].entry = e /\ cCall'[t].dynamic
      /\ cCall'[t].since = cCount /\ Fun(t)' = Code!NoFunction
      /\ cCall'[t].expects = cCall[t].expects /\ cCall'[t].sampled = cCall[t].sampled
  BY <1>1, <1>4, Moved DEF At, Addr, Fun
<1>6. /\ cEntry \in [CodeEntries -> [status : {"compiling", "ready", "failed"},
                                     function : Code!AnyFunction]]
      /\ cEntryOf \in [Code!Addresses -> CodeEntries \cup {none}]
      /\ cSymbol \in [Code!Addresses -> [status : {"none", "defining", "defined", "failed"},
                                         function : Code!AnyFunction]]
      /\ cPieces \subseteq [function : Code!Addresses, words : SUBSET CodeWords]
  BY DEF SweepInv, Code!TypeOK
<1>7. Code!NoSymbol \in [status : {"none", "defining", "defined", "failed"},
                         function : Code!AnyFunction]
      /\ Code!NoSymbol.status = "none" /\ Code!NoSymbol.function = Code!NoFunction
  BY DEF Code!NoSymbol, Code!AnyFunction
<1>8. /\ cSymbol' \in [Code!Addresses -> [status : {"none", "defining", "defined", "failed"},
                                          function : Code!AnyFunction]]
      /\ \A b \in Code!Addresses \ {a} : cSymbol'[b] = cSymbol[b]
      /\ cSymbol'[a].status = "none" /\ cSymbol'[a].function = Code!NoFunction
  BY <1>1, <1>2, <1>6, <1>7
<1>9. SymbolOf(a)' /\ ~Code!IsReady(a)'
  BY <1>1, <1>2, <1>5, <1>8 DEF SymbolOf, Code!IsReady
<1>10. Expects(t)' /\ HasEntry(t)'
  BY <1>1, <1>2, <1>5 DEF Expects, HasEntry, Own, Calling, Code!Functions
<1>11. Compiles(t)' /\ Finds(t)'
  BY <1>1, <1>3, <1>5 DEF Compiles, Finds
<1> QED BY <1>1, <1>2, <1>5, <1>6, <1>8, <1>9, <1>10, <1>11, PublishMoves

LEMMA RunOnceStep ==
  ASSUME SweepInv, NEW t \in CodeThreads, Code!RunOnce(t), UNCHANGED cSetting
  PROVE  SweepInv'
<1> DEFINE a == Addr(t)
           e == cCall[t].entry
           f == [Fun(t) EXCEPT !.once = TRUE]
           r == [cCall[t] EXCEPT !.at = "store", !.dynamic = FALSE, !.entry = none,
                                 !.function = f]
<1>1. /\ Code!Publishes(t) /\ cCall[t].dynamic /\ Fun(t) # Code!NoFunction
      /\ UNCHANGED <<cCode, cSwept, cPieces, cCache, cSweeping, cSetting>>
      /\ cCount' = cCount + 1
      /\ cSymbol' = [cSymbol EXCEPT ![a] = Code!NoSymbol]
      /\ cEntryOf' = [cEntryOf EXCEPT ![a] = none]
      /\ cEntry' = [cEntry EXCEPT ![e] = [status |-> "ready", function |-> f]]
      /\ cCall' = [cCall EXCEPT ![t] = r]
  BY DEF Code!RunOnce, Code!Ready, Code!Swept, Addr, Fun
<1>2. /\ At(t) = "publish" /\ cCall[t] \in Code!CallInfo /\ a \in Code!Addresses
      /\ e \in CodeEntries /\ cEntryOf[a] = e /\ cSweeping = none
      /\ cEntry[e].status = "compiling" /\ Fun(t) \in Code!Functions(a)
      /\ Expects(t) /\ cCount \in Nat
  BY <1>1, PublishFacts, InfoOf
<1>3. f \in Code!Functions(a) /\ f.once /\ f \in Code!AnyFunction
  <2>1. Fun(t) \in [code : [Code!Extent(a) -> Code!Version], once : BOOLEAN]
    BY <1>1, <1>2 DEF Code!Functions
  <2>2. f \in [code : [Code!Extent(a) -> Code!Version], once : BOOLEAN] /\ f.once
    BY <2>1
  <2> HIDE DEF f
  <2>3. f \in Code!Functions(a)
    BY <2>2 DEF Code!Functions
  <2> QED BY <1>2, <2>2, <2>3 DEF Code!AnyFunction
<1> HIDE DEF f
<1>4. /\ r \in Code!CallInfo /\ r.at = "store" /\ r.addr = cCall[t].addr
      /\ r.entry = none /\ ~r.dynamic /\ r.function = f /\ r.expects = cCall[t].expects
      /\ r.sampled = cCall[t].sampled
  BY <1>2, <1>3 DEF Code!CallInfo, Code!Places
<1> HIDE DEF r
<1>5. /\ cCall' \in [CodeThreads -> Code!CallInfo]
      /\ \A u \in CodeThreads \ {t} : cCall'[u] = cCall[u]
      /\ At(t)' = "store" /\ Addr(t)' = a /\ cCall'[t].entry = none /\ ~cCall'[t].dynamic
      /\ Fun(t)' = f
      /\ cCall'[t].expects = cCall[t].expects /\ cCall'[t].sampled = cCall[t].sampled
  BY <1>1, <1>4, Moved DEF At, Addr, Fun
<1>6. /\ cEntry \in [CodeEntries -> [status : {"compiling", "ready", "failed"},
                                     function : Code!AnyFunction]]
      /\ cEntryOf \in [Code!Addresses -> CodeEntries \cup {none}]
      /\ cSymbol \in [Code!Addresses -> [status : {"none", "defining", "defined", "failed"},
                                         function : Code!AnyFunction]]
      /\ cPieces \subseteq [function : Code!Addresses, words : SUBSET CodeWords]
  BY DEF SweepInv, Code!TypeOK
<1>7. Code!NoSymbol \in [status : {"none", "defining", "defined", "failed"},
                         function : Code!AnyFunction]
      /\ Code!NoSymbol.status = "none" /\ Code!NoSymbol.function = Code!NoFunction
  BY DEF Code!NoSymbol, Code!AnyFunction
<1>8. /\ cSymbol' \in [Code!Addresses -> [status : {"none", "defining", "defined", "failed"},
                                          function : Code!AnyFunction]]
      /\ \A b \in Code!Addresses \ {a} : cSymbol'[b] = cSymbol[b]
      /\ cSymbol'[a].status = "none" /\ cSymbol'[a].function = Code!NoFunction
  BY <1>1, <1>2, <1>6, <1>7
<1>9. /\ cEntryOf' \in [Code!Addresses -> CodeEntries \cup {none}]
      /\ \A b \in Code!Addresses \ {a} : cEntryOf'[b] = cEntryOf[b]
      /\ cEntryOf'[a] = none
  BY <1>1, <1>2, <1>6
<1>10. /\ cEntry' \in [CodeEntries -> [status : {"compiling", "ready", "failed"},
                                      function : Code!AnyFunction]]
       /\ \A j \in CodeEntries \ {e} : cEntry'[j] = cEntry[j]
       /\ cEntry'[e].function = f
  <2>1. [status |-> "ready", function |-> f] \in [status : {"compiling", "ready", "failed"},
                                                  function : Code!AnyFunction]
    BY <1>3
  <2> QED BY <1>1, <1>2, <1>6, <2>1
<1>11. SymbolOf(a)' /\ ~Code!IsReady(a)'
  BY <1>5, <1>8, <1>9 DEF SymbolOf, Code!IsReady
<1>12. Expects(t)' /\ HasEntry(t)' /\ Compiles(t)'
  <2>1. cCall[t].sampled \in Nat /\ cCall[t].sampled <= cCount
    BY <1>2, InfoOf DEF Expects, Calling, Own
  <2> QED BY <1>1, <1>2, <1>3, <1>5, <2>1 DEF Expects, HasEntry, Compiles, Own, Calling
<1>13. Finds(t)'
  <2>1. cCall[t].sampled \in Nat /\ cCall[t].sampled <= cCount
    BY <1>2, InfoOf DEF Expects, Calling, Own
  <2>2. cCount' # cCall[t].sampled
    BY <1>1, <1>2, <2>1
  <2> QED BY <1>3, <1>5, <2>2 DEF Finds, Served
<1> QED BY <1>1, <1>2, <1>3, <1>5, <1>6, <1>8, <1>9, <1>10, <1>11, <1>12, <1>13, PublishMoves

LEMMA MarkReadyStep ==
  ASSUME SweepInv, NEW t \in CodeThreads, Code!MarkReady(t), UNCHANGED cSetting
  PROVE  SweepInv'
<1> DEFINE a == Addr(t)
           e == cCall[t].entry
           f == Fun(t)
           r == [cCall[t] EXCEPT !.at = "store", !.dynamic = FALSE, !.entry = none,
                                 !.function = f]
<1>1. /\ Code!Publishes(t) /\ f # Code!NoFunction /\ ~Code!Swept(t)
      /\ UNCHANGED <<cCode, cSwept, cCount, cEntryOf, cSymbol, cCache, cSweeping, cSetting>>
      /\ cPieces' = cPieces \cup Code!Pieces(a)
      /\ cEntry' = [cEntry EXCEPT ![e] = [status |-> "ready", function |-> f]]
      /\ cCall' = [cCall EXCEPT ![t] = r]
  BY DEF Code!MarkReady, Code!Ready, Addr, Fun
<1>2. /\ At(t) = "publish" /\ cCall[t] \in Code!CallInfo /\ a \in Code!Addresses
      /\ e \in CodeEntries /\ e # none /\ cEntryOf[a] = e /\ cSweeping = none
      /\ cEntry[e].status = "compiling" /\ f \in Code!Functions(a)
      /\ Expects(t) /\ Compiles(t) /\ cCount \in Nat
  BY <1>1, PublishFacts, InfoOf
<1>3. /\ cCall[t].dynamic /\ ~f.once /\ f \in Code!AnyFunction
      /\ cSymbol[a].status = "defined" /\ cSymbol[a].function = f
      /\ \A w \in Code!Extent(a) : f.code[w] >= cSwept[w] \/ SweptAt(t, w)
  BY <1>1, <1>2 DEF Compiles, Code!AnyFunction
<1>4. Code!IsCurrent(f, cSwept)
  <2>1. \A s \in cLog : s.count > cCall[t].since => s.words \cap Code!Extent(a) = {}
    BY <1>1, <1>3 DEF Code!Swept, Code!SweptSince, Addr, Fun
  <2>2. \A w \in Code!Extent(a) : ~SweptAt(t, w)
    BY <2>1 DEF SweptAt
  <2> QED BY <1>2, <1>3, <2>2, CurrentMeans
<1> HIDE DEF f
<1>5. /\ r \in Code!CallInfo /\ r.at = "store" /\ r.addr = cCall[t].addr
      /\ r.entry = none /\ ~r.dynamic /\ r.function = f /\ r.expects = cCall[t].expects
      /\ r.sampled = cCall[t].sampled
  BY <1>2, <1>3 DEF Code!CallInfo, Code!Places
<1> HIDE DEF r
<1>6. /\ cCall' \in [CodeThreads -> Code!CallInfo]
      /\ \A u \in CodeThreads \ {t} : cCall'[u] = cCall[u]
      /\ At(t)' = "store" /\ Addr(t)' = a /\ cCall'[t].entry = none /\ ~cCall'[t].dynamic
      /\ Fun(t)' = f
      /\ cCall'[t].expects = cCall[t].expects /\ cCall'[t].sampled = cCall[t].sampled
  BY <1>1, <1>5, Moved DEF At, Addr, Fun
<1>7. /\ cEntry \in [CodeEntries -> [status : {"compiling", "ready", "failed"},
                                     function : Code!AnyFunction]]
      /\ cEntryOf \in [Code!Addresses -> CodeEntries \cup {none}]
      /\ cSymbol \in [Code!Addresses -> [status : {"none", "defining", "defined", "failed"},
                                         function : Code!AnyFunction]]
      /\ cPieces \subseteq [function : Code!Addresses, words : SUBSET CodeWords]
      /\ cSwept \in [CodeWords -> Code!Version]
  BY DEF SweepInv, Code!TypeOK
<1>8. cPieces' \subseteq [function : Code!Addresses, words : SUBSET CodeWords]
  <2>1. Code!Pieces(a) \subseteq [function : Code!Addresses, words : SUBSET CodeWords]
    BY <1>2, ExtentIn DEF Code!Pieces
  <2> QED BY <1>1, <1>7, <2>1
<1>9. /\ cEntry' \in [CodeEntries -> [status : {"compiling", "ready", "failed"},
                                      function : Code!AnyFunction]]
      /\ \A j \in CodeEntries \ {e} : cEntry'[j] = cEntry[j]
      /\ cEntry'[e].function = f /\ cEntry'[e].status = "ready"
  <2>1. [status |-> "ready", function |-> f] \in [status : {"compiling", "ready", "failed"},
                                                  function : Code!AnyFunction]
    BY <1>3
  <2> QED BY <1>1, <1>2, <1>7, <2>1
<1>10. Code!IsReady(a)' /\ EntryAt(a)'.function = f
  BY <1>1, <1>2, <1>6, <1>9 DEF Code!IsReady, EntryAt
<1>11. ReadyAt(a)'
  <2>1. Code!Pieces(Addr(t)') \subseteq cPieces'
    BY <1>1, <1>6
  <2> QED BY <1>1, <1>2, <1>3, <1>4, <1>6, <1>10, <2>1 DEF ReadyAt
<1>12. SymbolOf(a)'
  BY <1>1, <1>2, <1>3, <1>6, <1>10 DEF SymbolOf
<1>13. Expects(t)' /\ HasEntry(t)' /\ Compiles(t)'
  BY <1>1, <1>2, <1>6 DEF Expects, HasEntry, Compiles, Own, Calling
<1>14. Finds(t)'
  <2>1. Code!IsCurrent(f, cCall[t].expects)
    <3>1. /\ cCall[t].expects \in [CodeWords -> Code!Version]
          /\ \A w \in CodeWords : cCall[t].expects[w] <= cSwept[w]
      BY <1>2 DEF Expects, Calling, Own
    <3> QED BY <1>2, <1>4, <1>7, <3>1, ExtentIn, CurrentBefore
  <2> QED BY <1>6, <1>10, <2>1 DEF Finds, Served
<1> QED BY <1>1, <1>2, <1>4, <1>6, <1>7, <1>8, <1>9, <1>10, <1>11, <1>12, <1>13, <1>14,
           PublishMoves

\* What a call caches, and whether it may stay.
LEMMA CacheCallStep ==
  ASSUME SweepInv, NEW t \in CodeThreads, Code!CacheCall(t), UNCHANGED cSetting
  PROVE  SweepInv'
<1> DEFINE a == Addr(t)
           f == Fun(t)
           r == [cCall[t] EXCEPT !.at = "recheck"]
<1>1. /\ At(t) = "store"
      /\ UNCHANGED <<cCode, cSwept, cCount, cLog, cEntryOf, cEntry, cSymbol, cPieces,
                     cSweeping, cSetting>>
      /\ cCache' = [cCache EXCEPT ![t][a] = f]
  BY DEF Code!CacheCall, Code!At, At, Addr, Fun
<1>2. cCall' = [cCall EXCEPT ![t] = r]
  BY InfoOf DEF Code!CacheCall
<1>3. /\ cCall[t] \in Code!CallInfo /\ Expects(t) /\ HasEntry(t) /\ Compiles(t) /\ Finds(t)
      /\ LoggedFor(t) /\ cCache \in [CodeThreads -> [Code!Addresses -> Code!AnyFunction]]
      /\ a \in Code!Addresses /\ f \in Code!Functions(a) /\ f \in Code!AnyFunction
      /\ \A u \in CodeThreads : CachedBy(u)
  <2>1. /\ cCall[t] \in Code!CallInfo /\ Expects(t) /\ HasEntry(t) /\ Compiles(t) /\ Finds(t)
        /\ LoggedFor(t) /\ f \in Code!AnyFunction /\ \A u \in CodeThreads : CachedBy(u)
    BY InfoOf DEF SweepInv, Past, Owned, Compiling, Found, Cached, Fun
  <2> QED BY <1>1, <2>1 DEF Expects, Calling, SweepInv, Code!TypeOK
<1> HIDE DEF f
<1>4. /\ r \in Code!CallInfo /\ r.at = "recheck" /\ r.addr = cCall[t].addr
      /\ r.entry = cCall[t].entry /\ r.dynamic = cCall[t].dynamic /\ r.since = cCall[t].since
      /\ r.function = cCall[t].function /\ r.expects = cCall[t].expects
      /\ r.sampled = cCall[t].sampled
  BY <1>3 DEF Code!CallInfo, Code!Places
<1> HIDE DEF r
<1>5. /\ cCall' \in [CodeThreads -> Code!CallInfo]
      /\ \A u \in CodeThreads \ {t} : cCall'[u] = cCall[u]
      /\ At(t)' = "recheck" /\ Addr(t)' = a /\ Fun(t)' = f
      /\ cCall'[t].entry = cCall[t].entry /\ cCall'[t].dynamic = cCall[t].dynamic
      /\ cCall'[t].expects = cCall[t].expects /\ cCall'[t].sampled = cCall[t].sampled
      /\ cCall'[t].since = cCall[t].since
  BY <1>2, <1>4, Moved DEF At, Addr, Fun, f
<1>6. /\ cCache' \in [CodeThreads -> [Code!Addresses -> Code!AnyFunction]]
      /\ \A u \in CodeThreads \ {t} : cCache'[u] = cCache[u]
      /\ \A b \in Code!Addresses \ {a} : cCache'[t][b] = cCache[t][b]
      /\ cCache'[t][a] = f
  BY <1>1, <1>3
<1>7. cSweeping # none => cSweeping \in CodeThreads \ {t}
  BY <1>1 DEF SweepInv, Past, Code!TypeOK, Code!CodeAssumption
<1>8. Cached'
  <2>1. ASSUME NEW u \in CodeThreads, NEW b \in Code!Addresses, cCache'[u][b] = cCache[u][b],
               Keeps(u, b)
        PROVE  Keeps(u, b)'
    BY <1>1, <1>5, <1>7, <2>1 DEF Keeps, Code!IsReady, EntryAt
  <2>2. ASSUME NEW u \in CodeThreads \ {t} PROVE CachedBy(u)'
    <3>1. At(u)' = At(u) /\ Addr(u)' = Addr(u) /\ CachedBy(u)
      BY <1>3, <1>5 DEF At, Addr
    <3> QED BY <1>6, <2>1, <3>1 DEF CachedBy
  <2>3. CachedBy(t)'
    <3>1. CachedBy(t) BY <1>3
    <3> QED BY <1>1, <1>3, <1>5, <1>6, <2>1, <3>1 DEF CachedBy
  <2> QED BY <2>2, <2>3 DEF Cached
<1>9. Expects(t)' /\ HasEntry(t)' /\ Compiles(t)' /\ LoggedFor(t)'
  BY <1>1, <1>3, <1>5, <1>7 DEF Expects, HasEntry, Compiles, LoggedFor, Own, Calling, f, Fun
<1>10. Finds(t)'
  BY <1>1, <1>3, <1>5, <1>6 DEF Finds, Served, Code!IsReady, EntryAt, f, Fun
<1> QED BY <1>1, <1>5, <1>6, <1>8, <1>9, <1>10, CacheMoves DEF Own

\* It stays only if no sweep was counted, so only if a lookup finds it too.
LEMMA RecheckCountStep ==
  ASSUME SweepInv, NEW t \in CodeThreads, Code!RecheckCount(t), UNCHANGED cSetting
  PROVE  SweepInv'
<1> DEFINE a == Addr(t)
           f == Fun(t)
           r == [cCall[t] EXCEPT !.at = "run"]
<1>1. /\ At(t) = "recheck"
      /\ UNCHANGED <<cCode, cSwept, cCount, cLog, cEntryOf, cEntry, cSymbol, cPieces,
                     cSweeping, cSetting>>
      /\ cCache' = IF cCount = cCall[t].sampled THEN cCache
                   ELSE [cCache EXCEPT ![t][a] = Code!NoFunction]
  BY DEF Code!RecheckCount, Code!At, At, Addr
<1>2. cCall' = [cCall EXCEPT ![t] = r]
  BY InfoOf DEF Code!RecheckCount
<1>3. /\ cCall[t] \in Code!CallInfo /\ Expects(t) /\ HasEntry(t) /\ Compiles(t) /\ Finds(t)
      /\ LoggedFor(t) /\ cCache \in [CodeThreads -> [Code!Addresses -> Code!AnyFunction]]
      /\ a \in Code!Addresses /\ f \in Code!Functions(a) /\ f \in Code!AnyFunction
      /\ \A u \in CodeThreads : CachedBy(u)
  <2>1. /\ cCall[t] \in Code!CallInfo /\ Expects(t) /\ HasEntry(t) /\ Compiles(t) /\ Finds(t)
        /\ LoggedFor(t) /\ f \in Code!AnyFunction /\ \A u \in CodeThreads : CachedBy(u)
    BY InfoOf DEF SweepInv, Past, Owned, Compiling, Found, Cached, Fun
  <2> QED BY <1>1, <2>1 DEF Expects, Calling, SweepInv, Code!TypeOK
<1> HIDE DEF f
<1>4. /\ r \in Code!CallInfo /\ r.at = "run" /\ r.addr = cCall[t].addr
      /\ r.entry = cCall[t].entry /\ r.dynamic = cCall[t].dynamic /\ r.since = cCall[t].since
      /\ r.function = cCall[t].function /\ r.expects = cCall[t].expects
      /\ r.sampled = cCall[t].sampled
  BY <1>3 DEF Code!CallInfo, Code!Places
<1> HIDE DEF r
<1>5. /\ cCall' \in [CodeThreads -> Code!CallInfo]
      /\ \A u \in CodeThreads \ {t} : cCall'[u] = cCall[u]
      /\ At(t)' = "run" /\ Addr(t)' = a /\ Fun(t)' = f
      /\ cCall'[t].entry = cCall[t].entry /\ cCall'[t].dynamic = cCall[t].dynamic
      /\ cCall'[t].expects = cCall[t].expects /\ cCall'[t].sampled = cCall[t].sampled
      /\ cCall'[t].since = cCall[t].since
  BY <1>2, <1>4, Moved DEF At, Addr, Fun, f
<1>6. /\ cCache' \in [CodeThreads -> [Code!Addresses -> Code!AnyFunction]]
      /\ \A u \in CodeThreads \ {t} : cCache'[u] = cCache[u]
      /\ \A b \in Code!Addresses \ {a} : cCache'[t][b] = cCache[t][b]
      /\ cCache'[t][a] # Code!NoFunction =>
           cCount = cCall[t].sampled /\ cCache'[t][a] = cCache[t][a]
  <2>1. Code!NoFunction \in Code!AnyFunction
    BY DEF Code!AnyFunction
  <2> QED BY <1>1, <1>3, <2>1
<1>7. cSweeping # none => cSweeping \in CodeThreads \ {t}
  BY <1>1 DEF SweepInv, Past, Code!TypeOK, Code!CodeAssumption
<1>8. Cached'
  <2>1. ASSUME NEW u \in CodeThreads, NEW b \in Code!Addresses, cCache'[u][b] = cCache[u][b],
               Keeps(u, b)
        PROVE  Keeps(u, b)'
    BY <1>1, <1>5, <1>7, <2>1 DEF Keeps, Code!IsReady, EntryAt
  <2>2. ASSUME NEW u \in CodeThreads \ {t} PROVE CachedBy(u)'
    <3>1. At(u)' = At(u) /\ Addr(u)' = Addr(u) /\ CachedBy(u)
      BY <1>3, <1>5 DEF At, Addr
    <3> QED BY <1>6, <2>1, <3>1 DEF CachedBy
  <2>3. Keeps(t, a)' /\ cCache'[t][a] \in Code!Functions(a)
    <3>1. CASE cCache'[t][a] = Code!NoFunction
      <4>1. Code!NoFunction \in Code!Functions(a) /\ ~Code!NoFunction.once
        BY DEF Code!Functions, Code!NoFunction
      <4>2. Code!IsCurrent(Code!NoFunction, cSwept)
        BY <1>3, <4>1, CurrentMeans
      <4> QED BY <1>1, <1>5, <3>1, <4>1, <4>2 DEF Keeps
    <3>2. CASE cCache'[t][a] # Code!NoFunction
      <4>1. cCount = cCall[t].sampled /\ cCache'[t][a] = f
        BY <1>1, <1>3, <1>6, <3>2 DEF Finds, f, Fun
      <4>2. Code!IsReady(a) /\ EntryAt(a).function = f
        BY <1>1, <1>3, <4>1 DEF Finds, f
      <4>3. ~f.once /\ Code!IsCurrent(f, cSwept)
        BY <1>3, <4>2 DEF SweepInv, Readies, ReadyAt
      <4> QED BY <1>1, <1>3, <1>5, <4>1, <4>2, <4>3 DEF Keeps, Code!IsReady, EntryAt
    <3> QED BY <3>1, <3>2
  <2>4. CachedBy(t)'
    <3>1. CachedBy(t) BY <1>3
    <3>2. ASSUME NEW b \in Code!Addresses \ {a}
          PROVE  cCache'[t][b] \in Code!Functions(b) /\ Keeps(t, b)'
      BY <1>1, <1>6, <2>1, <3>1 DEF CachedBy
    <3> QED BY <1>5, <2>3, <3>2 DEF CachedBy
  <2> QED BY <2>2, <2>4 DEF Cached
<1>9. Expects(t)' /\ HasEntry(t)' /\ Compiles(t)' /\ LoggedFor(t)'
  BY <1>1, <1>3, <1>5, <1>7 DEF Expects, HasEntry, Compiles, LoggedFor, Own, Calling, f, Fun
<1>10. Finds(t)'
  BY <1>1, <1>3, <1>5 DEF Finds, Served, f, Fun
<1> QED BY <1>1, <1>5, <1>6, <1>8, <1>9, <1>10, CacheMoves DEF Own

\* What the first section of a sweep takes: functions a lookup finds, and all of those that
\* have a word in the range.
Erased(t) == {p \in cPieces : p.words \cap cCall[t].words # {}}
Dropped(t) == Code!DeleteRange(Head(cCall[t].names), cCall[t].words)
              \cup UNION {Code!DeleteRange(p.function[1], {p.function[2]}) : p \in Erased(t)}

LEMMA DroppedFacts ==
  ASSUME SweepInv, NEW t \in CodeThreads
  PROVE  /\ Dropped(t) \subseteq Code!Addresses
         /\ \A a \in Dropped(t) : Code!IsReady(a)
         /\ \A a \in Code!Addresses \ Dropped(t) : Code!IsReady(a) =>
              /\ Code!Extent(a) \cap cCall[t].words = {}
              /\ Code!Pieces(a) \subseteq cPieces \ Erased(t)
<1>1. Dropped(t) \subseteq Code!Addresses /\ \A a \in Dropped(t) : Code!IsReady(a)
  BY DEF Dropped, Code!DeleteRange
<1>2. ASSUME NEW a \in Code!Addresses \ Dropped(t), Code!IsReady(a)
      PROVE  /\ Code!Extent(a) \cap cCall[t].words = {}
             /\ Code!Pieces(a) \subseteq cPieces \ Erased(t)
  <2>1. Code!Pieces(a) \subseteq cPieces
    BY <1>2 DEF SweepInv, Readies, ReadyAt
  <2>2. ASSUME NEW p \in Erased(t), p.function = a PROVE FALSE
    <3>1. a \in Code!DeleteRange(a[1], {a[2]})
      BY <1>2, ExtentIn DEF Code!DeleteRange
    <3> QED BY <1>2, <2>2, <3>1 DEF Dropped
  <2>3. \A p \in Code!Pieces(a) : p.function = a
    BY DEF Code!Pieces
  <2>4. Code!Pieces(a) \subseteq cPieces \ Erased(t)
    BY <2>1, <2>2, <2>3
  <2>5. ASSUME NEW w \in Code!Extent(a), w \in cCall[t].words PROVE FALSE
    <3> DEFINE p == [function |-> a, words |-> {x \in Code!Extent(a) : Page[x] = Page[w]}]
    <3>1. p \in Code!Pieces(a) /\ w \in p.words
      BY <2>5 DEF Code!Pieces
    <3> QED BY <2>1, <2>4, <2>5, <3>1 DEF Erased
  <2> QED BY <2>4, <2>5
<1> QED BY <1>1, <1>2

\* The first section of a sweep: no lookup finds what is in the range any more.
LEMMA InvalidateCodeRangeStep ==
  ASSUME SweepInv, NEW t \in CodeThreads, Code!InvalidateCodeRange(t), UNCHANGED cSetting
  PROVE  SweepInv'
<1> DEFINE D == Dropped(t)
           W == cCall[t].words
           new == [count |-> cCount + 1, words |-> W]
           r == [cCall[t] EXCEPT !.dropped = D, !.at = "clear"]
<1>1. /\ At(t) = "sweep" /\ cSweeping = none /\ cSweeping' = t /\ cCount' = cCount + 1
      /\ cLog' = IF Code!InFlight # {} THEN cLog \cup {new} ELSE cLog
      /\ cPieces' = cPieces \ Erased(t)
      /\ UNCHANGED <<cCode, cSwept, cEntry, cCache, cSetting>>
  BY DEF Code!InvalidateCodeRange, Code!Locked, Code!At, At, Erased
<1>2. /\ cEntryOf' = [a \in Code!Addresses |-> IF a \in D THEN none ELSE cEntryOf[a]]
      /\ cSymbol' = [a \in Code!Addresses |-> IF a \in D THEN Code!NoSymbol ELSE cSymbol[a]]
  BY DEF Code!InvalidateCodeRange, Dropped, Erased
<1>3. cCall' = [cCall EXCEPT ![t] = r]
  BY InfoOf DEF Code!InvalidateCodeRange, Dropped, Erased
<1>4. /\ D \subseteq Code!Addresses
      /\ \A a \in D : Code!IsReady(a)
      /\ \A a \in Code!Addresses \ D : Code!IsReady(a) =>
           Code!Extent(a) \cap W = {} /\ Code!Pieces(a) \subseteq cPieces'
  BY <1>1, DroppedFacts
<1> HIDE DEF D
<1>5. /\ cCall[t] \in Code!CallInfo /\ Expects(t) /\ HasEntry(t) /\ Compiles(t)
      /\ cCount \in Nat /\ cCount' \in Nat /\ W \subseteq CodeWords
      /\ none \notin CodeThreads /\ none \notin CodeEntries
  BY <1>1, InfoOf DEF SweepInv, Past, Owned, Compiling, Code!CodeAssumption
<1>6. /\ r \in Code!CallInfo /\ r.at = "clear" /\ r.addr = cCall[t].addr
      /\ r.entry = cCall[t].entry /\ r.dynamic = cCall[t].dynamic /\ r.words = W
      /\ r.dropped = D /\ r.names = cCall[t].names /\ r.expects = cCall[t].expects
  BY <1>4, <1>5 DEF Code!CallInfo, Code!Places
<1> HIDE DEF r
<1>7. /\ cCall' \in [CodeThreads -> Code!CallInfo]
      /\ \A u \in CodeThreads \ {t} : cCall'[u] = cCall[u]
      /\ At(t)' = "clear" /\ Addr(t)' = Addr(t) /\ cCall'[t].entry = cCall[t].entry
      /\ cCall'[t].dynamic = cCall[t].dynamic /\ cCall'[t].words = W
      /\ cCall'[t].dropped = D /\ cCall'[t].names = cCall[t].names
      /\ cCall'[t].expects = cCall[t].expects
  BY <1>3, <1>6, Moved DEF At, Addr
<1>8. \A u \in CodeThreads \ {t} : At(u)' = At(u) /\ Addr(u)' = Addr(u) /\ Fun(u)' = Fun(u)
  BY <1>7 DEF At, Addr, Fun
<1>9. /\ cEntryOf \in [Code!Addresses -> CodeEntries \cup {none}]
      /\ cSymbol \in [Code!Addresses -> [status : {"none", "defining", "defined", "failed"},
                                         function : Code!AnyFunction]]
      /\ cLog \subseteq [count : 0 .. cCount, words : SUBSET CodeWords]
  BY DEF SweepInv, Code!TypeOK
<1>10. /\ cEntryOf' \in [Code!Addresses -> CodeEntries \cup {none}]
       /\ \A a \in Code!Addresses : cEntryOf'[a] # none => cEntryOf'[a] = cEntryOf[a]
       /\ \A a \in Code!Addresses : ~Code!IsReady(a) =>
            cEntryOf'[a] = cEntryOf[a] /\ cSymbol'[a] = cSymbol[a]
       /\ \A a \in Code!Addresses : Code!IsReady(a)' => a \notin D /\ Code!IsReady(a)
       /\ \A a \in Code!Addresses \ D :
            /\ cEntryOf'[a] = cEntryOf[a] /\ EntryAt(a)' = EntryAt(a) /\ cSymbol'[a] = cSymbol[a]
            /\ Code!IsReady(a)' <=> Code!IsReady(a)
  BY <1>1, <1>2, <1>4, <1>9 DEF Code!IsReady, EntryAt
<1>11. Code!TypeOK'
  <2>1. Code!NoSymbol \in [status : {"none", "defining", "defined", "failed"},
                           function : Code!AnyFunction]
    BY DEF Code!NoSymbol, Code!AnyFunction
  <2>2. cSymbol' \in [Code!Addresses -> [status : {"none", "defining", "defined", "failed"},
                                         function : Code!AnyFunction]]
    BY <1>2, <1>9, <2>1
  <2>3. cLog' \subseteq [count : 0 .. cCount', words : SUBSET CodeWords]
    <3>1. /\ new \in [count : 0 .. cCount', words : SUBSET CodeWords]
          /\ 0 .. cCount \subseteq 0 .. cCount'
      BY <1>1, <1>5
    <3> QED BY <1>1, <1>9, <3>1
  <2> QED BY <1>1, <1>5, <1>7, <1>10, <2>2, <2>3 DEF SweepInv, Code!TypeOK
<1>12. Past'
  <2>1. ASSUME NEW u \in CodeThreads \ {t} PROVE Expects(u)'
    <3>1. Expects(u) /\ cCall[u].sampled \in Nat
      BY InfoOf DEF SweepInv, Past
    <3> QED BY <1>1, <1>5, <1>7, <1>8, <3>1 DEF Expects
  <2>2. Expects(t)'
    BY <1>1, <1>5, <1>7 DEF Expects, Own, Calling
  <2>3. \A u \in CodeThreads \ {t} : At(u)' # "clear" /\ cSweeping' # u
    BY <1>1, <1>5, <1>8 DEF SweepInv, Past
  <2> QED BY <1>1, <1>7, <2>1, <2>2, <2>3 DEF SweepInv, Past
<1>13. Owned'
  <2>1. \A a, b \in Code!Addresses : cEntryOf'[a] = cEntryOf'[b] /\ cEntryOf'[a] # none => a = b
    BY <1>10 DEF SweepInv, Owned
  <2>2. ASSUME NEW u \in CodeThreads \ {t} PROVE HasEntry(u)'
    <3>1. HasEntry(u) /\ Expects(u)
      BY DEF SweepInv, Owned, Past
    <3>2. At(u) \in Own => Addr(u) \in Code!Addresses /\ ~Code!IsReady(Addr(u))
      BY <3>1 DEF HasEntry, Expects, Calling, Code!IsReady
    <3> QED BY <1>1, <1>7, <1>8, <1>10, <3>1, <3>2 DEF HasEntry
  <2>3. HasEntry(t)'
    BY <1>5, <1>7, <1>10 DEF HasEntry, Own
  <2> QED BY <1>7, <1>8, <2>1, <2>2, <2>3 DEF SweepInv, Owned, Own
<1>14. cLog \subseteq cLog'
  BY <1>1
<1>15. Compiling'
  <2>1. ASSUME NEW u \in CodeThreads \ {t} PROVE Compiles(u)' /\ LoggedFor(u)'
    <3>1. Compiles(u) /\ HasEntry(u) /\ Expects(u) /\ cCall[u].since \in Nat
      BY InfoOf DEF SweepInv, Owned, Past, Compiling
    <3>2. At(u) \in Own => Addr(u) \in Code!Addresses /\ ~Code!IsReady(Addr(u))
      BY <3>1 DEF HasEntry, Expects, Calling, Code!IsReady
    <3>3. \A w : SweptAt(u, w) => SweptAt(u, w)'
      BY <1>7, <1>14 DEF SweptAt
    <3>4. Compiles(u)'
      BY <1>1, <1>5, <1>7, <1>8, <1>10, <3>1, <3>2, <3>3 DEF Compiles, Own
    <3>5. ASSUME cCall[u].dynamic
          PROVE  \E s \in cLog' : s.count > cCall[u].since /\ s.words = cCall'[t].words
      <4>1. Code!InFlight # {}
        BY <3>5 DEF Code!InFlight
      <4>2. new \in cLog' /\ new.count > cCall[u].since /\ new.words = W
        BY <1>1, <1>5, <3>1, <3>5, <4>1 DEF Compiles
      <4> QED BY <1>7, <4>2
    <3> QED BY <1>1, <1>7, <3>4, <3>5 DEF LoggedFor
  <2>2. Compiles(t)' /\ LoggedFor(t)'
    BY <1>1, <1>5, <1>7 DEF Compiles, LoggedFor
  <2> QED BY <2>1, <2>2 DEF Compiling
<1>16. Readies'
  <2>1. ASSUME NEW a \in Code!Addresses, Code!IsReady(a)' PROVE ReadyAt(a)'
    <3>1. ReadyAt(a) /\ a \notin D
      BY <1>10, <2>1 DEF SweepInv, Readies
    <3> QED BY <1>1, <1>4, <1>7, <1>10, <2>1, <3>1 DEF ReadyAt
  <2> QED BY <2>1 DEF Readies
<1>17. Symbols'
  <2>1. ASSUME NEW a \in Code!Addresses PROVE SymbolOf(a)'
    <3>1. CASE a \in D
      <4>1. cSymbol'[a] = Code!NoSymbol
        BY <1>2, <3>1
      <4> QED BY <4>1 DEF SymbolOf, Code!NoSymbol
    <3>2. CASE a \notin D
      <4>1. \A u \in CodeThreads : Publishing(u, a) => Publishing(u, a)'
        BY <1>1, <1>7, <1>8 DEF Publishing
      <4> QED BY <1>10, <3>2, <4>1 DEF SweepInv, Symbols, SymbolOf
    <3> QED BY <3>1, <3>2
  <2> QED BY <2>1 DEF Symbols
<1>18. Found'
  <2>1. ASSUME NEW u \in CodeThreads \ {t} PROVE Finds(u)'
    <3>1. Finds(u) /\ Expects(u) /\ cCall[u].sampled \in Nat
      BY InfoOf DEF SweepInv, Found, Past
    <3>2. At(u) \in {"wait", "store", "recheck"} => cCount' # cCall[u].sampled
      BY <1>1, <1>5, <3>1 DEF Expects, Calling
    <3> QED BY <1>1, <1>7, <1>8, <3>1, <3>2 DEF Finds, Served
  <2>2. Finds(t)'
    BY <1>7 DEF Finds
  <2> QED BY <2>1, <2>2 DEF Found
<1>19. Cached'
  <2>1. ASSUME NEW u \in CodeThreads, NEW a \in Code!Addresses, Keeps(u, a) PROVE Keeps(u, a)'
    <3>1. a \in D => cSweeping' # none /\ a \in cCall'[cSweeping'].dropped
      BY <1>1, <1>5, <1>7
    <3> QED BY <1>1, <1>10, <2>1, <3>1 DEF Keeps
  <2>2. \A u \in CodeThreads : (At(u) = "recheck")' => u # t /\ At(u) = "recheck"
    BY <1>7, <1>8
  <2> QED BY <1>1, <1>7, <1>8, <2>1, <2>2 DEF SweepInv, Cached, CachedBy
<1> QED BY <1>11, <1>12, <1>13, <1>15, <1>16, <1>17, <1>18, <1>19 DEF SweepInv

\* The second: no cache has it either, so that the sweep may promise the new code.
LEMMA InvalidateDynamicCallsStep ==
  ASSUME SweepInv, NEW t \in CodeThreads, Code!InvalidateDynamicCalls(t), UNCHANGED cSetting
  PROVE  SweepInv'
<1> DEFINE c == cCall[t]
           W == cCall[t].words
           done == Len(c.names) = 1
           r == IF done THEN Code!Idle
                ELSE [c EXCEPT !.at = "sweep", !.names = Tail(c.names), !.dropped = {}]
<1>1. /\ At(t) = "clear" /\ cSweeping' = none
      /\ cCache' = [u \in CodeThreads |-> [a \in Code!Addresses |->
                      IF a \in Code!CachedIn(c) THEN Code!NoFunction ELSE cCache[u][a]]]
      /\ cSwept' = IF done THEN Code!Later(cSwept, c.expects, W) ELSE cSwept
      /\ UNCHANGED <<cCode, cCount, cLog, cEntryOf, cEntry, cSymbol, cPieces, cSetting>>
  BY DEF Code!InvalidateDynamicCalls, Code!At, At
<1>2. cCall' = [cCall EXCEPT ![t] = r]
  BY DEF Code!InvalidateDynamicCalls
<1>3. /\ c \in Code!CallInfo /\ Expects(t) /\ HasEntry(t) /\ Compiles(t) /\ W \subseteq CodeWords
      /\ cSweeping = t /\ t # none /\ cCount \in Nat
      /\ c.names \in Seq(CodeNames) /\ c.names # <<>>
      /\ c.expects \in [CodeWords -> Code!Version]
      /\ \A w \in CodeWords : c.expects[w] <= cCode[w]
      /\ cSwept \in [CodeWords -> Code!Version] /\ cCode \in [CodeWords -> Code!Version]
      /\ \A w \in CodeWords : cSwept[w] <= cCode[w]
      /\ cCache \in [CodeThreads -> [Code!Addresses -> Code!AnyFunction]]
  <2>1. /\ c \in Code!CallInfo /\ Expects(t) /\ HasEntry(t) /\ Compiles(t)
        /\ W \subseteq CodeWords /\ cSweeping = t /\ cCount \in Nat
        /\ c.names \in Seq(CodeNames)
        /\ cSwept \in [CodeWords -> Code!Version] /\ cCode \in [CodeWords -> Code!Version]
        /\ \A w \in CodeWords : cSwept[w] <= cCode[w]
        /\ cCache \in [CodeThreads -> [Code!Addresses -> Code!AnyFunction]]
    BY <1>1, InfoOf DEF SweepInv, Past, Owned, Compiling, Code!TypeOK
  <2> QED BY <1>1, <2>1 DEF Expects, Code!CodeAssumption
<1>4. /\ r \in Code!CallInfo /\ r.at \in {"idle", "sweep"} /\ r.entry \in {none, c.entry}
      /\ r.dynamic \in {FALSE, c.dynamic}
      /\ r.at = "sweep" => /\ r.names # <<>> /\ r.expects = c.expects /\ r.addr = c.addr
      /\ r.at = "idle" => r.entry = none
  <2>1. CASE done
    BY <2>1, IdleInfo
  <2>2. CASE ~done
    <3> DEFINE rest == Tail(c.names)
    <3>1. rest \in Seq(CodeNames) /\ rest # <<>>
      <4> DEFINE names == c.names
      <4>1. names \in Seq(CodeNames) /\ names # <<>> /\ Len(names) # 1
        BY <1>3, <2>2
      <4> HIDE DEF names
      <4>2. Tail(names) \in Seq(CodeNames) /\ Tail(names) # <<>>
        <5>1. Len(names) \in Nat /\ Len(names) # 0
          BY <4>1
        <5>2. Tail(names) \in Seq(CodeNames) /\ Len(Tail(names)) = Len(names) - 1
          BY <4>1
        <5>3. Len(Tail(names)) # 0
          BY <4>1, <5>1, <5>2
        <5> DEFINE more == Tail(names)
        <5>4. more \in Seq(CodeNames) /\ Len(more) # 0
          BY <5>2, <5>3
        <5> HIDE DEF more
        <5>5. more # <<>>
          BY <5>4
        <5> QED BY <5>4, <5>5 DEF more
      <4> QED BY <4>2 DEF names
    <3> HIDE DEF rest
    <3> DEFINE q == [c EXCEPT !.at = "sweep", !.names = rest, !.dropped = {}]
    <3>2. /\ q \in Code!CallInfo /\ q.at = "sweep" /\ q.entry = c.entry /\ q.dynamic = c.dynamic
          /\ q.names = rest /\ q.expects = c.expects /\ q.addr = c.addr
      BY <1>3, <3>1 DEF Code!CallInfo, Code!Places
    <3>3. r = q
      BY <2>2 DEF rest
    <3> HIDE DEF q, r
    <3> QED BY <3>1, <3>2, <3>3
  <2> QED BY <2>1, <2>2
<1> HIDE DEF r
<1>5. /\ cCall' \in [CodeThreads -> Code!CallInfo]
      /\ \A u \in CodeThreads \ {t} : cCall'[u] = cCall[u]
      /\ At(t)' \in {"idle", "sweep"} /\ cCall'[t].entry \in {none, c.entry}
      /\ cCall'[t].dynamic \in {FALSE, c.dynamic}
      /\ At(t)' = "sweep" =>
           cCall'[t].names # <<>> /\ cCall'[t].expects = c.expects /\ Addr(t)' = Addr(t)
      /\ At(t)' = "idle" => cCall'[t].entry = none
  BY <1>2, <1>4, Moved DEF At, Addr
<1>6. \A u \in CodeThreads \ {t} : At(u)' = At(u) /\ Addr(u)' = Addr(u) /\ Fun(u)' = Fun(u)
  BY <1>5 DEF At, Addr, Fun
<1>7. /\ cSwept' \in [CodeWords -> Code!Version]
      /\ \A w \in CodeWords : cSwept[w] <= cSwept'[w] /\ cSwept'[w] <= cCode[w]
      /\ \A w \in CodeWords \ W : cSwept'[w] = cSwept[w]
  <2>1. \A w \in CodeWords : cSwept[w] \in Nat /\ c.expects[w] \in Nat /\ cCode[w] \in Nat
    BY <1>3 DEF Code!Version
  <2>2. CASE done
    BY <1>1, <1>3, <2>1, <2>2 DEF Code!Later
  <2>3. CASE ~done
    BY <1>1, <1>3, <2>1, <2>3
  <2> QED BY <2>2, <2>3
<1>8. /\ cCache' \in [CodeThreads -> [Code!Addresses -> Code!AnyFunction]]
      /\ \A u \in CodeThreads, a \in Code!Addresses :
           \/ cCache'[u][a] = Code!NoFunction
           \/ cCache'[u][a] = cCache[u][a] /\ a \notin c.dropped
  <2>1. Code!NoFunction \in Code!AnyFunction
    BY DEF Code!AnyFunction
  <2> QED BY <1>1, <1>3, <2>1 DEF Code!CachedIn
<1>9. Code!TypeOK'
  BY <1>1, <1>5, <1>7, <1>8 DEF SweepInv, Code!TypeOK
<1>10. ASSUME NEW a \in Code!Addresses, NEW f \in Code!Functions(a), Code!IsReady(a),
              EntryAt(a).function = f
       PROVE  Code!IsCurrent(f, cSwept')
  <2>1. Code!IsCurrent(f, cSwept) /\ Code!Extent(a) \cap W = {}
    BY <1>3, <1>10 DEF SweepInv, Readies, ReadyAt
  <2>2. \A w \in Code!Extent(a) : cSwept'[w] = cSwept[w]
    BY <1>7, <2>1, ExtentIn
  <2> QED BY <2>1, <2>2, CurrentMeans
<1>11. Past'
  <2>1. ASSUME NEW u \in CodeThreads \ {t} PROVE Expects(u)'
    <3>1. Expects(u)
      BY DEF SweepInv, Past
    <3>2. ASSUME cCall[u].expects \in [CodeWords -> Code!Version], NEW w \in CodeWords,
                 cCall[u].expects[w] <= cSwept[w]
          PROVE  cCall[u].expects[w] <= cSwept'[w]
      <4>1. cCall[u].expects[w] \in Nat /\ cSwept[w] \in Nat /\ cSwept'[w] \in Nat
        BY <1>3, <1>7, <3>2 DEF Code!Version
      <4> QED BY <1>7, <3>2, <4>1
    <3> QED BY <1>1, <1>5, <1>6, <3>1, <3>2 DEF Expects
  <2>2. Expects(t)'
    BY <1>1, <1>3, <1>5 DEF Expects, Own, Calling
  <2>3. \A u \in CodeThreads : At(u)' # "clear" /\ cSweeping' # u
    BY <1>1, <1>3, <1>5, <1>6 DEF SweepInv, Past, Code!CodeAssumption
  <2> QED BY <1>1, <1>7, <2>1, <2>2, <2>3 DEF Past
<1>12. Owned'
  <2>1. ASSUME NEW u \in CodeThreads \ {t} PROVE HasEntry(u)'
    <3>1. HasEntry(u)
      BY DEF SweepInv, Owned
    <3> QED BY <1>1, <1>5, <1>6, <3>1 DEF HasEntry
  <2>2. HasEntry(t)'
    BY <1>1, <1>3, <1>5 DEF HasEntry, Own
  <2> QED BY <1>1, <1>5, <1>6, <2>1, <2>2 DEF SweepInv, Owned, Own
<1>13. Compiling'
  <2>1. ASSUME NEW u \in CodeThreads \ {t} PROVE Compiles(u)'
    <3>1. Compiles(u) /\ LoggedFor(u) /\ Expects(u)
      BY DEF SweepInv, Past, Compiling
    <3>2. \A w : SweptAt(u, w)' <=> SweptAt(u, w)
      BY <1>1, <1>5 DEF SweptAt
    <3>3. ASSUME At(u) = "publish", Fun(u) # Code!NoFunction, NEW w \in Code!Extent(Addr(u))
          PROVE  Fun(u).code[w] >= cSwept'[w] \/ SweptAt(u, w)'
      <4>1. w \in CodeWords /\ cCall[u].dynamic /\ (Fun(u).code[w] >= cSwept[w] \/ SweptAt(u, w))
        BY <3>1, <3>3, ExtentIn DEF Compiles, Expects, Calling, Own
      <4>2. CASE w \in W
        <5>1. SweptAt(u, w)
          BY <1>3, <3>1, <4>1, <4>2 DEF LoggedFor, SweptAt
        <5> QED BY <3>2, <5>1
      <4>3. CASE w \notin W
        BY <1>7, <3>2, <4>1, <4>3
      <4> QED BY <4>2, <4>3
    <3> QED BY <1>1, <1>5, <1>6, <3>1, <3>3 DEF Compiles
  <2>2. Compiles(t)'
    BY <1>1, <1>3, <1>5 DEF Compiles
  <2> QED BY <1>1, <2>1, <2>2 DEF Compiling, LoggedFor
<1>14. Readies'
  <2>1. ASSUME NEW a \in Code!Addresses, Code!IsReady(a)' PROVE ReadyAt(a)'
    <3>1. Code!IsReady(a) /\ ReadyAt(a) /\ EntryAt(a)' = EntryAt(a)
      BY <1>1, <2>1 DEF SweepInv, Readies, Code!IsReady, EntryAt
    <3>2. EntryAt(a).function \in Code!Functions(a)
      BY <3>1 DEF ReadyAt
    <3>3. Code!IsCurrent(EntryAt(a).function, cSwept')
      BY <1>10, <3>1, <3>2
    <3> QED BY <1>1, <3>1, <3>3 DEF ReadyAt
  <2> QED BY <2>1 DEF Readies
<1>15. Symbols'
  <2>1. \A u \in CodeThreads, a \in Code!Addresses : Publishing(u, a) => Publishing(u, a)'
    BY <1>1, <1>5, <1>6 DEF Publishing
  <2> QED BY <1>1, <2>1 DEF SweepInv, Symbols, SymbolOf, Code!IsReady
<1>16. Found'
  <2>1. ASSUME NEW u \in CodeThreads \ {t} PROVE Finds(u)'
    <3>1. Finds(u) /\ Expects(u)
      BY DEF SweepInv, Found, Past
    <3>2. At(u) = "recheck" => cCache'[u][Addr(u)] \in {Code!NoFunction, Fun(u)}
      BY <1>8, <3>1 DEF Finds, Expects, Calling
    <3> QED BY <1>1, <1>5, <1>6, <3>1, <3>2 DEF Finds, Served, Code!IsReady, EntryAt
  <2>2. Finds(t)'
    BY <1>5 DEF Finds
  <2> QED BY <2>1, <2>2 DEF Found
<1>17. Cached'
  <2>1. ASSUME NEW u \in CodeThreads, NEW a \in Code!Addresses
        PROVE  /\ cCache'[u][a] \in Code!Functions(a)
               /\ ((At(u) = "recheck")' /\ Addr(u)' = a) \/ Keeps(u, a)'
    <3>1. /\ cCache[u][a] \in Code!Functions(a)
          /\ (At(u) = "recheck" /\ Addr(u) = a) \/ Keeps(u, a)
      BY DEF SweepInv, Cached, CachedBy
    <3>2. CASE cCache'[u][a] = Code!NoFunction
      <4>1. Code!NoFunction \in Code!Functions(a) /\ ~Code!NoFunction.once
        BY DEF Code!Functions, Code!NoFunction
      <4>2. Code!IsCurrent(Code!NoFunction, cSwept')
        BY <4>1, CurrentMeans
      <4> QED BY <3>2, <4>1, <4>2 DEF Keeps
    <3>3. CASE cCache'[u][a] # Code!NoFunction
      <4>1. cCache'[u][a] = cCache[u][a] /\ a \notin c.dropped
        BY <1>8, <3>3
      <4>2. CASE At(u) = "recheck" /\ Addr(u) = a
        BY <1>1, <1>6, <3>1, <4>1, <4>2
      <4>3. CASE Keeps(u, a)
        <5>1. /\ Code!IsReady(a) /\ EntryAt(a).function = cCache[u][a] /\ ~cCache[u][a].once
          BY <1>3, <3>3, <4>1, <4>3 DEF Keeps
        <5>2. Code!IsCurrent(cCache[u][a], cSwept')
          BY <1>10, <3>1, <5>1
        <5> QED BY <1>1, <3>1, <4>1, <5>1, <5>2 DEF Keeps, Code!IsReady, EntryAt
      <4> QED BY <3>1, <4>2, <4>3
    <3> QED BY <3>2, <3>3
  <2> QED BY <2>1 DEF Cached, CachedBy
<1> QED BY <1>9, <1>11, <1>12, <1>13, <1>14, <1>15, <1>16, <1>17 DEF SweepInv

\* Nothing is compiled at the beginning.
LEMMA SweepBegins ==
  ASSUME Code!Init
  PROVE  SweepInv
<1>1. /\ cCode = [w \in CodeWords |-> IF w \in Blank THEN 0 ELSE 1] /\ cSwept = cCode
      /\ cCount = 0 /\ cLog = {} /\ cPieces = {} /\ cSweeping = none /\ cSetting \in Settings
      /\ cEntryOf = [a \in Code!Addresses |-> none]
      /\ cEntry = [i \in CodeEntries |-> Code!NewEntry]
      /\ cSymbol = [a \in Code!Addresses |-> Code!NoSymbol]
      /\ cCache = [t \in CodeThreads |-> [a \in Code!Addresses |-> Code!NoFunction]]
      /\ cCall = [t \in CodeThreads |-> Code!Idle]
  BY DEF Code!Init
<1>2. /\ cCode \in [CodeWords -> Code!Version]
      /\ \A w \in CodeWords : cSwept[w] <= cCode[w]
  <2>1. 0 \in Code!Version /\ 1 \in Code!Version
    BY DEF Code!Version, Code!CodeAssumption
  <2>2. cCode \in [CodeWords -> Code!Version]
    BY <1>1, <2>1
  <2>3. \A w \in CodeWords : cCode[w] \in Nat
    BY <2>2 DEF Code!Version
  <2> QED BY <1>1, <2>2, <2>3
<1>3. \A t \in CodeThreads :
        /\ At(t) = "idle" /\ cCall[t].entry = none /\ cCall[t].dynamic = FALSE /\ t # none
  BY <1>1, IdleInfo DEF At, Code!CodeAssumption
<1>4. Code!NoFunction \in Code!AnyFunction
  BY DEF Code!AnyFunction
<1>5. Code!TypeOK
  <2>1. Code!NewEntry \in [status : {"compiling", "ready", "failed"}, function : Code!AnyFunction]
    BY <1>4 DEF Code!NewEntry
  <2>2. Code!NoSymbol \in [status : {"none", "defining", "defined", "failed"},
                           function : Code!AnyFunction]
    BY <1>4 DEF Code!NoSymbol
  <2>3. cEntry \in [CodeEntries -> [status : {"compiling", "ready", "failed"},
                                    function : Code!AnyFunction]]
    BY <1>1, <2>1
  <2>4. cSymbol \in [Code!Addresses -> [status : {"none", "defining", "defined", "failed"},
                                        function : Code!AnyFunction]]
    BY <1>1, <2>2
  <2>5. cCache \in [CodeThreads -> [Code!Addresses -> Code!AnyFunction]]
    BY <1>1, <1>4
  <2>6. cCall \in [CodeThreads -> Code!CallInfo]
    BY <1>1, IdleInfo
  <2>7. cEntryOf \in [Code!Addresses -> CodeEntries \cup {none}]
    BY <1>1
  <2> QED BY <1>1, <1>2, <2>3, <2>4, <2>5, <2>6, <2>7 DEF Code!TypeOK
<1>6. Past
  BY <1>1, <1>2, <1>3 DEF Past, Expects, Own, Calling
<1>7. Owned
  BY <1>1, <1>3 DEF Owned, HasEntry, Own
<1>8. Compiling
  BY <1>1, <1>3 DEF Compiling, Compiles, LoggedFor
<1>9. Readies
  BY <1>1 DEF Readies, Code!IsReady
<1>10. Symbols
  BY <1>1 DEF Symbols, SymbolOf, Code!NoSymbol
<1>11. Found
  BY <1>3 DEF Found, Finds
<1>12. Cached
  <2>1. \A a \in Code!Addresses : Code!NoFunction \in Code!Functions(a) /\ ~Code!NoFunction.once
    BY DEF Code!Functions, Code!NoFunction
  <2>2. \A a \in Code!Addresses : Code!IsCurrent(Code!NoFunction, cSwept)
    BY <2>1, CurrentMeans
  <2> QED BY <1>1, <2>1, <2>2 DEF Cached, CachedBy, Keeps
<1> QED BY <1>5, <1>6, <1>7, <1>8, <1>9, <1>10, <1>11, <1>12 DEF SweepInv

\* The look into the table, whatever it has.
LEMMA GetOrCreateStep ==
  ASSUME SweepInv, NEW t \in CodeThreads, Code!GetOrCreate(t), UNCHANGED cSetting
  PROVE  SweepInv'
BY LookStep, CreateStep DEF Addr

\* Every step keeps the invariant; the other model's steps change nothing of it.
LEMMA SweepStays ==
  ASSUME SweepInv, MCNext \/ UNCHANGED <<model, cVars, gVars>>
  PROVE  SweepInv'
<1>1. CASE UNCHANGED cVars
  <2>1. /\ UNCHANGED <<cCode, cSwept, cCount, cLog, cEntryOf, cEntry, cSymbol, cPieces, cCache,
                      cSweeping, cCall, cSetting>>
    BY <1>1 DEF cVars
  <2>2. Code!TypeOK' /\ Past' /\ Owned' /\ Compiling'
    BY <2>1 DEF SweepInv, Code!TypeOK, Past, Expects, Owned, HasEntry, Compiling, Compiles,
                LoggedFor, SweptAt, At, Addr, Fun
  <2>3. Readies' /\ Symbols'
    BY <2>1 DEF SweepInv, Readies, ReadyAt, EntryAt, Code!IsReady, Symbols, SymbolOf, Publishing,
                At, Addr
  <2>4. Found' /\ Cached'
    BY <2>1 DEF SweepInv, Found, Finds, Served, Cached, CachedBy, Keeps, EntryAt, Code!IsReady,
                At, Addr, Fun
  <2> QED BY <2>2, <2>3, <2>4 DEF SweepInv
<1>2. CASE Code!Next
  <2>1. PICK t \in CodeThreads : Code!Step(t)
    BY <1>2 DEF Code!Next
  <2>2. UNCHANGED cSetting
    BY <1>2 DEF Code!Next
  <2>3. CASE \E w \in CodeWords : Code!Write(t, w)
    BY <2>2, <2>3, WriteStep
  <2>4. CASE \E s \in cSetting.sweeps : Code!KeSweepIcacheRange(t, s)
    BY <2>2, <2>4, KeSweepStep
  <2>5. CASE \E a \in cSetting.called : Code!Call(t, a)
    BY <2>2, <2>5, CallStep
  <2>6. CASE Code!Compile(t)
    BY <2>2, <2>6, BeginStep, DefineSymbolStep, DefineFunctionStep, MarkFailedStep,
       CompileAgainStep, RunOnceStep, MarkReadyStep DEF Code!Compile
  <2>7. CASE Code!Resolve(t)
    BY <2>2, <2>7, GetOrCreateStep, AwaitStep, CacheCallStep, RecheckCountStep, IdleStep
       DEF Code!Resolve
  <2>8. CASE Code!Sweep(t)
    BY <2>2, <2>8, InvalidateCodeRangeStep, InvalidateDynamicCallsStep DEF Code!Sweep
  <2> QED BY <2>1, <2>3, <2>4, <2>5, <2>6, <2>7, <2>8 DEF Code!Step
<1> QED BY <1>1, <1>2 DEF MCNext

\* What the invariant says of calls, lookups, caches and the module.
LEMMA SweepShows ==
  ASSUME SweepInv
  PROVE  CompiledIsCurrent
<1>1. Code!ReadyIsCurrent
  BY DEF SweepInv, Readies, ReadyAt, EntryAt, Code!ReadyIsCurrent
<1>2. Code!CachedIsCurrent
  BY DEF SweepInv, Cached, CachedBy, Keeps, At, Addr, Code!At, Code!CachedIsCurrent
<1>3. Code!CallsRunCurrent
  BY DEF SweepInv, Found, Finds, Served, At, Fun, Code!At, Code!CallsRunCurrent
<1>4. Code!RunsOnce
  BY DEF SweepInv, Readies, ReadyAt, EntryAt, Cached, CachedBy, Keeps, At, Addr, Code!At,
         Code!RunsOnce
<1>5. Code!SymbolMatchesEntry
  <2>1. ASSUME NEW a \in Code!Addresses, cSymbol[a].status = "defined", ~Code!IsReady(a)
        PROVE  \E t \in Code!InFlight : cCall[t].addr = a
    BY <2>1 DEF SweepInv, Symbols, SymbolOf, Publishing, Addr, Code!InFlight
  <2>2. ASSUME NEW a \in Code!Addresses, Code!IsReady(a)
        PROVE  cSymbol[a].status = "defined" /\ cEntry[cEntryOf[a]].function = cSymbol[a].function
    BY <2>2 DEF SweepInv, Readies, ReadyAt, EntryAt
  <2> QED BY <2>1, <2>2 DEF Code!SymbolMatchesEntry
<1> QED BY <1>1, <1>2, <1>3, <1>4, <1>5 DEF SweepInv, CompiledIsCurrent

\* Once a sweep has returned no call runs, no lookup finds and no cache keeps what was compiled
\* before it, under any name, and code published while it was swept is run once: for any threads,
\* writers, names, functions that overlap, sweeps and numbers of attempts (cpu/processor.cc,
\* cpu/entry_table.cc, backend/a64).
THEOREM CodeIsCurrent == MCSpec => []CompiledIsCurrent
<1>1. MCInit => SweepInv
  BY SweepBegins DEF MCInit
<1>2. SweepInv /\ [MCNext]_<<model, cVars, gVars>> => SweepInv'
  BY SweepStays
<1>3. SweepInv => CompiledIsCurrent
  BY SweepShows
<1> QED BY <1>1, <1>2, <1>3, PTL DEF MCSpec

=============================================================================
