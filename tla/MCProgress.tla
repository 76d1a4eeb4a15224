------------------------------ MODULE MCProgress ------------------------------
(***************************************************************************)
(* What must eventually happen.  The initial state chooses a component;    *)
(* the variables of the others keep their initial values, and a property   *)
(* assumes the fairness of the component it is about.                      *)
(***************************************************************************)
EXTENDS DpcQueue, TLC

CONSTANTS a, b, d1, d2, d3, f1, f2, f3, f4, k1, p1, p2, t1, t2, t3

VARIABLES
  model,
  wFree, wOwner, wRecursion, wFifo, wMoved, wPulsed, wWaitObject, wBlocked,
  wTerminatePending, wCpu, wOn, wHasBlocked, wRepollNow, wLock, wPc, wDepth, wWake,
  wCallPc, wCallThread, wKind,
  mFree, mOwner, mRecursion, mFifo, mWait, mMoved, mPulsed, mTaken, mOn, mBlocked,
  mHasBlocked, mRepollNow, mLock, mPc, mWake, mPulsing,
  qState, qDue, qInterval, qOwner, qRing, qQueue, qLater, qCur, qQpc, qCopied,
  qWaitItem, qCallback, qSignal, qMutex, qTimerLock, qGlobal, qAlive, qApc, qPc, qOp,
  qTm, qTodo, qOver,
  lOwner, lIrql, lHeld, lWant, lTarget, lRunning, lReady, lShuttingDown, lStopped,
  tConn, tUser, tListening, tNet, tLinked, tLost, tHasty, tAnswers, tWritten, tGot,
  aState, aGeneration, aFreshness, aNet, aOwner, aAccepted, aDropped, aDelivered,
  cCode, cSwept, cCount, cLog, cEntryOf, cEntry, cSymbol, cPieces, cCache, cSweeping,
  cCall, cSetting,
  gGuest, gWatch, gValid, gGpuWritten, gRam, gBuffer, gSubmitted, gOwner, gResolve,
  gRearm, gRearming, gUnsubmitted, gGpu, gAct, gWritten, gUsed

wVars == <<wFree, wOwner, wRecursion, wFifo, wMoved, wPulsed, wWaitObject, wBlocked,
           wTerminatePending, wCpu, wOn, wHasBlocked, wRepollNow, wLock, wPc, wDepth,
           wWake, wCallPc, wCallThread, wKind>>
mVars == <<mFree, mOwner, mRecursion, mFifo, mWait, mMoved, mPulsed, mTaken, mOn,
           mBlocked, mHasBlocked, mRepollNow, mLock, mPc, mWake, mPulsing>>
qVars == <<qState, qDue, qInterval, qOwner, qRing, qQueue, qLater, qCur, qQpc, qCopied,
           qWaitItem, qCallback, qSignal, qMutex, qTimerLock, qGlobal, qAlive, qApc,
           qPc, qOp, qTm, qTodo, qOver>>
lVars == <<lOwner, lIrql, lHeld, lWant, lTarget, lRunning, lReady, lShuttingDown,
           lStopped>>
tVars == <<tConn, tUser, tListening, tNet, tLinked, tLost, tHasty, tAnswers, tWritten,
           tGot>>
aVars == <<aState, aGeneration, aFreshness, aNet, aOwner, aAccepted, aDropped,
           aDelivered>>
cVars == <<cCode, cSwept, cCount, cLog, cEntryOf, cEntry, cSymbol, cPieces, cCache,
           cSweeping, cCall, cSetting>>
gVars == <<gGuest, gWatch, gValid, gGpuWritten, gRam, gBuffer, gSubmitted, gOwner,
           gResolve, gRearm, gRearming, gUnsubmitted, gGpu, gAct, gWritten, gUsed>>
idle == <<wVars, mVars, qVars, lVars, tVars, aVars, cVars, gVars>>
\* Every component but the one that moves keeps its state.
Idle(moving) ==
  /\ (moving # 1 => UNCHANGED wVars)
  /\ (moving # 2 => UNCHANGED mVars)
  /\ (moving # 3 => UNCHANGED qVars)
  /\ (moving # 4 => UNCHANGED lVars)
  /\ (moving # 5 => UNCHANGED tVars)
  /\ (moving # 6 => UNCHANGED aVars)
  /\ (moving # 7 => UNCHANGED cVars)
  /\ (moving # 8 => UNCHANGED gVars)

\* DPCs d1 and d3 target processor p1 and d2 none; f1 runs on p1, f2 on p2.
DesiredOfEach == d1 :> p1 @@ d2 :> None @@ d3 :> p1
CpuOfEach == f1 :> p1 @@ f2 :> p2

Of(shape, objects) == [shape |-> shape, of |-> objects]
DispatchOfEach == f1 :> p1 @@ f2 :> p2 @@ f3 :> p1 @@ f4 :> p2
Peer(e) == IF e = a THEN b ELSE a
FirstSequence(e, n) == IF e = a THEN 14 ELSE (5 + 4 * n) % 16

OneObject == INSTANCE WaitProperties WITH
         Threads <- {t1, t2}, Callers <- {k1}, Cpus <- {p1},
         Kinds <- {"autoEvent", "manualEvent", "mutant"},
         Ops <- {"signal", "pulse", "reset"}, MaxPermits <- 1, MaxDepth <- 1,
         NoThread <- None, free <- wFree, owner <- wOwner, recursion <- wRecursion,
         fifo <- wFifo, moved <- wMoved, pulsed <- wPulsed, waitObject <- wWaitObject,
         blocked <- wBlocked, terminatePending <- wTerminatePending, cpu <- wCpu,
         on <- wOn, hasBlocked <- wHasBlocked, repollNow <- wRepollNow, lock <- wLock,
         pc <- wPc, depth <- wDepth, wake <- wWake, callPc <- wCallPc,
         callThread <- wCallThread, kind <- wKind
Pulsed == INSTANCE MultiWaitProperties WITH
         Threads <- {t1}, Callers <- {k1}, Cpus <- {p1}, CpuOf <- t1 :> p1,
         MaxPermits <- 1, MaxDepth <- 1, Objects <- {a, b},
         KindOf <- a :> "manualEvent" @@ b :> "semaphore",
         Waits <- {Of("any", <<a, b>>), Of("all", <<a, b>>)},
         Ops <- {"signal", "reset", "pulse"}, free <- mFree, owner <- mOwner,
         recursion <- mRecursion, fifo <- mFifo, wait <- mWait, moved <- mMoved,
         pulsed <- mPulsed, taken <- mTaken, on <- mOn, blocked <- mBlocked,
         hasBlocked <- mHasBlocked, repollNow <- mRepollNow, lock <- mLock, pc <- mPc,
         wake <- mWake, pulsing <- mPulsing
WithOther == INSTANCE MultiWaitProperties WITH
         Threads <- {t1}, Callers <- {k1}, Cpus <- {p1}, CpuOf <- t1 :> p1,
         MaxPermits <- 1, MaxDepth <- 1, Objects <- {a, b},
         KindOf <- a :> "autoEvent" @@ b :> "other",
         Waits <- {Of("single", <<a>>), Of("any", <<a, b>>), Of("all", <<a, b>>)},
         Ops <- {"signal"}, free <- mFree, owner <- mOwner, recursion <- mRecursion,
         fifo <- mFifo, wait <- mWait, moved <- mMoved, pulsed <- mPulsed,
         taken <- mTaken, on <- mOn, blocked <- mBlocked, hasBlocked <- mHasBlocked,
         repollNow <- mRepollNow, lock <- mLock, pc <- mPc, wake <- mWake,
         pulsing <- mPulsing
HostTimers == INSTANCE TimerQueue WITH
         Timers <- {d1}, Threads <- {f1, f2}, Queue <- p1, Items <- {t1}, RingSize <- 1,
         Dues <- {1}, Intervals <- {0, 1}, Lag <- 0, Ops <- {"all"}, state <- qState,
         due <- qDue, interval <- qInterval, owner <- qOwner, ring <- qRing,
         queue <- qQueue, later <- qLater, cur <- qCur, qpc <- qQpc, copied <- qCopied,
         waitItem <- qWaitItem, callback <- qCallback, signal <- qSignal,
         mutex <- qMutex, timerLock <- qTimerLock, global <- qGlobal, alive <- qAlive,
         apc <- qApc, pc <- qPc, op <- qOp, tm <- qTm, todo <- qTodo, over <- qOver
Spinning == INSTANCE SpinLock WITH
         Fibers <- {f1, f2, f3, f4}, Hosts <- {}, Dispatchers <- {p1, p2},
         DispatchOf <- DispatchOfEach, Locks <- {a, b}, Rank <- a :> 1 @@ b :> 2,
         ApcLockOf <- [f \in {f1, f2, f3, f4} |-> b], Ops <- {}, owner <- lOwner,
         irql <- lIrql, held <- lHeld, want <- lWant, target <- lTarget,
         running <- lRunning, ready <- lReady, shuttingDown <- lShuttingDown,
         stopped <- lStopped
Teardown == INSTANCE SpinLock WITH
         Fibers <- {f1, f2, f3, f4}, Hosts <- {}, Dispatchers <- {p1, p2},
         DispatchOf <- DispatchOfEach, Locks <- {a, b}, Rank <- a :> 1 @@ b :> 2,
         ApcLockOf <- [f \in {f1, f2, f3, f4} |-> b], Ops <- {"shutdown"},
         owner <- lOwner, irql <- lIrql, held <- lHeld, want <- lWant,
         target <- lTarget, running <- lRunning, ready <- lReady,
         shuttingDown <- lShuttingDown, stopped <- lStopped
Deliver == INSTANCE TcpLink WITH
         Ends <- {a, b}, Other <- Peer, Iss <- FirstSequence, Connectors <- {a},
         Listeners <- {b}, SeqSpace <- 16, EarlyLimit <- 2, DuplicateAcks <- 2,
         BufferSize <- 2, Mss <- 1, MaxLost <- 1, MaxAnswers <- 1, MaxHasty <- 0,
         SynRetries <- 1, Retries <- 3, MaxWrites <- a :> 3 @@ b :> 0,
         Ops <- {"handshake"}, conn <- tConn, user <- tUser, listening <- tListening,
         net <- tNet, linked <- tLinked, lost <- tLost, hasty <- tHasty,
         answers <- tAnswers, written <- tWritten, got <- tGot
Finish == INSTANCE TcpLink WITH
         Ends <- {a, b}, Other <- Peer, Iss <- FirstSequence, Connectors <- {a},
         Listeners <- {b}, SeqSpace <- 16, EarlyLimit <- 2, DuplicateAcks <- 2,
         BufferSize <- 2, Mss <- 1, MaxLost <- 1, MaxAnswers <- 1, MaxHasty <- 0,
         SynRetries <- 2, Retries <- 4, MaxWrites <- a :> 1 @@ b :> 0,
         Ops <- {"shutdown"}, conn <- tConn, user <- tUser, listening <- tListening,
         net <- tNet, linked <- tLinked, lost <- tLost, hasty <- tHasty,
         answers <- tAnswers, written <- tWritten, got <- tGot
Secure == INSTANCE Association WITH
         Ends <- {a, b}, Larger <- b, Retries <- 1, PendingLimit <- 2, Window <- 4,
         Jump <- 2, LowRange <- 6, MaxSequence <- 5, AllowZero <- FALSE,
         Rooms <- {1, 9}, Actions <- {"connect", "send"}, MaxGenerations <- 2,
         MaxFreshness <- 3, MaxData <- 2, state <- aState, generation <- aGeneration,
         freshness <- aFreshness, net <- aNet, owner <- aOwner, accepted <- aAccepted,
         dropped <- aDropped, delivered <- aDelivered
Code == INSTANCE DynamicCode WITH
         Threads <- {t1, t2, t3}, NoThread <- None, Writers <- {t3},
         Names <- {"kernel", "window"}, Words <- 1..1, End <- <<1>>, Page <- <<0>>,
         Blank <- {1}, Zeroed <- {1}, SweepNames <- [n \in {"kernel", "window"} |-> <<n>>],
         Entries <- 1..3, NoEntry <- 0, MaxAttempts <- 2, MaxVersion <- 1,
         Settings <- {[callers |-> {t1, t2}, called |-> {<<"kernel", 1>>},
                       sweeps |-> {[name |-> "kernel", words |-> {1}]},
                       counts |-> 1, versions |-> 1]},
         code <- cCode, swept <- cSwept, count <- cCount, log <- cLog,
         entryOf <- cEntryOf, entry <- cEntry, symbol <- cSymbol, pieces <- cPieces,
         cache <- cCache, sweeping <- cSweeping, call <- cCall, setting <- cSetting
Resolve == INSTANCE ResolveReadback WITH
         Pages <- 1..2, Views <- {a}, Home <- a, PerPage <- 2, Threads <- {t1},
         Resolves <- {<<2, 3>>}, Draws <- {}, Fills <- {<<3, 4>>}, Protected <- {},
         Freed <- {}, Actions <- {"read", "write", "fill"}, Beside <- "never",
         ProtectInUse <- FALSE, guest <- gGuest, watch <- gWatch, valid <- gValid,
         gpuWritten <- gGpuWritten, ram <- gRam, buffer <- gBuffer,
         submitted <- gSubmitted, owner <- gOwner, resolve <- gResolve, rearm <- gRearm,
         rearming <- gRearming, unsubmitted <- gUnsubmitted, gpu <- gGpu, act <- gAct,
         written <- gWritten, used <- gUsed

ASSUME ConstantsOK ==
  /\ Pulsed!MultiWaitAssumption /\ WithOther!MultiWaitAssumption
  /\ Spinning!SpinAssumption /\ Deliver!LinkAssumption /\ Finish!LinkAssumption
  /\ Secure!AssociationAssumption /\ Code!CodeAssumption /\ Resolve!HeapAssumption

MCInit ==
  /\ model \in {"dpcs", "waits", "pulsed", "beside", "timers", "spin", "teardown",
                "deliver", "finish", "secure", "code", "resolve"}
  /\ Init /\ OneObject!Init /\ (model # "waits" => wKind = "mutant")
  /\ IF model = "beside" THEN WithOther!Init ELSE Pulsed!Init
  /\ HostTimers!Init /\ Spinning!Init /\ Deliver!Init /\ Secure!Init /\ Code!Init /\ Resolve!Init
MCNext ==
  \/ model = "dpcs" /\ Next /\ UNCHANGED <<model, idle>>
  \/ model = "waits" /\ OneObject!Next /\ UNCHANGED <<model, vars>> /\ Idle(1)
  \/ model = "pulsed" /\ Pulsed!Next /\ UNCHANGED <<model, vars>> /\ Idle(2)
  \/ model = "beside" /\ WithOther!Next /\ UNCHANGED <<model, vars>> /\ Idle(2)
  \/ model = "timers" /\ HostTimers!Next /\ UNCHANGED <<model, vars>> /\ Idle(3)
  \/ model = "spin" /\ Spinning!Next /\ UNCHANGED <<model, vars>> /\ Idle(4)
  \/ model = "teardown" /\ Teardown!Next /\ UNCHANGED <<model, vars>> /\ Idle(4)
  \/ model = "deliver" /\ Deliver!Next /\ UNCHANGED <<model, vars>> /\ Idle(5)
  \/ model = "finish" /\ Finish!Next /\ UNCHANGED <<model, vars>> /\ Idle(5)
  \/ model = "secure" /\ Secure!Next /\ UNCHANGED <<model, vars>> /\ Idle(6)
  \/ model = "code" /\ Code!Next /\ UNCHANGED <<model, vars>> /\ Idle(7)
  \/ model = "resolve" /\ Resolve!Next /\ UNCHANGED <<model, vars>> /\ Idle(8)
MCSpec == MCInit /\ [][MCNext]_<<model, vars, idle>>

\* Waits end: no waiter for a mutant is starved by fibers that take it again and again, a
\* set event with a queued waiter is consumed, a pulse releases whoever waits, and a wait on
\* several ends while what it waits for stays signaled, also beside an object that moves no
\* epoch (xobject.cc, CooperativeWait, WaitMultiple; guest_scheduler.cc, RereadyBlocked).
WaitsEnd ==
  /\ model = "waits" /\ OneObject!Fairness =>
       OneObject!MutantWaiterGetsIt /\ OneObject!SetIsTaken /\ OneObject!PulseReleases
  /\ model = "pulsed" /\ Pulsed!Fairness => Pulsed!SatisfiedIsServed /\ Pulsed!PulseReleasesAny
  /\ model = "beside" /\ WithOther!Fairness => WithOther!SatisfiedIsServed

\* What was asked for happens: a queued DPC runs unless it is removed, a timer that is set
\* expires unless it is cancelled and its cancel returns, whoever spins for a lock gets it,
\* teardown gets its dispatch threads back, a guest call ends while others sweep and compile
\* what it calls, and an access to memory the GPU uses ends (kernel_state.cc,
\* ProcessorDpcThread; base/threading_timer_queue.cc; xboxkrnl_threading.cc,
\* KfAcquireSpinLock; guest_scheduler.cc, Shutdown; cpu/processor.cc; gpu/shared_memory.cc).
RequestsEnd ==
  /\ model = "dpcs" /\ Fairness => QueuedRuns
  /\ model = "timers" /\ HostTimers!Fairness => HostTimers!Expires /\ HostTimers!DisarmReturns
  /\ model = "spin" /\ Spinning!Fairness => Spinning!SpinEnds
  /\ model = "teardown" /\ Teardown!TeardownFairness => Teardown!TeardownEnds
  /\ model = "code" /\ Code!Fairness => Code!CallsEnd
  /\ model = "resolve" /\ Resolve!Fairness => Resolve!AccessEnds

\* What is written to a stream arrives and a finished stream ends at both ends
\* (net/xnet_stream.cc); two consoles that ask for each other share an association
\* (net/xnet_association.cc).
StreamsEnd ==
  /\ model = "deliver" /\ Deliver!Fairness => Deliver!Delivered
  /\ model = "finish" /\ Finish!Fairness => Finish!EndsAtBoth
  /\ model = "secure" /\ Secure!Fairness => Secure!Meet
===============================================================================
