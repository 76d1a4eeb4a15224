------------------------------- MODULE MCLocks --------------------------------
(***************************************************************************)
(* Spin locks with a host thread and Shutdown, or the guest header of a    *)
(* semaphore, an auto-reset event or a mutant: the initial state chooses.  *)
(* The variables of the other models keep their initial values.            *)
(***************************************************************************)
EXTENDS SpinLock, TLC

CONSTANTS f1, f2, f3, p1, p2, l1, a1, a2, a3

\* f1 and f3 share a dispatch thread; the APC locks come last.
DispatchOfEach == f1 :> p1 @@ f2 :> p2 @@ f3 :> p1
RankOfEach == l1 :> 1 @@ a1 :> 3 @@ a2 :> 3 @@ a3 :> 3
ApcLockOfEach == f1 :> a1 @@ f2 :> a2 @@ f3 :> a3

VARIABLES
  model,
  sCount, sHost, sHeader, sTaken, sStored,
  mOwner, mRecursion, mPermit, mHeader, mGlobalLock, mPc, mNext, mSampled, mReinit

sVars == <<sCount, sHost, sHeader, sTaken, sStored>>
mVars == <<mOwner, mRecursion, mPermit, mHeader, mGlobalLock, mPc, mNext, mSampled,
           mReinit>>

Semaphore == INSTANCE SignalHeader WITH
         Threads <- Fibers, Kind <- "semaphore", Limit <- 2, Stores <- 0..2,
         count <- sCount, host <- sHost, header <- sHeader, taken <- sTaken,
         stored <- sStored
Event == INSTANCE SignalHeader WITH
         Threads <- Fibers, Kind <- "auto", Limit <- 1, Stores <- 0..1, count <- sCount,
         host <- sHost, header <- sHeader, taken <- sTaken, stored <- sStored
\* By address and by handle, with guests that re-initialize it.
Mutant == INSTANCE MutantHeader WITH
         Threads <- Fibers, Ops <- {"address", "store"}, MaxRecursion <- 2,
         owner <- mOwner, recursion <- mRecursion, permit <- mPermit, header <- mHeader,
         globalLock <- mGlobalLock, pc <- mPc, next <- mNext, sampled <- mSampled,
         reinit <- mReinit
\* By handle, with hand-offs and threads that exit while they own it.
Handle == INSTANCE MutantHeader WITH
         Threads <- Fibers, Ops <- {"abandon", "handoff"}, MaxRecursion <- 2,
         owner <- mOwner, recursion <- mRecursion, permit <- mPermit, header <- mHeader,
         globalLock <- mGlobalLock, pc <- mPc, next <- mNext, sampled <- mSampled,
         reinit <- mReinit

ASSUME HeadersOK ==
  /\ Semaphore!HeaderAssumption /\ Event!HeaderAssumption
  /\ Mutant!MutantAssumption /\ Handle!MutantAssumption

MCInit ==
  /\ model \in {"spin", "semaphore", "event", "mutant", "handle"}
  /\ Init /\ Event!Init /\ Mutant!Init
MCNext ==
  \/ model = "spin" /\ Next /\ UNCHANGED <<model, sVars, mVars>>
  \/ model = "semaphore" /\ Semaphore!Next /\ UNCHANGED <<model, vars, mVars>>
  \/ model = "event" /\ Event!Next /\ UNCHANGED <<model, vars, mVars>>
  \/ model = "mutant" /\ Mutant!Next /\ UNCHANGED <<model, vars, sVars>>
  \/ model = "handle" /\ Handle!Next /\ UNCHANGED <<model, vars, sVars>>
MCSpec == MCInit /\ [][MCNext]_<<model, vars, sVars, mVars>>

\* A mutant has one permit, its header tells how often it is held, a semaphore's mirror
\* counts every permit, and an event that is called signaled is: whatever falls between a
\* wait's poll and its WaitCallback, and whatever the guest stores.
\* SyncFromGuest frees a mutant only if the guest re-initialized it (kernel/xmutant.cc,
\* xsemaphore.cc, xevent.cc).
HeadersAgree ==
  /\ [](/\ model = "semaphore" => Semaphore!TypeOK /\ Semaphore!CountExact
        /\ model = "event" => Event!TypeOK /\ Event!SignaledIsSo
        /\ Mutant!TypeOK /\ Mutant!OnePermit /\ Mutant!HeaderTells)
  /\ [][model = "mutant" /\ mOwner' # mOwner /\ (\E t \in Fibers : Mutant!Swap(t))
           => mReinit]_<<model, vars, sVars, mVars>>
===============================================================================
