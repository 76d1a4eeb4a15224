------------------------------- MODULE MCWaits -------------------------------
(***************************************************************************)
(* Waits without terminations.  The initial state chooses the model: waits *)
(* on one mutant, or waits on a semaphore and a mutant, on either or on    *)
(* both.  The variables of the other model keep their initial values.      *)
(***************************************************************************)
EXTENDS WaitProperties, TLC

CONSTANTS
  sem, mut, c1, c2, t1, t2,
  SetThreads, SetCpuOf, Objects, KindOf, Waits, SetOps   \* of the waits on several

VARIABLES
  model,
  mFree, mOwner, mRecursion, mFifo, mWait, mMoved, mPulsed, mTaken, mOn, mBlocked,
  mHasBlocked, mRepollNow, mLock, mPc, mWake, mPulsing

mVars == <<mFree, mOwner, mRecursion, mFifo, mWait, mMoved, mPulsed, mTaken, mOn,
           mBlocked, mHasBlocked, mRepollNow, mLock, mPc, mWake, mPulsing>>

CpuOfEach == t1 :> c1 @@ t2 :> c2
KindOfEach == sem :> "semaphore" @@ mut :> "mutant"
Of(shape, objects) == [shape |-> shape, of |-> objects]
EveryShape == {Of("single", <<sem>>), Of("single", <<mut>>),
               Of("any", <<sem, mut>>), Of("all", <<sem, mut>>)}

Sets == INSTANCE MultiWaitProperties WITH
         Threads <- SetThreads, CpuOf <- SetCpuOf, Ops <- SetOps, None <- NoThread,
         free <- mFree, owner <- mOwner, recursion <- mRecursion, fifo <- mFifo,
         wait <- mWait, moved <- mMoved, pulsed <- mPulsed, taken <- mTaken, on <- mOn,
         blocked <- mBlocked, hasBlocked <- mHasBlocked, repollNow <- mRepollNow,
         lock <- mLock, pc <- mPc, wake <- mWake, pulsing <- mPulsing

ASSUME SetsOK == Sets!MultiWaitAssumption

MCInit ==
  /\ model \in {"mutant", "set"} /\ Init /\ Sets!Init
  /\ model = "set" => cpu = [t \in Threads |-> c1]
MCNext ==
  \/ model = "mutant" /\ Next /\ UNCHANGED <<model, mVars>>
  \/ model = "set" /\ Sets!Next /\ UNCHANGED <<model, vars>>
MCSpec == MCInit /\ [][MCNext]_<<model, vars, mVars>>

\* A signal moves the gate of a parked wait on several objects it satisfies, and no wait on
\* one or all of them loses or doubles the permit of a mutant (xobject.cc,
\* CooperativeWaitMultiple, WaitMultiple; xmutant.cc, WaitCallback and ReleaseMutant).
SetsServed == Sets!TypeOK /\ Sets!SignalMovesGate /\ Sets!OnePermitEach
===============================================================================
