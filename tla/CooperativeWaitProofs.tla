------------------------ MODULE CooperativeWaitProofs ------------------------
(***************************************************************************)
(* Proofs about cooperative waits on one object, for any sets of fibers,   *)
(* callers and CPUs, and then about waits on several.                      *)
(***************************************************************************)
EXTENDS MCWaits, FiniteSetTheorems, NaturalsInduction, TLAPS

\* An element of a list is at one of its indices.
LEMMA ElemAt ==
  ASSUME NEW S, NEW s \in Seq(S), NEW i \in 1..Len(s)
  PROVE  s[i] \in Elems(s)
  BY DEF Elems

\* LinkTailLocked: appending keeps the type, adds one element and, when it was not there,
\* no duplicate.
LEMMA LinkTailElems ==
  ASSUME NEW S, NEW s \in Seq(S), NEW t \in S
  PROVE  /\ LinkTail(s, t) \in Seq(S)
         /\ Elems(LinkTail(s, t)) = Elems(s) \cup {t}
         /\ Distinct(s) /\ t \notin Elems(s) => Distinct(LinkTail(s, t))
<1> DEFINE h == Append(s, t)
<1>1. /\ h \in Seq(S) /\ Len(h) = Len(s) + 1 /\ h[Len(s) + 1] = t
      /\ \A i \in 1..Len(s) : h[i] = s[i]
  OBVIOUS
<1> HIDE DEF h
<1>2. Elems(h) = Elems(s) \cup {t}
  <2>1. \A x \in Elems(h) : x \in Elems(s) \cup {t}
    BY <1>1 DEF Elems
  <2>2. ASSUME NEW x \in Elems(s) PROVE x \in Elems(h)
    <3>1. PICK i \in 1..Len(s) : s[i] = x
      BY DEF Elems
    <3> QED BY <3>1, <1>1, ElemAt
  <2>3. t \in Elems(h)
    BY <1>1, ElemAt
  <2> QED BY <2>1, <2>2, <2>3
<1>3. ASSUME Distinct(s), t \notin Elems(s) PROVE Distinct(h)
  BY <1>1, <1>3 DEF Distinct, Elems
<1> QED BY <1>1, <1>2, <1>3 DEF LinkTail, h

\* Appending to a list leaves its front alone.
LEMMA LinkTailHead ==
  ASSUME NEW S, NEW s \in Seq(S), s # <<>>, NEW t \in S
  PROVE  LinkTail(s, t) # <<>> /\ Head(LinkTail(s, t)) = Head(s)
<1> DEFINE h == Append(s, t)
<1>1. h \in Seq(S) /\ Len(h) >= 1 /\ h[1] = s[1]
  OBVIOUS
<1> HIDE DEF h
<1> QED BY <1>1 DEF LinkTail, h

\* UnlinkLocked closes the gap at the one place where t is linked.
LEMMA UnlinkAt ==
  ASSUME NEW S, NEW s \in Seq(S), NEW t \in Elems(s), Distinct(s)
  PROVE  \E k \in 1..Len(s) :
           /\ s[k] = t
           /\ Unlink(s, t) = [j \in 1..(Len(s) - 1) |-> IF j < k THEN s[j] ELSE s[j + 1]]
<1> DEFINE P(i) == s[i] = t /\ \A j \in DOMAIN s : j < i => s[j] # t
           k == CHOOSE i \in DOMAIN s : P(i)
<1>1. PICK i \in 1..Len(s) : s[i] = t
  BY DEF Elems
<1>2. P(i)
  BY <1>1 DEF Distinct
<1>3. k \in 1..Len(s) /\ s[k] = t
  BY <1>2
<1>4. Unlink(s, t) = [j \in 1..(Len(s) - 1) |-> IF j < k THEN s[j] ELSE s[j + 1]]
  BY DEF Unlink
<1> QED BY <1>3, <1>4

\* Exactly t leaves a duplicate-free list, whether it was linked or not.
LEMMA UnlinkElems ==
  ASSUME NEW S, NEW s \in Seq(S), NEW t, Distinct(s)
  PROVE  /\ Unlink(s, t) \in Seq(S)
         /\ Elems(Unlink(s, t)) = Elems(s) \ {t}
         /\ Distinct(Unlink(s, t))
<1>1. CASE t \notin Elems(s)
  BY <1>1 DEF Unlink
<1>2. CASE t \in Elems(s)
  <2>1. PICK k \in 1..Len(s) :
          /\ s[k] = t
          /\ Unlink(s, t) = [j \in 1..(Len(s) - 1) |-> IF j < k THEN s[j] ELSE s[j + 1]]
    BY <1>2, UnlinkAt
  <2> DEFINE u == [j \in 1..(Len(s) - 1) |-> IF j < k THEN s[j] ELSE s[j + 1]]
  <2>2. u \in Seq(S) /\ Len(u) = Len(s) - 1 /\ DOMAIN u = 1..(Len(s) - 1)
    OBVIOUS
  <2>3. \A x \in Elems(u) : x \in Elems(s) \ {t}
    BY <2>1, <2>2 DEF Elems, Distinct
  <2>4. ASSUME NEW x \in Elems(s) \ {t} PROVE x \in Elems(u)
    <3>1. PICK m \in 1..Len(s) : s[m] = x
      BY DEF Elems
    <3>2. m # k
      BY <3>1, <2>1
    <3>3. CASE m < k
      <4>1. m \in 1..(Len(s) - 1) /\ u[m] = x
        BY <3>3, <3>1
      <4> QED BY <4>1, <2>2, ElemAt
    <3>4. CASE m > k
      <4>1. m - 1 \in 1..(Len(s) - 1) /\ u[m - 1] = x
        BY <3>4, <3>1
      <4> QED BY <4>1, <2>2, ElemAt
    <3> QED BY <3>2, <3>3, <3>4
  <2>5. Distinct(u)
    BY <2>1, <2>2 DEF Distinct
  <2> QED BY <2>1, <2>2, <2>3, <2>4, <2>5
<1> QED BY <1>1, <1>2

-----------------------------------------------------------------------------

\* A fiber in a wait; it entered one level below the bound on the recursion.
WaitPc == {"poll", "try", "callback", "leaveWon", "leave", "block", "park", "link",
           "parked"}
DepthBounded == \A t \in Threads : pc[t] \in WaitPc => depth[t] < MaxDepth

\* The recursion count never exceeds how often the guest code of the owner holds it.
RecursionCounted ==
  /\ kind # "mutant" => owner = NoThread
  /\ \A t \in Threads :
       owner = t =>
         /\ pc[t] # "relFree"
         /\ \/ pc[t] = "dead"
            \/ pc[t] = "relClear" /\ recursion = 0
            \/ recursion \in 1..(depth[t] + (IF pc[t] = "leaveWon" THEN 1 ELSE 0))

\* The queue holds exactly the threads with a registration, each once, and an exiting
\* thread has none.
QueueIsRegistered ==
  /\ Distinct(fifo) /\ Elems(fifo) = {t \in Threads : waitObject[t]}
  /\ \A t \in Threads : pc[t] \in {"dying", "dead"} => ~waitObject[t]

CallTargets ==
  \A k \in Callers : callPc[k] \in {"abandonWait", "terminate"} => callThread[k] \in Threads

WaitInv ==
  TypeOK /\ DepthBounded /\ RecursionCounted /\ QueueIsRegistered /\ CallTargets

-----------------------------------------------------------------------------
\* LeaveCooperativeWait of a registered thread keeps the queue and the registrations in
\* step, whoever calls it.
LEMMA LeaveWaitKeepsQueue ==
  ASSUME TypeOK, QueueIsRegistered, NEW a \in Actors, NEW t \in Threads, LeaveWait(a, t)
  PROVE  /\ fifo' \in Seq(Threads) /\ waitObject' \in [Threads -> BOOLEAN]
         /\ wake' \in [Actors -> {"none", "bump", "filter", "walk"}]
         /\ Distinct(fifo)' /\ Elems(fifo)' = {u \in Threads : waitObject'[u]}
         /\ \A u \in Threads : waitObject'[u] <=> waitObject[u] /\ u # t
<1>1. /\ Unlink(fifo, t) \in Seq(Threads) /\ Distinct(Unlink(fifo, t))
      /\ Elems(Unlink(fifo, t)) = Elems(fifo) \ {t}
  BY UnlinkElems DEF TypeOK, QueueIsRegistered
<1>2. fifo' = Unlink(fifo, t) /\ waitObject' = [waitObject EXCEPT ![t] = FALSE]
  BY DEF LeaveWait
<1>3. waitObject' \in [Threads -> BOOLEAN]
  BY <1>2 DEF TypeOK
<1>4. \A u \in Threads : waitObject'[u] <=> waitObject[u] /\ u # t
  BY <1>2 DEF TypeOK
<1>5. wake' \in [Actors -> {"none", "bump", "filter", "walk"}]
  BY DEF LeaveWait, TypeOK
<1>6. Distinct(fifo)' /\ Elems(fifo)' = Elems(fifo) \ {t}
  BY <1>1, <1>2 DEF Distinct, Elems
<1>7. Elems(fifo)' = {u \in Threads : waitObject'[u]}
  BY <1>6, <1>4 DEF QueueIsRegistered
<1> QED BY <1>1, <1>2, <1>3, <1>4, <1>5, <1>6, <1>7

\* EnterCooperativeWait registers the thread in both, once.
LEMMA QueuedKeepsQueue ==
  ASSUME TypeOK, QueueIsRegistered, NEW t \in Threads
  PROVE  /\ Queued(t) \in Seq(Threads) /\ Distinct(Queued(t))
         /\ Elems(Queued(t)) = Elems(fifo) \cup {t}
<1>1. CASE t \in Elems(fifo)
  BY <1>1 DEF TypeOK, QueueIsRegistered, Queued
<1>2. CASE t \notin Elems(fifo)
  <2>1. fifo \in Seq(Threads) /\ Distinct(fifo) /\ Queued(t) = LinkTail(fifo, t)
    BY <1>2 DEF TypeOK, QueueIsRegistered, Queued
  <2> QED BY <2>1, <1>2, LinkTailElems
<1> QED BY <1>1, <1>2

\* WaitInv holds initially.
LEMMA InitWaitInv == Init => WaitInv
<1> SUFFICES ASSUME Init PROVE WaitInv
  OBVIOUS
<1> USE WaitAssumption
<1>1. TypeOK
  BY DEF Init, TypeOK, FiberPc, Limit
<1>2. DepthBounded /\ RecursionCounted /\ CallTargets
  BY DEF Init, DepthBounded, RecursionCounted, CallTargets, WaitPc
<1>3. QueueIsRegistered
  BY DEF Init, QueueIsRegistered, Distinct, Elems
<1> QED BY <1>1, <1>2, <1>3 DEF WaitInv

\* A pass over the blocked list only touches what no conjunct of WaitInv but the type
\* invariant speaks of.
LEMMA RereadyKeepsWaitInv ==
  ASSUME WaitInv, NEW c \in Cpus, NEW S, Reready(c, S), UNCHANGED kind
  PROVE  WaitInv'
<1>1. /\ blocked' \in [Threads -> BOOLEAN] /\ hasBlocked' \in [Cpus -> BOOLEAN]
      /\ repollNow' \in [Cpus -> BOOLEAN]
  BY DEF Reready, WaitInv, TypeOK
<1>2. UNCHANGED <<objVars, moved, pulsed, waitObject, on, lock, fiberVars, wake, callVars>>
  BY DEF Reready
<1> QED
  BY <1>1, <1>2 DEF WaitInv, TypeOK, DepthBounded, RecursionCounted, QueueIsRegistered,
     CallTargets, Limit, objVars, fiberVars, callVars

\* Every step keeps WaitInv.
LEMMA StepWaitInv == WaitInv /\ [Next]_vars => WaitInv'
<1> SUFFICES ASSUME WaitInv, [Next]_vars PROVE WaitInv'
  OBVIOUS
<1>0. UNCHANGED kind
  BY DEF Next, vars
<1> USE <1>0, WaitAssumption
    DEF Limit, WaitInv, TypeOK, DepthBounded, RecursionCounted, QueueIsRegistered, CallTargets,
        WaitPc, Actors, FiberPc, Goto, objVars, waitVars, schedVars,
        fiberVars, callVars
<1>1. ASSUME NEW a \in Actors, Bump(a) PROVE WaitInv'
  <2>1. moved' \in [Threads -> BOOLEAN]
    BY <1>1 DEF Bump
  <2>2. UNCHANGED <<objVars, pulsed, waitObject, blocked, schedVars, fiberVars, callVars>>
        /\ wake' = [wake EXCEPT ![a] = "filter"]
    BY <1>1 DEF Bump
  <2> QED BY <2>1, <2>2
<1>2. ASSUME NEW a \in Actors, Filter(a) PROVE WaitInv'
  BY <1>2 DEF Filter
<1>3. ASSUME NEW a \in Actors, Walk(a) PROVE WaitInv'
  <2>1. repollNow' \in [Cpus -> BOOLEAN]
    BY <1>3 DEF Walk
  <2>2. UNCHANGED <<objVars, waitVars, on, hasBlocked, lock, fiberVars, callVars>>
        /\ wake' = [wake EXCEPT ![a] = "none"]
    BY <1>3 DEF Walk
  <2> QED BY <2>1, <2>2
<1>4. ASSUME NEW t \in Threads, StartWait(t) PROVE WaitInv'
  <2>1. fifo' \in Seq(Threads) /\ Distinct(fifo') /\ Elems(fifo') = Elems(fifo) \cup {t}
    BY <1>4, QueuedKeepsQueue DEF StartWait
  <2>2. waitObject' = [waitObject EXCEPT ![t] = TRUE]
    BY <1>4 DEF StartWait
  <2>3. /\ pc[t] = "guest" /\ depth[t] < MaxDepth /\ pc' = [pc EXCEPT ![t] = "poll"]
        /\ pulsed' = [pulsed EXCEPT ![t] = FALSE]
        /\ UNCHANGED <<free, owner, recursion, moved, blocked, schedVars,
                       terminatePending, cpu, depth, wake, callVars>>
    BY <1>4 DEF StartWait
  <2>4. QueueIsRegistered'
    <3>1. Elems(fifo') = {u \in Threads : waitObject'[u]}
      BY <2>1, <2>2
    <3>2. \A u \in Threads : pc'[u] \in {"dying", "dead"} => ~waitObject'[u]
      BY <2>2, <2>3
    <3> QED BY <2>1, <3>1, <3>2
  <2>5. TypeOK'
    BY <2>1, <2>2, <2>3
  <2> QED BY <2>3, <2>4, <2>5
<1>5. ASSUME NEW t \in Threads, SampleEpoch(t) PROVE WaitInv'
  BY <1>5 DEF SampleEpoch
<1>6. ASSUME NEW t \in Threads, Interrupt(t) PROVE WaitInv'
  BY <1>6 DEF Interrupt
<1>7. ASSUME NEW t \in Threads, Acquire(t) PROVE WaitInv'
  BY <1>7 DEF Acquire, CanTake
<1>8. ASSUME NEW t \in Threads, AcquireByPulse(t) PROVE WaitInv'
  BY <1>8 DEF AcquireByPulse
<1>9. ASSUME NEW t \in Threads, WaitCallback(t) PROVE WaitInv'
  BY <1>9 DEF WaitCallback
<1>10. ASSUME NEW t \in Threads, PollFails(t) PROVE WaitInv'
  <2>1. \E p \in {"block", "leave"} : pc' = [pc EXCEPT ![t] = p]
    BY <1>10 DEF PollFails
  <2>2. /\ pc[t] = "try"
        /\ UNCHANGED <<objVars, waitVars, schedVars, terminatePending, cpu, depth, wake,
                       callVars>>
    BY <1>10 DEF PollFails
  <2> QED BY <2>1, <2>2
<1>11. ASSUME NEW t \in Threads, Leave(t) PROVE WaitInv'
  <2>1. LeaveWait(t, t)
    BY <1>11 DEF Leave
  <2>2. /\ pc[t] \in {"leave", "leaveWon"} /\ pc' = [pc EXCEPT ![t] = "guest"]
        /\ depth' = [depth EXCEPT ![t] =
                       IF pc[t] = "leaveWon" /\ kind = "mutant" THEN @ + 1 ELSE @]
        /\ UNCHANGED <<free, owner, recursion, moved, pulsed, blocked, schedVars,
                       terminatePending, cpu, callVars>>
    BY <1>11 DEF Leave
  <2>3. /\ fifo' \in Seq(Threads) /\ waitObject' \in [Threads -> BOOLEAN]
        /\ wake' \in [Actors -> {"none", "bump", "filter", "walk"}]
        /\ Distinct(fifo)' /\ Elems(fifo)' = {u \in Threads : waitObject'[u]}
        /\ \A u \in Threads : waitObject'[u] <=> waitObject[u] /\ u # t
    BY <2>1, LeaveWaitKeepsQueue
  <2>5. QueueIsRegistered'
    BY <2>2, <2>3
  <2>6. depth' \in [Threads -> 0..MaxDepth]
    BY <2>2
  <2>7. TypeOK'
    BY <2>2, <2>3, <2>6
  <2>4. DepthBounded' /\ RecursionCounted' /\ CallTargets'
    BY <2>2
  <2> QED BY <2>4, <2>5, <2>7
<1>12. ASSUME NEW t \in Threads, EnterBlock(t) PROVE WaitInv'
  BY <1>12 DEF EnterBlock
<1>13. ASSUME NEW t \in Threads, CompareEpoch(t) PROVE WaitInv'
  BY <1>13 DEF CompareEpoch, EpochMoved
<1>14. ASSUME NEW t \in Threads, LinkBlocked(t) PROVE WaitInv'
  BY <1>14 DEF LinkBlocked
<1>15. ASSUME NEW t \in Threads, Dispatch(t) PROVE WaitInv'
  <2>1. pc' = pc \/ (pc[t] = "parked" /\ pc' = [pc EXCEPT ![t] = "poll"])
    BY <1>15 DEF Dispatch
  <2>2. /\ on' \in [Cpus -> Threads \cup {NoThread}]
        /\ UNCHANGED <<objVars, waitVars, hasBlocked, repollNow, lock, terminatePending,
                       cpu, depth, wake, callVars>>
    BY <1>15 DEF Dispatch
  <2>3. CASE pc' = pc
    BY <2>2, <2>3
  <2>4. CASE pc[t] = "parked" /\ pc' = [pc EXCEPT ![t] = "poll"]
    BY <2>2, <2>4
  <2> QED BY <2>1, <2>3, <2>4
<1>16. ASSUME NEW t \in Threads, Preempt(t) PROVE WaitInv'
  BY <1>16 DEF Preempt
<1>17. ASSUME NEW t \in Threads, ReleaseMutant(t) PROVE WaitInv'
  <2>1. /\ pc[t] = "guest"
        /\ UNCHANGED <<free, owner, fifo, waitVars, schedVars, terminatePending, cpu, wake,
                       callVars>>
    BY <1>17 DEF ReleaseMutant
  <2>2. CASE owner # t
    <3>1. UNCHANGED <<recursion, pc>> /\ depth' = [depth EXCEPT ![t] = 0]
      BY <1>17, <2>2 DEF ReleaseMutant
    <3>2. TypeOK' /\ QueueIsRegistered' /\ CallTargets'
      BY <2>1, <3>1
    <3>3. DepthBounded' /\ RecursionCounted'
      BY <2>1, <2>2, <3>1
    <3> QED BY <3>2, <3>3
  <2>3. CASE owner = t /\ recursion = 1
    <3>1. recursion' = 0 /\ pc' = [pc EXCEPT ![t] = "relClear"] /\ depth' = depth
      BY <1>17, <2>3 DEF ReleaseMutant
    <3>2. TypeOK' /\ QueueIsRegistered' /\ CallTargets'
      BY <2>1, <3>1
    <3>3. DepthBounded' /\ RecursionCounted'
      BY <2>1, <2>3, <3>1
    <3> QED BY <3>2, <3>3
  <2>4. CASE owner = t /\ recursion # 1
    <3>1. recursion \in 2..depth[t] /\ recursion' = recursion - 1 /\ pc' = pc
          /\ depth' = [depth EXCEPT ![t] = depth[t] - 1]
      BY <1>17, <2>1, <2>4 DEF ReleaseMutant
    <3>2. TypeOK' /\ QueueIsRegistered' /\ CallTargets'
      BY <2>1, <3>1
    <3>3. DepthBounded'
      BY <2>1, <3>1
    <3>4. RecursionCounted'
      BY <2>1, <2>4, <3>1
    <3> QED BY <3>2, <3>3, <3>4
  <2> QED BY <2>2, <2>3, <2>4
<1>18. ASSUME NEW t \in Threads, ClearOwner(t) PROVE WaitInv'
  BY <1>18 DEF ClearOwner
<1>19. ASSUME NEW t \in Threads, FreeMutant(t) PROVE WaitInv'
  BY <1>19 DEF FreeMutant
<1>20. ASSUME NEW t \in Threads, ExitIfTerminated(t) PROVE WaitInv'
  <2>1. LeaveWait(t, t) \/ (~waitObject[t] /\ UNCHANGED <<waitObject, fifo, wake>>)
    BY <1>20 DEF ExitIfTerminated, AbandonAgain
  <2>2. /\ pc[t] \in {"guest", "block", "parked"} /\ pc' = [pc EXCEPT ![t] = "dying"]
        /\ UNCHANGED <<free, owner, recursion, moved, pulsed, blocked, schedVars,
                       terminatePending, cpu, depth, callVars>>
    BY <1>20 DEF ExitIfTerminated
  <2>3. CASE LeaveWait(t, t)
    BY <2>2, <2>3, LeaveWaitKeepsQueue, ZenonT(60)
  <2>4. CASE ~waitObject[t] /\ UNCHANGED <<waitObject, fifo, wake>>
    BY <2>2, <2>4
  <2> QED BY <2>1, <2>3, <2>4
<1>21. ASSUME NEW t \in Threads, FinalYield(t) PROVE WaitInv'
  BY <1>21 DEF FinalYield
<1>22. ASSUME NEW c \in Cpus, Repoll(c) \/ Backstop(c) PROVE WaitInv'
  BY <1>22, RereadyKeepsWaitInv DEF Repoll, Backstop
<1>23. ASSUME NEW k \in Callers, Signal(k) PROVE WaitInv'
  BY <1>23 DEF Signal
<1>24. ASSUME NEW k \in Callers, Reset(k) PROVE WaitInv'
  BY <1>24 DEF Reset
<1>25. ASSUME NEW k \in Callers, Pulse(k) PROVE WaitInv'
  <2>1. pulsed' \in [Threads -> BOOLEAN]
    BY <1>25 DEF Pulse
  <2>2. \E p \in {"pulseSet", "pulseReset"} : callPc' = [callPc EXCEPT ![k] = p]
    BY <1>25 DEF Pulse
  <2>3. UNCHANGED <<objVars, moved, waitObject, blocked, schedVars, fiberVars, wake,
                    callThread>>
    BY <1>25 DEF Pulse
  <2> QED BY <2>1, <2>2, <2>3
<1>26. ASSUME NEW k \in Callers, EndPulse(k) PROVE WaitInv'
  BY <1>26 DEF EndPulse
<1>27. ASSUME NEW k \in Callers, NEW t \in Threads, Terminate(k, t) PROVE WaitInv'
  <2>1. \/ kind = "mutant" /\ owner' = NoThread /\ recursion' = 0 /\ free' = 1
           /\ wake' = [wake EXCEPT ![k] = "bump"]
        \/ UNCHANGED <<owner, recursion, free, wake>>
    BY <1>27 DEF Terminate
  <2>2. /\ callPc' = [callPc EXCEPT ![k] = "abandonWait"]
        /\ callThread' = [callThread EXCEPT ![k] = t]
        /\ UNCHANGED <<fifo, waitVars, schedVars, fiberVars>>
    BY <1>27 DEF Terminate
  <2>3. CallTargets'
    BY <2>2
  <2>5. /\ free' \in 0..Limit' /\ owner' \in Threads \cup {NoThread}
        /\ recursion' \in 0..(MaxDepth + 1)
        /\ wake' \in [Actors -> {"none", "bump", "filter", "walk"}]
    <3>1. CASE UNCHANGED <<owner, recursion, free, wake>>
      BY <3>1
    <3>2. CASE kind = "mutant" /\ owner' = NoThread /\ recursion' = 0 /\ free' = 1
               /\ wake' = [wake EXCEPT ![k] = "bump"]
      <4>1. free' \in 0..Limit' /\ recursion' \in 0..(MaxDepth + 1)
        BY <3>2
      <4>2. wake' \in [Actors -> {"none", "bump", "filter", "walk"}]
        BY <3>2
      <4> QED BY <3>2, <4>1, <4>2
    <3> QED BY <2>1, <3>1, <3>2
  <2>6. TypeOK'
    BY <2>2, <2>5
  <2>4. QueueIsRegistered' /\ DepthBounded' /\ RecursionCounted'
    BY <2>1, <2>2
  <2> QED BY <2>3, <2>4, <2>6
<1>28. ASSUME NEW k \in Callers, AbandonWait(k) PROVE WaitInv'
  <2> DEFINE t == callThread[k]
  <2>1. t \in Threads
    BY <1>28 DEF AbandonWait
  <2>2. LeaveWait(k, t) \/ UNCHANGED <<waitObject, fifo, wake>>
    BY <1>28 DEF AbandonWait
  <2>3. /\ callPc[k] = "abandonWait" /\ callPc' = [callPc EXCEPT ![k] = "terminate"]
        /\ UNCHANGED <<free, owner, recursion, moved, pulsed, blocked, schedVars,
                       fiberVars, callThread>>
    BY <1>28 DEF AbandonWait
  <2> HIDE DEF t
  <2>4. CASE LeaveWait(k, t)
    BY <2>1, <2>3, <2>4, LeaveWaitKeepsQueue
  <2>5. CASE UNCHANGED <<waitObject, fifo, wake>>
    BY <2>3, <2>5
  <2> QED BY <2>2, <2>4, <2>5
<1>29. ASSUME NEW k \in Callers, TerminateThread(k) PROVE WaitInv'
  BY <1>29 DEF TerminateThread
<1>30. CASE UNCHANGED vars
  BY <1>30 DEF vars, steps
<1> HIDE DEF WaitInv
<1> QED
  BY <1>1, <1>2, <1>3, <1>4, <1>5, <1>6, <1>7, <1>8, <1>9, <1>10, <1>11, <1>12, <1>13,
     <1>14, <1>15, <1>16, <1>17, <1>18, <1>19, <1>20, <1>21, <1>22, <1>23, <1>24, <1>25,
     <1>26, <1>27, <1>28, <1>29, <1>30
     DEF Next, Step, KernelStep, GuestStep, CallerStep, NewCall, WakeStep

-----------------------------------------------------------------------------
\* WaitInv holds in every state.
LEMMA WaitInvAlways == Spec => []WaitInv
  BY InitWaitInv, StepWaitInv, PTL DEF Spec

\* The variables keep their types; in particular the recursion count stays within the
\* guest's own acquisitions even when a release races Terminate.
THEOREM TypesCorrect == Spec => []TypeOK
<1>1. WaitInv => TypeOK
  BY DEF WaitInv
<1> QED BY <1>1, WaitInvAlways, PTL

\* No terminated thread stays in a waiter queue: ExitIfTerminated abandons the
\* registration a second time.
THEOREM DeadLeaveQueue == Spec => []NoDeadWaiter
<1>1. WaitInv => NoDeadWaiter
  BY DEF WaitInv, QueueIsRegistered, NoDeadWaiter
<1> QED BY <1>1, WaitInvAlways, PTL

-----------------------------------------------------------------------------
(* Where no thread is terminated, a mutant has one holder. *)

\* The thread has the permit of the host primitive, or is giving it back.
Holding(t) ==
  depth[t] > 0 \/ pc[t] \in {"relClear", "relFree", "callback", "leaveWon"}

MutexInv ==
  /\ \A t \in Threads :
       /\ ~terminatePending[t] /\ ~pulsed[t] /\ pc[t] \notin {"dying", "dead"}
       /\ waitObject[t] <=> pc[t] \in WaitPc
       /\ pc[t] \in {"relClear", "leaveWon"} => owner = t
       /\ depth[t] > 0 => owner = t \/ pc[t] = "relFree"
       /\ Holding(t) => free = 0
  /\ \A t, u \in Threads : Holding(t) /\ Holding(u) => t = u
  /\ \A k \in Callers : callPc[k] = "idle"

\* No thread holds a free mutant.
LEMMA InitMutexInv == kind = "mutant" /\ Init => MutexInv
  BY WaitAssumption DEF Init, MutexInv, Holding, WaitPc

\* Without terminations no step gives a mutant a second holder.
LEMMA StepMutexInv ==
  ASSUME kind = "mutant", "terminate" \notin Ops, WaitInv, MutexInv, [Next]_vars
  PROVE  MutexInv'
<1> USE WaitAssumption
    DEF WaitInv, TypeOK, RecursionCounted, MutexInv, Holding, WaitPc, FiberPc, Goto,
        objVars, waitVars, schedVars, fiberVars, callVars
<1>1. ASSUME NEW a \in Actors, WakeStep(a) PROVE MutexInv'
  BY <1>1 DEF WakeStep, Bump, Filter, Walk
<1>2. ASSUME NEW t \in Threads, StartWait(t) PROVE MutexInv'
  BY <1>2 DEF StartWait
<1>3. ASSUME NEW t \in Threads, SampleEpoch(t) PROVE MutexInv'
  BY <1>3 DEF SampleEpoch
<1>4. ASSUME NEW t \in Threads, Interrupt(t) PROVE MutexInv'
  BY <1>4 DEF Interrupt
<1>5. ASSUME NEW t \in Threads, Acquire(t) PROVE MutexInv'
  BY <1>5 DEF Acquire, CanTake, Reentered, Limit
<1>6. ASSUME NEW t \in Threads, AcquireByPulse(t) PROVE MutexInv'
  BY <1>6 DEF AcquireByPulse
<1>7. ASSUME NEW t \in Threads, WaitCallback(t) PROVE MutexInv'
  BY <1>7 DEF WaitCallback
<1>8. ASSUME NEW t \in Threads, PollFails(t) PROVE MutexInv'
  BY <1>8 DEF PollFails
<1>9. ASSUME NEW t \in Threads, Leave(t) PROVE MutexInv'
  BY <1>9 DEF Leave, LeaveWait
<1>10. ASSUME NEW t \in Threads, EnterBlock(t) PROVE MutexInv'
  BY <1>10 DEF EnterBlock
<1>11. ASSUME NEW t \in Threads, CompareEpoch(t) PROVE MutexInv'
  BY <1>11 DEF CompareEpoch
<1>12. ASSUME NEW t \in Threads, LinkBlocked(t) PROVE MutexInv'
  BY <1>12 DEF LinkBlocked
<1>13. ASSUME NEW t \in Threads, Dispatch(t) PROVE MutexInv'
  BY <1>13 DEF Dispatch
<1>14. ASSUME NEW t \in Threads, Preempt(t) PROVE MutexInv'
  BY <1>14 DEF Preempt
<1>15. ASSUME NEW t \in Threads, ReleaseMutant(t) PROVE MutexInv'
  BY <1>15 DEF ReleaseMutant, Limit
<1>16. ASSUME NEW t \in Threads, ClearOwner(t) PROVE MutexInv'
  BY <1>16 DEF ClearOwner
<1>17. ASSUME NEW t \in Threads, FreeMutant(t) PROVE MutexInv'
  BY <1>17 DEF FreeMutant
<1>18. ASSUME NEW t \in Threads, ExitIfTerminated(t) PROVE MutexInv'
  BY <1>18 DEF ExitIfTerminated
<1>19. ASSUME NEW t \in Threads, FinalYield(t) PROVE MutexInv'
  BY <1>19 DEF FinalYield
<1>20. ASSUME NEW c \in Cpus, Repoll(c) \/ Backstop(c) PROVE MutexInv'
  BY <1>20 DEF Repoll, Backstop, Reready
<1>21. ASSUME NEW k \in Callers, CallerStep(k) \/ NewCall(k) PROVE WakeStep(k)
  BY <1>21 DEF CallerStep, NewCall, EndPulse, AbandonWait, TerminateThread, Signal, Reset,
     Pulse, Terminate
<1>22. CASE UNCHANGED vars
  BY <1>22 DEF vars, steps
<1> HIDE DEF MutexInv
<1> QED
  BY <1>1, <1>2, <1>3, <1>4, <1>5, <1>6, <1>7, <1>8, <1>9, <1>10, <1>11, <1>12, <1>13,
     <1>14, <1>15, <1>16, <1>17, <1>18, <1>19, <1>20, <1>21, <1>22
     DEF Next, Step, KernelStep, GuestStep, Actors

\* Both invariants hold in every state.
LEMMA MutexInvAlways ==
  ASSUME "terminate" \notin Ops
  PROVE  Spec => [](WaitInv /\ (kind = "mutant" => MutexInv))
<1> DEFINE I == WaitInv /\ (kind = "mutant" => MutexInv)
<1>1. Init => I
  BY InitWaitInv, InitMutexInv
<1>2. I /\ [Next]_vars => I'
  <2> SUFFICES ASSUME I, [Next]_vars PROVE I'
    OBVIOUS
  <2>1. WaitInv' /\ kind' = kind
    BY StepWaitInv DEF Next, vars
  <2> QED BY <2>1, StepMutexInv
<1> QED BY <1>1, <1>2, PTL DEF Spec

\* While no thread is terminated, the permit of a mutant is with one fiber or back in
\* the host primitive, however polls, parks, recursion and releases interleave.
THEOREM OneHolder ==
  ASSUME "terminate" \notin Ops
  PROVE  Spec => []MutantHeldByOne
<1>1. ASSUME WaitInv, MutexInv, kind = "mutant" PROVE MutantHeldByOne
  <2> DEFINE H == {t \in Threads : Holds(t)}
  <2>1. \A t \in H : Holding(t)
    BY DEF Holds, Holding
  <2>2. CASE H = {}
    <3>1. Cardinality(H) = 0
      BY <2>2, FS_EmptySet
    <3>2. free \in 0..1
      BY <1>1 DEF WaitInv, TypeOK, Limit
    <3> QED BY <3>1, <3>2 DEF MutantHeldByOne
  <2>3. CASE H # {}
    <3>1. PICK t \in Threads : t \in H
      BY <2>3
    <3>2. H = {t}
      BY <3>1, <2>1, <1>1 DEF MutexInv
    <3>3. Cardinality(H) = 1
      BY <3>2, FS_Singleton
    <3>4. free = 0
      BY <3>1, <2>1, <1>1 DEF MutexInv
    <3> QED BY <3>3, <3>4 DEF MutantHeldByOne
  <2> QED BY <2>2, <2>3
<1>2. kind # "mutant" => MutantHeldByOne
  BY DEF MutantHeldByOne
<1>3. WaitInv /\ (kind = "mutant" => MutexInv) => MutantHeldByOne
  BY <1>1, <1>2
<1> QED BY <1>3, MutexInvAlways, PTL

-----------------------------------------------------------------------------
(* Refinement of FifoMutex. *)

\* The abstract holder is the one thread that holds.
LEMMA HolderIs ==
  ASSUME MutexInv
  PROVE  /\ \A t \in Threads : Holding(t) => Holder = t
         /\ (\A t \in Threads : ~Holding(t)) => Holder = NoThread
  BY DEF MutexInv, Holder, Holds, Holding, Terminating

\* The same after a step.
LEMMA NextHolderIs ==
  ASSUME MutexInv'
  PROVE  /\ \A t \in Threads : Holding(t)' => Holder' = t
         /\ (\A t \in Threads : ~Holding(t)') => Holder' = NoThread
  BY DEF MutexInv, Holder, Holds, Holding, Terminating

\* A step that leaves the queue and the holding threads alone is a stutter.
LEMMA SameHolders ==
  ASSUME MutexInv, MutexInv', UNCHANGED fifo,
         \A t \in Threads : Holding(t)' <=> Holding(t)
  PROVE  UNCHANGED <<Holder, fifo>>
<1>1. CASE \E t \in Threads : Holding(t)
  BY <1>1, HolderIs, NextHolderIs
<1>2. CASE \A t \in Threads : ~Holding(t)
  BY <1>2, HolderIs, NextHolderIs
<1> QED BY <1>1, <1>2

\* EnterCooperativeWait is Join.
LEMMA StartWaitJoins ==
  ASSUME WaitInv, MutexInv, MutexInv', NEW t \in Threads, StartWait(t)
  PROVE  Abstract!Join(t)
<1>1. t \notin Elems(fifo)
  BY DEF WaitInv, QueueIsRegistered, MutexInv, StartWait, WaitPc
<1>2. fifo' = Append(fifo, t)
  BY <1>1 DEF StartWait, Queued, LinkTail
<1>3. \A u \in Threads : Holding(u)' <=> Holding(u)
  BY DEF StartWait, Goto, Holding, WaitInv, TypeOK
<1>4. Holder' = Holder
  <2>1. CASE \E u \in Threads : Holding(u)
    BY <2>1, <1>3, HolderIs, NextHolderIs
  <2>2. CASE \A u \in Threads : ~Holding(u)
    BY <2>2, <1>3, HolderIs, NextHolderIs
  <2> QED BY <2>1, <2>2
<1> QED BY <1>1, <1>2, <1>4 DEF Abstract!Join, Elems

\* A poll that takes the permit is Take by the front of the queue, and one by the owner a
\* stutter.
LEMMA AcquireTakes ==
  ASSUME kind = "mutant", WaitInv, MutexInv, MutexInv', NEW t \in Threads, Acquire(t)
  PROVE  Abstract!Take(t) \/ UNCHANGED <<Holder, fifo>>
<1> USE DEF WaitInv, TypeOK, MutexInv, Holding, Goto
<1>1. /\ pc[t] = "try" /\ pc' = [pc EXCEPT ![t] = "callback"]
      /\ depth' = depth /\ fifo' = fifo
  BY DEF Acquire
<1>2. CASE owner = t
  <2>1. depth[t] > 0
    BY <1>1, <1>2 DEF RecursionCounted
  <2>2. \A u \in Threads : Holding(u)' <=> Holding(u)
    BY <1>1, <2>1
  <2> QED BY <1>1, <2>2, SameHolders
<1>3. CASE owner # t
  <2>1. free > 0 /\ MayAcquire(t)
    BY <1>3 DEF Acquire, CanTake, Reentered, CooperativeMayAcquire
  <2>2. \A u \in Threads : ~Holding(u)
    BY <2>1
  <2>3. t \in Elems(fifo)
    BY <1>1 DEF QueueIsRegistered, WaitPc
  <2>4. fifo # <<>> /\ Head(fifo) = t
    BY <2>1, <2>3 DEF MayAcquire, Elems
  <2>5. Holder = NoThread
    BY <2>2, HolderIs
  <2>6. Holding(t)'
    BY <1>1
  <2>7. Holder' = t
    BY <2>6, NextHolderIs
  <2> QED BY <1>1, <2>4, <2>5, <2>7 DEF Abstract!Take
<1> QED BY <1>2, <1>3

\* LeaveCooperativeWait is Quit.
LEMMA LeaveQuits ==
  ASSUME kind = "mutant", WaitInv, MutexInv, MutexInv', NEW t \in Threads, Leave(t)
  PROVE  Abstract!Quit(t)
<1> USE DEF WaitInv, TypeOK
<1>1. t \in Elems(fifo) /\ Distinct(fifo)
  BY DEF QueueIsRegistered, MutexInv, Leave, WaitPc
<1>2. PICK k \in 1..Len(fifo) :
        /\ fifo[k] = t
        /\ Unlink(fifo, t) =
             [j \in 1..(Len(fifo) - 1) |-> IF j < k THEN fifo[j] ELSE fifo[j + 1]]
  BY <1>1, UnlinkAt
<1>3. fifo' = Unlink(fifo, t)
  BY DEF Leave, LeaveWait
<1>4. \A u \in Threads : Holding(u)' <=> Holding(u)
  BY DEF Leave, Goto, Holding
<1>5. Holder' = Holder
  <2>1. CASE \E u \in Threads : Holding(u)
    BY <2>1, <1>4, HolderIs, NextHolderIs
  <2>2. CASE \A u \in Threads : ~Holding(u)
    BY <2>2, <1>4, HolderIs, NextHolderIs
  <2> QED BY <2>1, <2>2
<1> QED BY <1>2, <1>3, <1>5 DEF Abstract!Quit

\* Giving the permit back is Release.
LEMMA FreeMutantReleases ==
  ASSUME WaitInv, MutexInv, MutexInv', NEW t \in Threads, FreeMutant(t)
  PROVE  Abstract!Release(t)
<1> USE DEF WaitInv, TypeOK
<1>1. Holding(t) /\ ~Holding(t)' /\ fifo' = fifo
  BY DEF FreeMutant, Goto, Holding
<1>2. \A u \in Threads : u # t => (Holding(u)' <=> Holding(u))
  BY DEF FreeMutant, Goto, Holding
<1>3. \A u \in Threads : ~Holding(u)'
  BY <1>1, <1>2 DEF MutexInv
<1> QED BY <1>1, <1>3, HolderIs, NextHolderIs DEF Abstract!Release

\* A release by the owner keeps it the holder until the permit is back.
LEMMA ReleaseKeepsHolder ==
  ASSUME WaitInv, MutexInv, MutexInv', NEW t \in Threads, ReleaseMutant(t)
  PROVE  UNCHANGED <<Holder, fifo>>
<1> USE DEF WaitInv, TypeOK, Goto
<1>1. owner = t /\ pc[t] = "guest" /\ depth[t] > 0 /\ fifo' = fifo
  BY DEF ReleaseMutant, MutexInv
<1>2. recursion \in 1..depth[t]
  BY <1>1 DEF RecursionCounted
<1>3. \A u \in Threads : Holding(u)' <=> Holding(u)
  <2>1. CASE recursion = 1
    BY <1>1, <2>1 DEF ReleaseMutant, Holding
  <2>2. CASE recursion # 1
    BY <1>1, <1>2, <2>2 DEF ReleaseMutant, Holding
  <2> QED BY <2>1, <2>2
<1> QED BY <1>1, <1>3, SameHolders

\* Every step is a step of FifoMutex or a stutter.
LEMMA StepRefines ==
  ASSUME kind = "mutant", "terminate" \notin Ops, WaitInv, MutexInv, WaitInv', MutexInv',
         [Next]_vars
  PROVE  [Abstract!Next]_<<Holder, fifo>>
<1> USE DEF WaitInv, TypeOK, Holding, Goto, objVars, waitVars, schedVars, fiberVars, callVars
<1>1. ASSUME NEW a \in Actors, WakeStep(a) PROVE UNCHANGED <<Holder, fifo>>
  BY <1>1, SameHolders DEF WakeStep, Bump, Filter, Walk
<1>2. ASSUME NEW t \in Threads, StartWait(t) PROVE Abstract!Next
  BY <1>2, StartWaitJoins DEF Abstract!Next
<1>3. ASSUME NEW t \in Threads, Acquire(t) PROVE [Abstract!Next]_<<Holder, fifo>>
  BY <1>3, AcquireTakes DEF Abstract!Next
<1>4. ASSUME NEW t \in Threads, Leave(t) PROVE Abstract!Next
  BY <1>4, LeaveQuits DEF Abstract!Next
<1>5. ASSUME NEW t \in Threads, FreeMutant(t) PROVE Abstract!Next
  BY <1>5, FreeMutantReleases DEF Abstract!Next
<1>6. ASSUME NEW t \in Threads, ReleaseMutant(t) PROVE UNCHANGED <<Holder, fifo>>
  BY <1>6, ReleaseKeepsHolder
<1>7. ASSUME NEW t \in Threads, SampleEpoch(t) PROVE UNCHANGED <<Holder, fifo>>
  BY <1>7, SameHolders DEF SampleEpoch
<1>8. ASSUME NEW t \in Threads, Interrupt(t) PROVE UNCHANGED <<Holder, fifo>>
  BY <1>8, SameHolders DEF Interrupt
<1>9. ASSUME NEW t \in Threads, AcquireByPulse(t) PROVE FALSE
  BY <1>9 DEF MutexInv, AcquireByPulse
<1>10. ASSUME NEW t \in Threads, WaitCallback(t) PROVE UNCHANGED <<Holder, fifo>>
  BY <1>10, SameHolders DEF WaitCallback
<1>11. ASSUME NEW t \in Threads, PollFails(t) PROVE UNCHANGED <<Holder, fifo>>
  BY <1>11, SameHolders DEF PollFails
<1>12. ASSUME NEW t \in Threads, EnterBlock(t) PROVE UNCHANGED <<Holder, fifo>>
  BY <1>12, SameHolders DEF EnterBlock
<1>13. ASSUME NEW t \in Threads, CompareEpoch(t) PROVE UNCHANGED <<Holder, fifo>>
  BY <1>13, SameHolders DEF CompareEpoch
<1>14. ASSUME NEW t \in Threads, LinkBlocked(t) PROVE UNCHANGED <<Holder, fifo>>
  BY <1>14, SameHolders DEF LinkBlocked
<1>15. ASSUME NEW t \in Threads, Dispatch(t) PROVE UNCHANGED <<Holder, fifo>>
  BY <1>15, SameHolders DEF Dispatch
<1>16. ASSUME NEW t \in Threads, Preempt(t) PROVE UNCHANGED <<Holder, fifo>>
  BY <1>16, SameHolders DEF Preempt
<1>17. ASSUME NEW t \in Threads, ClearOwner(t) PROVE UNCHANGED <<Holder, fifo>>
  BY <1>17, SameHolders DEF ClearOwner
<1>18. ASSUME NEW t \in Threads, ExitIfTerminated(t) \/ FinalYield(t) PROVE FALSE
  BY <1>18 DEF MutexInv, ExitIfTerminated, FinalYield
<1>19. ASSUME NEW c \in Cpus, Repoll(c) \/ Backstop(c) PROVE UNCHANGED <<Holder, fifo>>
  BY <1>19, SameHolders DEF Repoll, Backstop, Reready
<1>20. ASSUME NEW k \in Callers, CallerStep(k) \/ NewCall(k) PROVE WakeStep(k)
  BY <1>20, WaitAssumption DEF MutexInv, CallerStep, NewCall, EndPulse, AbandonWait,
     TerminateThread, Signal, Reset, Pulse, Terminate
<1>21. CASE UNCHANGED vars
  BY <1>21, SameHolders DEF vars, steps
<1> HIDE DEF WaitInv, TypeOK, Holding, Goto
<1> QED
  BY <1>1, <1>2, <1>3, <1>4, <1>5, <1>6, <1>7, <1>8, <1>9, <1>10, <1>11, <1>12, <1>13,
     <1>14, <1>15, <1>16, <1>17, <1>18, <1>19, <1>20, <1>21
     DEF Next, Step, KernelStep, GuestStep, Actors

\* While no thread is terminated, cooperative waits on a mutant implement a mutex that
\* hands itself to the longest waiter.
THEOREM WaitsRefineFifoMutex ==
  ASSUME Kinds = {"mutant"}, "terminate" \notin Ops
  PROVE  Spec => ImplementsFifoMutex
<1>0. WaitInv => kind = "mutant"
  BY DEF WaitInv, TypeOK
<1>1. Init => Abstract!Init
  <2> SUFFICES ASSUME Init PROVE Abstract!Init
    OBVIOUS
  <2>1. MutexInv
    BY <1>0, InitMutexInv, InitWaitInv
  <2>2. \A t \in Threads : ~Holding(t)
    BY DEF Init, Holding
  <2> QED BY <2>1, <2>2, HolderIs DEF Abstract!Init, Init
<1>2. /\ WaitInv /\ MutexInv /\ WaitInv' /\ MutexInv' /\ [Next]_vars
      => [Abstract!Next]_<<Holder, fifo>>
  BY <1>0, StepRefines
<1>3. WaitInv /\ (kind = "mutant" => MutexInv) => WaitInv /\ MutexInv
  BY <1>0
<1>4. Spec => [](WaitInv /\ MutexInv)
  BY <1>3, MutexInvAlways, PTL
<1> QED BY <1>1, <1>2, <1>4, PTL DEF Spec, ImplementsFifoMutex, Abstract!Spec

-----------------------------------------------------------------------------
(* The waiter that may take a permit is told. *)

\* A fiber whose poll failed and that has not polled again.
Parking == {"block", "park", "link", "parked"}

\* Some actor is about to bump the epoch.
Telling == \E a \in Actors : wake[a] = "bump"

\* A fiber on a blocked list is parked and no CPU runs it.
ParkedInv == \A t \in Threads : blocked[t] => pc[t] = "parked" /\ on[cpu[t]] # t

\* A parking waiter that could take a permit has seen the epoch move, or will.
Told(t) ==
  /\ pc[t] \in Parking => owner # t
  /\ pc[t] \in Parking /\ waitObject[t] /\ free > 0 /\ MayAcquire(t) => moved[t] \/ Telling

ToldInv == \A t \in Threads : Told(t)

\* A waiter that leaves tells the next one, so whoever is still registered is told.
LEMMA LeaveWaitTells ==
  ASSUME kind \in {"semaphore", "mutant"}, WaitInv, NEW a \in Actors, NEW u \in Threads,
         LeaveWait(a, u), NEW t \in Threads, waitObject'[t]
  PROVE  wake'[a] = "bump"
<1>1. Elems(fifo)' = {v \in Threads : waitObject'[v]} /\ fifo' \in Seq(Threads)
  BY LeaveWaitKeepsQueue DEF WaitInv
<1>2. fifo' # <<>>
  BY <1>1 DEF Elems
<1>3. fifo' = Unlink(fifo, u)
  BY DEF LeaveWait
<1> QED BY <1>2, <1>3 DEF LeaveWait, PokesNewFront, WaitInv, TypeOK

\* A step that gives t no permit, takes it no nearer the front and keeps what it was told
\* leaves it told.
LEMMA StillTold ==
  ASSUME NEW t \in Threads, Told(t),
         pc'[t] = pc[t] \/ (pc'[t] \in Parking /\ pc[t] \in Parking /\ pc[t] # "parked")
           \/ pc'[t] \notin Parking,
         owner' = owner \/ owner' # t \/ pc'[t] \notin Parking,
         waitObject'[t] => waitObject[t],
         moved[t] => moved'[t] \/ pc'[t] \notin Parking,
         free' > 0 => free > 0,
         UNCHANGED fifo,
         Telling => Telling'
  PROVE  Told(t)'
  BY DEF Told, MayAcquire, Parking

\* Only LinkBlocked links a fiber, as it leaves its CPU.
LEMMA StepParkedInv ==
  ASSUME WaitInv, ParkedInv, [Next]_vars
  PROVE  ParkedInv'
<1> USE WaitAssumption
    DEF WaitInv, TypeOK, ParkedInv, Runs, Goto, objVars, waitVars, schedVars, fiberVars, callVars
<1>1. ASSUME NEW a \in Actors, WakeStep(a) PROVE ParkedInv'
  BY <1>1 DEF WakeStep, Bump, Filter, Walk
<1>2. ASSUME NEW u \in Threads, StartWait(u) PROVE ParkedInv'
  BY <1>2 DEF StartWait
<1>3. ASSUME NEW u \in Threads, SampleEpoch(u) PROVE ParkedInv'
  BY <1>3 DEF SampleEpoch
<1>4. ASSUME NEW u \in Threads, Interrupt(u) PROVE ParkedInv'
  BY <1>4 DEF Interrupt
<1>5. ASSUME NEW u \in Threads, Acquire(u) PROVE ParkedInv'
  BY <1>5 DEF Acquire
<1>6. ASSUME NEW u \in Threads, AcquireByPulse(u) PROVE ParkedInv'
  BY <1>6 DEF AcquireByPulse
<1>7. ASSUME NEW u \in Threads, WaitCallback(u) PROVE ParkedInv'
  BY <1>7 DEF WaitCallback
<1>8. ASSUME NEW u \in Threads, PollFails(u) PROVE ParkedInv'
  BY <1>8 DEF PollFails
<1>9. ASSUME NEW u \in Threads, Leave(u) PROVE ParkedInv'
  BY <1>9 DEF Leave
<1>10. ASSUME NEW u \in Threads, EnterBlock(u) PROVE ParkedInv'
  BY <1>10 DEF EnterBlock
<1>11. ASSUME NEW u \in Threads, CompareEpoch(u) PROVE ParkedInv'
  BY <1>11 DEF CompareEpoch
<1>12. ASSUME NEW u \in Threads, LinkBlocked(u) PROVE ParkedInv'
  BY <1>12 DEF LinkBlocked
<1>13. ASSUME NEW u \in Threads, Dispatch(u) PROVE ParkedInv'
  BY <1>13 DEF Dispatch
<1>14. ASSUME NEW u \in Threads, Preempt(u) PROVE ParkedInv'
  BY <1>14 DEF Preempt
<1>15. ASSUME NEW u \in Threads, ReleaseMutant(u) PROVE ParkedInv'
  BY <1>15 DEF ReleaseMutant
<1>16. ASSUME NEW u \in Threads, ClearOwner(u) PROVE ParkedInv'
  BY <1>16 DEF ClearOwner
<1>17. ASSUME NEW u \in Threads, FreeMutant(u) PROVE ParkedInv'
  BY <1>17 DEF FreeMutant
<1>18. ASSUME NEW u \in Threads, ExitIfTerminated(u) PROVE ParkedInv'
  BY <1>18 DEF ExitIfTerminated
<1>19. ASSUME NEW u \in Threads, FinalYield(u) PROVE ParkedInv'
  BY <1>19 DEF FinalYield
<1>20. ASSUME NEW c \in Cpus, Repoll(c) \/ Backstop(c) PROVE ParkedInv'
  BY <1>20 DEF Repoll, Backstop, Reready
<1>21. ASSUME NEW k \in Callers, EndPulse(k) \/ AbandonWait(k) PROVE ParkedInv'
  BY <1>21 DEF EndPulse, AbandonWait
<1>24. ASSUME NEW k \in Callers, TerminateThread(k) PROVE ParkedInv'
  BY <1>24 DEF TerminateThread
<1>22. ASSUME NEW k \in Callers, NewCall(k) PROVE ParkedInv'
  BY <1>22 DEF NewCall, Signal, Reset, Pulse, Terminate
<1>23. CASE UNCHANGED vars
  BY <1>23 DEF vars, steps
<1> HIDE DEF ParkedInv
<1> QED
  BY <1>1, <1>2, <1>3, <1>4, <1>5, <1>6, <1>7, <1>8, <1>9, <1>10, <1>11, <1>12, <1>13,
     <1>14, <1>15, <1>16, <1>17, <1>18, <1>19, <1>20, <1>21, <1>22, <1>23, <1>24
     DEF Next, Step, KernelStep, GuestStep, CallerStep, NewCall, Actors

\* Every step keeps every thread told.
LEMMA StepToldInv ==
  ASSUME kind \in {"semaphore", "mutant"}, WaitInv, WaitInv', ToldInv, [Next]_vars, NEW t \in Threads
  PROVE  Told(t)'
<1> USE WaitAssumption
    DEF WaitInv, TypeOK, ToldInv, Goto, objVars, waitVars, schedVars, fiberVars, callVars
<1>0. ASSUME UNCHANGED wake PROVE Telling => Telling'
  BY <1>0 DEF Telling
<1>a. Told(t)
  OBVIOUS
<1>1. ASSUME NEW u \in Threads, SampleEpoch(u) PROVE Told(t)'
  BY <1>0, <1>a, <1>1, StillTold DEF SampleEpoch, Parking
<1>2. ASSUME NEW u \in Threads, Interrupt(u) PROVE Told(t)'
  BY <1>0, <1>a, <1>2, StillTold DEF Interrupt, Parking
<1>3. ASSUME NEW u \in Threads, Acquire(u) PROVE Told(t)'
  BY <1>0, <1>a, <1>3, StillTold DEF Acquire, Parking
<1>4. ASSUME NEW u \in Threads, AcquireByPulse(u) PROVE Told(t)'
  BY <1>0, <1>a, <1>4, StillTold DEF AcquireByPulse, Parking
<1>5. ASSUME NEW u \in Threads, WaitCallback(u) PROVE Told(t)'
  BY <1>0, <1>a, <1>5, StillTold DEF WaitCallback, Parking
<1>6. ASSUME NEW u \in Threads, EnterBlock(u) PROVE Told(t)'
  BY <1>0, <1>a, <1>6, StillTold DEF EnterBlock, Parking
<1>7. ASSUME NEW u \in Threads, CompareEpoch(u) PROVE Told(t)'
  BY <1>0, <1>a, <1>7, StillTold DEF CompareEpoch, Parking
<1>8. ASSUME NEW u \in Threads, LinkBlocked(u) PROVE Told(t)'
  BY <1>0, <1>a, <1>8, StillTold DEF LinkBlocked, Parking
<1>9. ASSUME NEW u \in Threads, Preempt(u) PROVE Told(t)'
  BY <1>0, <1>a, <1>9, StillTold DEF Preempt, Parking
<1>10. ASSUME NEW u \in Threads, ClearOwner(u) PROVE Told(t)'
  BY <1>0, <1>a, <1>10, StillTold DEF ClearOwner, Parking
<1>11. ASSUME NEW u \in Threads, FinalYield(u) PROVE Told(t)'
  BY <1>0, <1>a, <1>11, StillTold DEF FinalYield, Parking
<1>12. ASSUME NEW u \in Threads, ReleaseMutant(u) PROVE Told(t)'
  <2>1. pc' = pc \/ (pc[u] = "guest" /\ pc' = [pc EXCEPT ![u] = "relClear"])
    BY <1>12 DEF ReleaseMutant
  <2>2. UNCHANGED <<free, owner, fifo, waitVars, wake>>
    BY <1>12 DEF ReleaseMutant
  <2>3. CASE pc' = pc
    BY <1>0, <1>a, <2>2, <2>3, StillTold
  <2>4. CASE pc[u] = "guest" /\ pc' = [pc EXCEPT ![u] = "relClear"]
    BY <1>0, <1>a, <2>2, <2>4, StillTold DEF Parking
  <2> QED BY <2>1, <2>3, <2>4
<1>13. ASSUME NEW u \in Threads, PollFails(u) PROVE Told(t)'
  <2>1. /\ pc[u] = "try" /\ ~CanTake(u) /\ UNCHANGED <<objVars, waitVars, wake>>
        /\ \E p \in {"block", "leave"} : pc' = [pc EXCEPT ![u] = p]
    BY <1>13 DEF PollFails
  <2>2. CASE u # t
    BY <1>0, <1>a, <2>1, <2>2, StillTold DEF Parking
  <2>3. CASE u = t
    <3>1. owner # t /\ ~(free > 0 /\ MayAcquire(t))
      <4>1. CASE kind = "mutant"
        BY <2>1, <2>3, <4>1 DEF CanTake, Reentered, CooperativeMayAcquire
      <4>2. CASE kind = "semaphore"
        BY <2>1, <2>3, <4>2 DEF CanTake, Reentered, CooperativeMayAcquire, RecursionCounted
      <4> QED BY <4>1, <4>2
    <3> QED BY <1>a, <2>1, <2>3, <3>1 DEF Told, Parking, MayAcquire
  <2> QED BY <2>2, <2>3
<1>14. ASSUME NEW u \in Threads, Dispatch(u) PROVE Told(t)'
  <2>1. /\ ~blocked[u] /\ UNCHANGED <<objVars, waitVars, wake>>
        /\ \/ pc' = pc
           \/ pc[u] = "parked" /\ pc' = [pc EXCEPT ![u] = "poll"]
    BY <1>14 DEF Dispatch
  <2>2. CASE pc' = pc
    BY <1>0, <1>a, <2>1, <2>2, StillTold
  <2>3. CASE pc[u] = "parked" /\ pc' = [pc EXCEPT ![u] = "poll"]
    BY <1>0, <1>a, <2>1, <2>3, StillTold DEF Parking
  <2> QED BY <2>1, <2>2, <2>3
<1>15. ASSUME NEW u \in Threads, FreeMutant(u) PROVE Told(t)'
  <2>1. Telling'
    BY <1>15 DEF FreeMutant, Telling, Actors
  <2>2. /\ pc[u] = "relFree" /\ pc' = [pc EXCEPT ![u] = "guest"]
        /\ UNCHANGED <<owner, blocked>>
    BY <1>15 DEF FreeMutant
  <2> QED BY <1>a, <2>1, <2>2 DEF Told, Parking
<1>16. ASSUME NEW u \in Threads, StartWait(u) PROVE Told(t)'
  <2>1. /\ pc[u] = "guest" /\ pc' = [pc EXCEPT ![u] = "poll"] /\ fifo' = Queued(u)
        /\ waitObject' = [waitObject EXCEPT ![u] = TRUE]
        /\ UNCHANGED <<free, owner, moved, blocked, wake>>
    BY <1>16 DEF StartWait
  <2>2. CASE u = t
    BY <1>a, <2>1, <2>2 DEF Told, Parking
  <2>3. CASE u # t /\ waitObject[t]
    <3>1. t \in Elems(fifo)
      BY <2>3 DEF QueueIsRegistered
    <3>2. fifo # <<>> /\ Head(fifo) = fifo[1]
      BY <3>1 DEF Elems
    <3>3. fifo' # <<>> /\ Head(fifo') = Head(fifo)
      BY <2>1, <3>2, LinkTailHead DEF Queued
    <3>4. MayAcquire(t)' => MayAcquire(t)
      BY <3>2, <3>3 DEF MayAcquire
    <3>5. Telling' => Telling
      BY <2>1 DEF Telling
    <3> QED BY <1>0, <1>a, <2>1, <2>3, <3>4, <3>5 DEF Told, Parking
  <2>4. CASE u # t /\ ~waitObject[t]
    BY <1>a, <2>1, <2>4 DEF Told, Parking
  <2> QED BY <2>2, <2>3, <2>4
<1>17. ASSUME NEW a \in Actors, NEW u \in Threads, LeaveWait(a, u),
              UNCHANGED <<free, owner, moved>>,
              pc' = pc \/ \E p \in {"guest", "dying"} : pc' = [pc EXCEPT ![u] = p]
       PROVE  Told(t)'
  <2>1. waitObject'[t] => Telling'
    BY <1>17, LeaveWaitTells DEF Telling
  <2> QED BY <1>a, <1>17, <2>1 DEF Told, Parking
<1>18. ASSUME NEW u \in Threads, Leave(u) PROVE Told(t)'
  <2>1. /\ LeaveWait(u, u) /\ pc' = [pc EXCEPT ![u] = "guest"]
        /\ UNCHANGED <<free, owner, moved>>
    BY <1>18 DEF Leave
  <2> QED BY <1>a, <1>17, <2>1 DEF Actors
<1>19. ASSUME NEW u \in Threads, ExitIfTerminated(u) PROVE Told(t)'
  <2>1. /\ pc' = [pc EXCEPT ![u] = "dying"] /\ UNCHANGED <<free, owner, moved, blocked>>
        /\ LeaveWait(u, u) \/ UNCHANGED <<waitObject, fifo, wake>>
    BY <1>19 DEF ExitIfTerminated, AbandonAgain
  <2>2. CASE LeaveWait(u, u)
    BY <1>a, <1>17, <2>1, <2>2 DEF Actors
  <2>3. CASE UNCHANGED <<waitObject, fifo, wake>>
    BY <1>0, <1>a, <2>1, <2>3, StillTold DEF Parking
  <2> QED BY <2>1, <2>2, <2>3
<1>20. ASSUME NEW k \in Callers, AbandonWait(k) PROVE Told(t)'
  <2>1. /\ callThread[k] \in Threads /\ UNCHANGED <<free, owner, moved, pc>>
        /\ LeaveWait(k, callThread[k]) \/ UNCHANGED <<waitObject, fifo, wake>>
    BY <1>20 DEF AbandonWait, CallTargets
  <2>2. CASE LeaveWait(k, callThread[k])
    BY <1>a, <1>17, <2>1, <2>2 DEF Actors
  <2>3. CASE UNCHANGED <<waitObject, fifo, wake>>
    BY <1>0, <1>a, <2>1, <2>3, StillTold
  <2> QED BY <2>1, <2>2, <2>3
<1>21. ASSUME NEW k \in Callers, TerminateThread(k) PROVE Told(t)'
  BY <1>0, <1>a, <1>21, StillTold DEF TerminateThread
<1>22. ASSUME NEW k \in Callers, NEW u \in Threads, Terminate(k, u) PROVE Told(t)'
  <2>1. /\ UNCHANGED <<fifo, moved, waitObject, pc>>
        /\ \/ owner' = NoThread /\ wake' = [wake EXCEPT ![k] = "bump"]
           \/ UNCHANGED <<owner, free, wake>>
    BY <1>22 DEF Terminate
  <2>2. CASE owner' = NoThread /\ wake' = [wake EXCEPT ![k] = "bump"]
    <3>1. Telling'
      BY <2>2 DEF Telling, Actors
    <3> QED BY <1>a, <2>1, <2>2, <3>1 DEF Told
  <2>3. CASE UNCHANGED <<owner, free, wake>>
    BY <1>0, <1>a, <2>1, <2>3, StillTold
  <2> QED BY <2>1, <2>2, <2>3
<1>23. ASSUME NEW k \in Callers, Signal(k) PROVE Told(t)'
  <2>1. Telling' /\ UNCHANGED <<owner, fifo, moved, waitObject, pc>>
    BY <1>23 DEF Signal, Telling, Actors
  <2> QED BY <1>a, <2>1 DEF Told
<1>24. ASSUME NEW k \in Callers, Reset(k) \/ Pulse(k) PROVE FALSE
  BY <1>24 DEF Reset, Pulse
<1>25. ASSUME NEW k \in Callers, EndPulse(k) PROVE Told(t)'
  <2>1. Telling' /\ UNCHANGED <<owner, fifo, moved, waitObject, pc>>
    BY <1>25 DEF EndPulse, Telling, Actors
  <2> QED BY <1>a, <2>1 DEF Told
<1>26. ASSUME NEW c \in Cpus, Repoll(c) \/ Backstop(c) PROVE Told(t)'
  <2>1. UNCHANGED <<objVars, moved, waitObject, wake, pc>>
    BY <1>26 DEF Repoll, Backstop, Reready
  <2> QED BY <1>0, <1>a, <2>1, StillTold
<1>27. ASSUME NEW a \in Actors, Bump(a) PROVE Told(t)'
  <2>1. pc[t] \in Parking => moved'[t]
    BY <1>27 DEF Bump, Sampled, Parking
  <2>2. UNCHANGED <<objVars, waitObject, pc>>
    BY <1>27 DEF Bump
  <2> QED BY <1>a, <2>1, <2>2 DEF Told
<1>28. ASSUME NEW a \in Actors, Filter(a) \/ Walk(a) PROVE Told(t)'
  <2>1. /\ wake[a] # "bump" /\ UNCHANGED <<objVars, waitVars, pc>>
        /\ \E w \in {"none", "walk"} : wake' = [wake EXCEPT ![a] = w]
    BY <1>28 DEF Filter, Walk
  <2>2. Telling => Telling'
    BY <2>1 DEF Telling
  <2> QED BY <1>a, <2>1, <2>2, StillTold
<1>29. CASE UNCHANGED vars
  BY <1>0, <1>a, <1>29, StillTold DEF vars, steps
<1> HIDE DEF WaitInv, TypeOK, ToldInv, Goto, objVars, waitVars, schedVars, fiberVars, callVars
<1>30. ASSUME NEW u \in Threads, KernelStep(u) \/ GuestStep(u) \/ Dispatch(u)
       PROVE Told(t)'
  BY <1>1, <1>2, <1>3, <1>4, <1>5, <1>6, <1>7, <1>8, <1>9, <1>10, <1>11, <1>12, <1>13,
     <1>14, <1>15, <1>16, <1>18, <1>19, <1>27, <1>28, <1>30
     DEF KernelStep, GuestStep, WakeStep, Actors
<1>31. ASSUME NEW k \in Callers, CallerStep(k) \/ NewCall(k) PROVE Told(t)'
  BY <1>20, <1>21, <1>22, <1>23, <1>24, <1>25, <1>27, <1>28, <1>31
     DEF CallerStep, NewCall, WakeStep, Actors
<1> QED BY <1>26, <1>29, <1>30, <1>31 DEF Next, Step

\* The front waiter of a semaphore or a mutant is never parked beside a permit it could
\* take without the epoch having moved, terminations included.
THEOREM FrontIsTold ==
  ASSUME Kinds \subseteq {"semaphore", "mutant"}
  PROVE  Spec => []PermitMovesEpoch
<1> DEFINE I == WaitInv /\ ParkedInv /\ ToldInv
<1>0. WaitInv => kind \in {"semaphore", "mutant"}
  BY DEF WaitInv, TypeOK
<1>1. Init => I
  <2> SUFFICES ASSUME Init PROVE I
    OBVIOUS
  <2>1. WaitInv
    BY InitWaitInv
  <2>2. ParkedInv
    BY DEF Init, ParkedInv
  <2>3. ToldInv
    BY DEF Init, ToldInv, Told, Parking
  <2> QED BY <2>1, <2>2, <2>3
<1>2. I /\ [Next]_vars => I'
  <2> SUFFICES ASSUME I, [Next]_vars PROVE I'
    OBVIOUS
  <2>1. WaitInv'
    BY StepWaitInv
  <2>2. ParkedInv'
    BY StepParkedInv
  <2>3. ToldInv'
    BY <1>0, <2>1, StepToldInv DEF ToldInv
  <2> QED BY <2>1, <2>2, <2>3
<1>3. I => PermitMovesEpoch
  <2> SUFFICES ASSUME I, NEW t \in Threads, blocked[t], waitObject[t], CanTake(t)
               PROVE  moved[t] \/ \E a \in Actors : wake[a] = "bump"
    BY DEF PermitMovesEpoch
  <2>1. pc[t] \in Parking /\ owner # t
    BY DEF ParkedInv, ToldInv, Told, Parking
  <2>2. free > 0 /\ MayAcquire(t)
    BY <1>0, <2>1 DEF CanTake, CooperativeMayAcquire, Reentered
  <2> QED BY <2>1, <2>2 DEF ToldInv, Told, Telling
<1> QED BY <1>1, <1>2, <1>3, PTL DEF Spec

-----------------------------------------------------------------------------
(***************************************************************************)
(* Waits on several objects, for any fibers, callers, objects and waits.   *)
(*                                                                         *)
(* A permit is with one thread at most: its owner, the thread whose poll   *)
(* took it, or the one that gives it back.  A gated wait is told from the  *)
(* moment its poll failed, before it is on the blocked list: whatever      *)
(* satisfies it has moved its gate or is about to.                         *)
(***************************************************************************)
ObjectTypes ==
  /\ mFree \in [Objects -> Nat] /\ \A o \in Objects : mFree[o] \in 0..Sets!Limit(o)
  /\ mOwner \in [Objects -> SetThreads \cup {NoThread}] /\ mRecursion \in [Objects -> Nat]
  /\ mFifo \in [Objects -> Seq(SetThreads)]
WaitTypes ==
  /\ mWait \in [SetThreads -> Waits \cup {NoThread}] /\ mMoved \in [SetThreads -> BOOLEAN]
  /\ mPulsed \in [SetThreads -> SUBSET Objects] /\ mTaken \in [SetThreads -> Seq(Objects)]
SchedTypes ==
  /\ mOn \in [Cpus -> SetThreads \cup {NoThread}] /\ mBlocked \subseteq SetThreads
  /\ mHasBlocked \subseteq Cpus /\ mRepollNow \subseteq Cpus
  /\ mLock \in SetThreads \cup {NoThread}
WakeAt == [step : {"none", "bump", "filter", "walk"}, obj : Objects \cup {NoThread}]
PulseAt == [how : {"none", "set", "reset", "open"}, obj : Objects \cup {NoThread}]
CallTypes ==
  /\ mPc \in [SetThreads -> {"guest", "poll", "try", "callback", "leave", "park", "link",
                             "parked", "relClear", "relFree"}]
  /\ mWake \in [Sets!Actors -> WakeAt] /\ mPulsing \in [Callers -> PulseAt]
SetTypes == ObjectTypes /\ WaitTypes /\ SchedTypes /\ CallTypes

\* Where each fiber and caller is in its call, and what it has there.
SetPlace(t) ==
  /\ mPc[t] \notin {"guest", "relClear", "relFree"} => mWait[t] \in Waits
  /\ mPc[t] # "callback" => mTaken[t] = <<>>
  /\ mPc[t] \in {"relClear", "relFree"} =>
       /\ mWake[t].step = "none" /\ mWake[t].obj \in Sets!Mutants
       /\ mPc[t] = "relClear" <=> mOwner[mWake[t].obj] = t
  /\ t \in mBlocked => mPc[t] = "parked"
PulsePlace(k) ==
  mPulsing[k].how # "none" => mWake[k] = Sets!NoWake /\ mPulsing[k].obj \in Sets!Events
SetPlaces == (\A t \in SetThreads : SetPlace(t)) /\ (\A k \in Callers : PulsePlace(k))

\* Of a mutant: one thread has the permit, or it is back.
SetPermit(o) ==
  /\ \A t, u \in SetThreads : Sets!HasPermit(t, o) /\ Sets!HasPermit(u, o) => t = u
  /\ mFree[o] = IF \E t \in SetThreads : Sets!HasPermit(t, o) THEN 0 ELSE 1
  /\ \A t \in SetThreads :
       mOwner[o] = t /\ ~(mPc[t] = "relClear" /\ mWake[t].obj = o) => mRecursion[o] >= 1

\* Of a wait on several that found nothing: its gate has moved, or a bump will move it.
BumpComes(t) ==
  \E a \in Sets!Actors : mWake[a].step = "bump" /\ mWake[a].obj \in Sets!Waited(t)
Settled(t) == \A o \in Sets!Waited(t) : Sets!StateLockFree(o)
SetGate(t) ==
  mPc[t] \in {"park", "link", "parked"} /\ ~Sets!Single(t) /\ Sets!Gated(t)
    /\ Sets!Satisfied(t) /\ Settled(t) => mMoved[t] \/ BumpComes(t)

SetsInv ==
  /\ SetTypes /\ SetPlaces /\ (\A o \in Sets!Mutants : SetPermit(o))
  /\ (\A t \in SetThreads : SetGate(t))

\* A wait is on objects.
LEMMA WaitedIn ==
  ASSUME NEW w \in Waits
  PROVE  /\ w.of \in Seq(Objects) /\ w.of # <<>> /\ Head(w.of) \in Objects
         /\ w.shape \in {"single", "any", "all"}
  BY SetsOK DEF Sets!MultiWaitAssumption, Sets!Wait, Sets!Shapes

\* A list keeps its type when a thread is linked or unlinked.
LEMMA SetListTypes ==
  ASSUME NEW S, NEW s \in Seq(S), NEW t \in S
  PROVE  Sets!LinkTail(s, t) \in Seq(S) /\ Sets!Unlink(s, t) \in Seq(S)
<1>1. Sets!LinkTail(s, t) \in Seq(S)
  BY DEF Sets!LinkTail
<1>2. CASE t \notin Sets!Elems(s)
  BY <1>1, <1>2 DEF Sets!Unlink
<1>3. CASE t \in Sets!Elems(s)
  <2> DEFINE k == CHOOSE i \in DOMAIN s :
                    s[i] = t /\ \A j \in DOMAIN s : j < i => s[j] # t
  <2>1. Sets!Unlink(s, t) = [j \in 1..(Len(s) - 1) |-> IF j < k THEN s[j] ELSE s[j + 1]]
    BY <1>3 DEF Sets!Unlink
  <2> HIDE DEF k
  <2>2. Len(s) \in Nat /\ Len(s) >= 1
    BY <1>3 DEF Sets!Elems
  <2>3. \A j \in 1..(Len(s) - 1) : (IF j < k THEN s[j] ELSE s[j + 1]) \in S
    BY <2>2
  <2> QED
    BY <1>1, <2>1, <2>2, <2>3
<1> QED
  BY <1>2, <1>3

\* A set of numbers has a least one.
LEMMA LeastNumber ==
  ASSUME NEW T \in SUBSET Nat, T # {}
  PROVE  \E i \in T : \A j \in T : ~(j < i)
<1> DEFINE R == OpToRel(<, Nat)
<1>1. IsWellFoundedOn(R, Nat)
  BY NatLessThanWellFounded, Zenon
<1>2. R = {ss \in Nat \X Nat : ss[1] < ss[2]}
  BY Zenon DEF OpToRel
<1> HIDE DEF R
<1>3. PICK i \in T : \A j \in T : ~(<<j, i>> \in R)
  BY <1>1, WFMin, Zenon
<1> QED
  BY <1>2, <1>3

\* What the poll of a WaitAny takes is signaled.
LEMMA FirstIsSignaled ==
  ASSUME NEW t \in SetThreads, mWait[t] \in Waits,
         \E o \in Sets!Waited(t) : Sets!Signaled(t, o)
  PROVE  Sets!FirstSignaled(t) \in Sets!Waited(t) /\ Sets!Signaled(t, Sets!FirstSignaled(t))
<1> DEFINE s == mWait[t].of
           T == {i \in DOMAIN s : Sets!Signaled(t, s[i])}
<1>1. s \in Seq(Objects)
  BY SetsOK DEF Sets!MultiWaitAssumption, Sets!Wait
<1>2. T \subseteq Nat /\ T # {}
  BY <1>1 DEF Sets!Waited, Sets!Elems
<1>3. PICK i \in T : \A j \in T : ~(j < i)
  BY <1>2, LeastNumber, Zenon
<1>4. \A j \in 1..(i - 1) : ~Sets!Signaled(t, s[j])
  BY <1>1, <1>3
<1>5. \E k \in DOMAIN s : Sets!Signaled(t, s[k]) /\ \A j \in 1..(k - 1) : ~Sets!Signaled(t, s[j])
  BY <1>4
<1> QED
  BY <1>5 DEF Sets!FirstSignaled, Sets!Waited, Sets!Elems

\* It begins well.
LEMMA SetsInit ==
  ASSUME Sets!Init PROVE SetsInv
<1> USE DEF Sets!Init
<1>1. SetTypes
  <2>1. ObjectTypes
    BY SetsOK DEF ObjectTypes, Sets!MultiWaitAssumption, Sets!Limit
  <2>2. WaitTypes
    BY DEF WaitTypes
  <2>3. SchedTypes
    BY DEF SchedTypes
  <2>4. CallTypes
    BY DEF CallTypes, WakeAt, PulseAt, Sets!NoWake, Sets!Quiet
  <2> QED
    BY <2>1, <2>2, <2>3, <2>4 DEF SetTypes
<1>2. SetPlaces
  BY DEF SetPlaces, SetPlace, PulsePlace, Sets!Quiet
<1>3. ASSUME NEW o \in Sets!Mutants PROVE SetPermit(o)
  <2>1. o \in Objects /\ mFree[o] = 1 /\ mOwner[o] = NoThread /\ NoThread \notin SetThreads
    BY SetsOK DEF Sets!Mutants, Sets!MultiWaitAssumption
  <2>2. \A t \in SetThreads : ~Sets!HasPermit(t, o)
    BY <2>1 DEF Sets!HasPermit, Sets!Elems
  <2> QED
    BY <2>1, <2>2 DEF SetPermit
<1>4. \A t \in SetThreads : SetGate(t)
  BY DEF SetGate
<1> QED
  BY <1>1, <1>2, <1>3, <1>4 DEF SetsInv

\* The types, one kind of variables at a time.
LEMMA SameTypes ==
  ASSUME SetTypes
  PROVE  /\ UNCHANGED Sets!objVars => ObjectTypes'
         /\ UNCHANGED Sets!waitVars => WaitTypes'
         /\ UNCHANGED Sets!schedVars => SchedTypes'
<1>1. UNCHANGED Sets!objVars => ObjectTypes'
  BY DEF SetTypes, ObjectTypes, Sets!objVars, Sets!Limit
<1>2. UNCHANGED Sets!waitVars => WaitTypes'
  BY DEF SetTypes, WaitTypes, Sets!waitVars
<1>3. UNCHANGED Sets!schedVars => SchedTypes'
  BY DEF SetTypes, SchedTypes, Sets!schedVars
<1> QED
  BY <1>1, <1>2, <1>3

\* The variables of a call keep their types.
LEMMA CallTypesKeep ==
  ASSUME SetsInv, Sets!Next PROVE CallTypes'
<1> USE DEF CallTypes, Sets!Goto, Sets!actVars
<1>0. CallTypes /\ SetPlaces /\ Sets!NoWake \in WakeAt /\ Sets!Quiet \in PulseAt
  BY DEF SetsInv, SetTypes, WakeAt, PulseAt, Sets!NoWake, Sets!Quiet
<1>1. ASSUME NEW a \in Sets!Actors, Sets!WakeStep(a) PROVE CallTypes'
  <2>1. PICK w \in WakeAt : mWake' = [mWake EXCEPT ![a] = w]
    <3>1. CASE Sets!Bump(a)
      <4>1. [mWake[a] EXCEPT !.step = "filter"] \in WakeAt
        BY <1>0 DEF WakeAt
      <4> QED
        BY <3>1, <4>1 DEF Sets!Bump
    <3>2. CASE Sets!Filter(a)
      <4>1. [mWake[a] EXCEPT !.step = "walk"] \in WakeAt
        BY <1>0 DEF WakeAt
      <4> QED
        BY <1>0, <3>2, <4>1 DEF Sets!Filter
    <3>3. CASE Sets!Walk(a)
      BY <1>0, <3>3 DEF Sets!Walk
    <3> QED
      BY <1>1, <3>1, <3>2, <3>3 DEF Sets!WakeStep
  <2>2. UNCHANGED <<mPc, mPulsing>>
    BY <1>1 DEF Sets!WakeStep, Sets!Bump, Sets!Filter, Sets!Walk
  <2> QED
    BY <1>0, <2>1, <2>2
<1>2. ASSUME NEW t \in SetThreads,
             Sets!SampleEpoch(t) \/ Sets!Interrupt(t) \/ Sets!Released(t) \/ Sets!Acquire(t)
               \/ Sets!WaitCallback(t) \/ Sets!CallbacksDone(t) \/ Sets!PollFails(t)
               \/ Sets!CompareEpoch(t) \/ Sets!LinkBlocked(t) \/ Sets!ClearOwner(t)
               \/ Sets!Preempt(t) \/ Sets!Dispatch(t) \/ \E w \in Waits : Sets!StartWait(t, w)
      PROVE  CallTypes'
  BY <1>0, <1>2 DEF Sets!SampleEpoch, Sets!Interrupt, Sets!Released, Sets!Acquire,
     Sets!WaitCallback, Sets!CallbacksDone, Sets!PollFails, Sets!CompareEpoch,
     Sets!LinkBlocked, Sets!ClearOwner, Sets!Preempt, Sets!Dispatch, Sets!StartWait
<1>3. ASSUME NEW t \in SetThreads, Sets!Leave(t) \/ Sets!FreeMutant(t) PROVE CallTypes'
  <2>1. mWake' = mWake \/ \E o \in Objects : Sets!Wakes(t, o)
    BY <1>0, <1>3, WaitedIn
       DEF Sets!Leave, Sets!FreeMutant, SetPlaces, SetPlace, Sets!Mutants, Sets!First
  <2>2. mPc' = [mPc EXCEPT ![t] = "guest"] /\ mPulsing' = mPulsing
    BY <1>3 DEF Sets!Leave, Sets!FreeMutant
  <2> QED
    BY <1>0, <2>1, <2>2 DEF Sets!Wakes, WakeAt, Sets!Actors
<1>4. ASSUME NEW t \in SetThreads, NEW o \in Objects, Sets!ReleaseMutant(t, o)
      PROVE  CallTypes'
  <2>1. t \in Sets!Actors /\ [mWake[t] EXCEPT !.obj = o] \in WakeAt
    BY <1>0 DEF WakeAt, Sets!Actors
  <2> QED
    BY <1>0, <1>4, <2>1 DEF Sets!ReleaseMutant
<1>5. ASSUME NEW c \in Cpus, Sets!Repoll(c) \/ Sets!Backstop(c) PROVE CallTypes'
  <2> PICK S : Sets!Reready(c, S)
    BY <1>5 DEF Sets!Repoll, Sets!Backstop
  <2> QED
    BY <1>0 DEF Sets!Reready
<1>6. ASSUME NEW k \in Callers, Sets!OpenPulse(k) \/ Sets!EndPulse(k) PROVE CallTypes'
  <2>1. mPulsing[k].obj \in Objects /\ k \in Sets!Actors
    BY <1>0, <1>6 DEF Sets!OpenPulse, Sets!EndPulse, SetPlaces, PulsePlace, Sets!Events,
       Sets!Actors
  <2>2. [mPulsing[k] EXCEPT !.how = "open"] \in PulseAt
    BY <1>0 DEF PulseAt
  <2>3. CASE Sets!OpenPulse(k)
    BY <1>0, <2>2, <2>3 DEF Sets!OpenPulse
  <2>4. CASE Sets!EndPulse(k)
    BY <1>0, <2>1, <2>4 DEF Sets!EndPulse, Sets!Wakes, WakeAt
  <2> QED
    BY <1>6, <2>3, <2>4
<1>7. ASSUME NEW k \in Callers, NEW o \in Objects, Sets!Signal(k, o) \/ Sets!Reset(k, o)
      PROVE  CallTypes'
  <2>1. k \in Sets!Actors /\ [step |-> "bump", obj |-> o] \in WakeAt
    BY DEF Sets!Actors, WakeAt
  <2> QED
    BY <1>0, <1>7, <2>1 DEF Sets!Signal, Sets!Reset, Sets!Wakes
<1>8. ASSUME NEW k \in Callers, NEW o \in Objects, Sets!Pulse(k, o) PROVE CallTypes'
  <2>1. \A how \in {"set", "reset"} : [how |-> how, obj |-> o] \in PulseAt
    BY DEF PulseAt
  <2> QED
    BY <1>0, <1>8, <2>1 DEF Sets!Pulse
<1>9. \A t \in SetThreads : t \in Sets!Actors
  BY DEF Sets!Actors
<1>10. \A k \in Callers : k \in Sets!Actors
  BY DEF Sets!Actors
<1> QED
  BY <1>1, <1>2, <1>3, <1>4, <1>5, <1>6, <1>7, <1>8, <1>9, <1>10
     DEF Sets!Next, Sets!KernelStep, Sets!GuestStep, Sets!CallerStep, Sets!NewCall

\* So do those of the objects.
LEMMA ObjectTypesKeep ==
  ASSUME SetsInv, Sets!Next PROVE ObjectTypes'
<1> USE DEF ObjectTypes
<1>0. ObjectTypes /\ SetTypes /\ SetPlaces
  BY DEF SetsInv, SetTypes
<1>1. \A o \in Objects : /\ 0 \in 0..Sets!Limit(o) /\ 1 \in 0..Sets!Limit(o)
                         /\ Sets!Limit(o) \in Nat
  BY SetsOK DEF Sets!Limit, Sets!MultiWaitAssumption
<1>2. UNCHANGED Sets!objVars => ObjectTypes'
  BY <1>0, SameTypes
<1>3. ASSUME NEW o \in Objects, NEW n \in 0..Sets!Limit(o),
             mFree' = [mFree EXCEPT ![o] = n], UNCHANGED <<mOwner, mRecursion, mFifo>>
      PROVE  ObjectTypes'
  BY <1>0, <1>1, <1>3 DEF Sets!Limit
<1>4. ASSUME NEW o \in Objects, NEW s \in Seq(SetThreads),
             mFifo' = [mFifo EXCEPT ![o] = s], UNCHANGED <<mFree, mOwner, mRecursion>>
      PROVE  ObjectTypes'
  BY <1>0, <1>4 DEF Sets!Limit
<1>5. ASSUME NEW t \in SetThreads, Sets!Acquire(t) PROVE ObjectTypes'
  <2>1. /\ \A o \in Objects : mFree'[o] \in Nat /\ mFree'[o] <= mFree[o]
        /\ mFree' \in [Objects -> Nat] /\ UNCHANGED <<mOwner, mRecursion, mFifo>>
    BY <1>0, <1>5 DEF Sets!Acquire
  <2>2. \A o \in Objects : mFree'[o] \in 0..Sets!Limit(o)
    BY <1>0, <1>1, <2>1
  <2> QED
    BY <1>0, <2>1, <2>2 DEF Sets!Limit
<1>6. ASSUME NEW t \in SetThreads, Sets!WaitCallback(t) PROVE ObjectTypes'
  <2>1. Head(mTaken[t]) \in Objects
    BY <1>0, <1>6 DEF Sets!WaitCallback, SetTypes, WaitTypes
  <2>2. /\ \/ UNCHANGED <<mOwner, mRecursion>>
           \/ /\ mOwner' = [mOwner EXCEPT ![Head(mTaken[t])] = t]
              /\ \E n \in Nat : mRecursion' = [mRecursion EXCEPT ![Head(mTaken[t])] = n]
        /\ UNCHANGED <<mFree, mFifo>>
    BY <1>0, <1>6, <2>1 DEF Sets!WaitCallback
  <2> QED
    BY <1>0, <2>1, <2>2 DEF Sets!Limit
<1>7. ASSUME NEW t \in SetThreads, Sets!Leave(t) PROVE ObjectTypes'
  <2>1. Sets!First(t) \in Objects
    BY <1>0, <1>7, WaitedIn DEF Sets!Leave, SetPlaces, SetPlace, Sets!First
  <2>2. Sets!Unlink(mFifo[Sets!First(t)], t) \in Seq(SetThreads)
    BY <1>0, <2>1, SetListTypes
  <2>3. \/ UNCHANGED Sets!objVars
        \/ /\ mFifo' = [mFifo EXCEPT ![Sets!First(t)] = Sets!Unlink(@, t)]
           /\ UNCHANGED <<mFree, mOwner, mRecursion>>
    BY <1>7 DEF Sets!Leave, Sets!objVars
  <2> QED
    BY <1>0, <1>2, <1>4, <2>1, <2>2, <2>3
<1>8. ASSUME NEW t \in SetThreads, NEW w \in Waits, Sets!StartWait(t, w) PROVE ObjectTypes'
  <2>1. Head(w.of) \in Objects
    BY WaitedIn
  <2>2. Sets!LinkTail(mFifo[Head(w.of)], t) \in Seq(SetThreads)
    BY <1>0, <2>1, SetListTypes
  <2>3. \/ UNCHANGED Sets!objVars
        \/ /\ mFifo' = [mFifo EXCEPT ![Head(w.of)] = Sets!LinkTail(@, t)]
           /\ UNCHANGED <<mFree, mOwner, mRecursion>>
    BY <1>8 DEF Sets!StartWait, Sets!objVars
  <2> QED
    BY <1>0, <1>2, <1>4, <2>1, <2>2, <2>3
<1>9. ASSUME NEW t \in SetThreads, Sets!ClearOwner(t) PROVE ObjectTypes'
  BY <1>0, <1>9 DEF Sets!ClearOwner, Sets!Limit
<1>10. ASSUME NEW t \in SetThreads, Sets!FreeMutant(t) PROVE ObjectTypes'
  <2>1. mWake[t].obj \in Objects
    BY <1>0, <1>10 DEF Sets!FreeMutant, SetPlaces, SetPlace, Sets!Mutants
  <2> QED
    BY <1>1, <1>3, <1>10, <2>1 DEF Sets!FreeMutant
<1>11. ASSUME NEW t \in SetThreads, NEW o \in Objects, Sets!ReleaseMutant(t, o)
       PROVE  ObjectTypes'
  <2>1. mRecursion[o] >= 1
    BY <1>0, <1>11 DEF Sets!ReleaseMutant, SetsInv, SetPermit
  <2> QED
    BY <1>0, <1>11, <2>1 DEF Sets!ReleaseMutant, Sets!Limit
<1>12. ASSUME NEW k \in Callers, Sets!OpenPulse(k) \/ Sets!EndPulse(k) PROVE ObjectTypes'
  <2>1. mPulsing[k].obj \in Objects
    BY <1>0, <1>12 DEF Sets!OpenPulse, Sets!EndPulse, SetPlaces, PulsePlace, Sets!Events
  <2>2. /\ \E n \in {0, 1} : mFree' = [mFree EXCEPT ![mPulsing[k].obj] = n]
        /\ UNCHANGED <<mOwner, mRecursion, mFifo>>
    BY <1>12 DEF Sets!OpenPulse, Sets!EndPulse
  <2> QED
    BY <1>1, <1>3, <2>1, <2>2
<1>13. ASSUME NEW k \in Callers, NEW o \in Objects, Sets!Signal(k, o) \/ Sets!Reset(k, o)
       PROVE  ObjectTypes'
  <2>1. PICK n \in {0, 1, mFree[o] + 1} : mFree' = [mFree EXCEPT ![o] = n]
    BY <1>13 DEF Sets!Signal, Sets!Reset
  <2>2. n = mFree[o] + 1 => n \in {0, 1} \/ n \in 0..Sets!Limit(o)
    <3>1. KindOf[o] = "semaphore" /\ Sets!Signal(k, o) => mFree[o] < Sets!Limit(o)
      BY DEF Sets!Signal
    <3>2. ~(KindOf[o] = "semaphore" /\ Sets!Signal(k, o)) => mFree'[o] \in {0, 1}
      BY <1>0, <1>13 DEF Sets!Signal, Sets!Reset
    <3> QED
      BY <1>0, <1>1, <2>1, <3>1, <3>2
  <2>3. n \in 0..Sets!Limit(o) /\ UNCHANGED <<mOwner, mRecursion, mFifo>>
    BY <1>1, <1>13, <2>1, <2>2 DEF Sets!Signal, Sets!Reset
  <2> QED
    BY <1>3, <2>1, <2>3
<1>14. ASSUME NEW t \in SetThreads,
              Sets!SampleEpoch(t) \/ Sets!Interrupt(t) \/ Sets!Released(t)
                \/ Sets!CallbacksDone(t) \/ Sets!PollFails(t) \/ Sets!CompareEpoch(t)
                \/ Sets!LinkBlocked(t) \/ Sets!Preempt(t) \/ Sets!Dispatch(t)
       PROVE  ObjectTypes'
  BY <1>2, <1>14 DEF Sets!SampleEpoch, Sets!Interrupt, Sets!Released, Sets!CallbacksDone,
     Sets!PollFails, Sets!CompareEpoch, Sets!LinkBlocked, Sets!Preempt, Sets!Dispatch
<1>15. ASSUME NEW c \in Cpus, Sets!Repoll(c) \/ Sets!Backstop(c) PROVE ObjectTypes'
  BY <1>2, <1>15 DEF Sets!Repoll, Sets!Backstop, Sets!Reready
<1>16. ASSUME NEW k \in Callers, NEW o \in Objects, Sets!Pulse(k, o) PROVE ObjectTypes'
  BY <1>2, <1>16 DEF Sets!Pulse
<1>17. ASSUME NEW a \in Sets!Actors, Sets!WakeStep(a) PROVE ObjectTypes'
  BY <1>2, <1>17 DEF Sets!WakeStep, Sets!Bump, Sets!Filter, Sets!Walk
<1> HIDE DEF ObjectTypes
<1> QED
  BY <1>5, <1>6, <1>7, <1>8, <1>9, <1>10, <1>11, <1>12, <1>13, <1>14, <1>15, <1>16, <1>17
     DEF Sets!Next, Sets!KernelStep, Sets!GuestStep, Sets!CallerStep, Sets!NewCall, Sets!Actors

\* So do those of the waits.
LEMMA WaitTypesKeep ==
  ASSUME SetsInv, Sets!Next PROVE WaitTypes'
<1>0. WaitTypes /\ SetTypes /\ SetPlaces
  BY DEF SetsInv, SetTypes
<1>1. UNCHANGED Sets!waitVars => WaitTypes'
  BY <1>0, SameTypes
<1>2. ASSUME NEW a \in Sets!Actors, Sets!WakeStep(a) PROVE WaitTypes'
  <2>1. CASE Sets!Bump(a)
    <3>1. mMoved' \in [SetThreads -> BOOLEAN]
      BY <1>0, <2>1, Zenon DEF Sets!Bump, WaitTypes
    <3> QED
      BY <1>0, <2>1, <3>1 DEF Sets!Bump, WaitTypes
  <2> QED
    BY <1>1, <1>2, <2>1 DEF Sets!WakeStep, Sets!Filter, Sets!Walk
<1>3. ASSUME NEW t \in SetThreads, Sets!SampleEpoch(t) PROVE WaitTypes'
  BY <1>0, <1>3 DEF Sets!SampleEpoch, WaitTypes
<1>4. ASSUME NEW t \in SetThreads, Sets!Acquire(t) PROVE WaitTypes'
  <2>1. mWait[t] \in Waits
    BY <1>0, <1>4 DEF Sets!Acquire, SetPlaces, SetPlace
  <2>2. Sets!Takes(t) \in Seq(Objects)
    <3>1. CASE mWait[t].shape = "any"
      <4>1. Sets!FirstSignaled(t) \in Sets!Waited(t)
        BY <1>4, <2>1, <3>1, FirstIsSignaled DEF Sets!Acquire, Sets!Satisfied
      <4>2. Sets!FirstSignaled(t) \in Objects
        BY <2>1, <4>1, WaitedIn DEF Sets!Waited, Sets!Elems
      <4> QED
        BY <3>1, <4>2 DEF Sets!Takes
    <3> QED
      BY <2>1, <3>1, WaitedIn DEF Sets!Takes
  <2>3. mTaken' = [mTaken EXCEPT ![t] = Sets!Takes(t)] /\ UNCHANGED <<mWait, mMoved, mPulsed>>
    BY <1>4 DEF Sets!Acquire
  <2> QED
    BY <1>0, <2>2, <2>3 DEF WaitTypes
<1>5. ASSUME NEW t \in SetThreads, Sets!WaitCallback(t) PROVE WaitTypes'
  <2>1. Tail(mTaken[t]) \in Seq(Objects)
    BY <1>0, <1>5 DEF Sets!WaitCallback, WaitTypes
  <2> QED
    BY <1>0, <1>5, <2>1 DEF Sets!WaitCallback, Sets!NextCallback, WaitTypes
<1>6. ASSUME NEW t \in SetThreads, Sets!Leave(t) PROVE WaitTypes'
  BY <1>0, <1>6 DEF Sets!Leave, WaitTypes
<1>7. ASSUME NEW t \in SetThreads, NEW w \in Waits, Sets!StartWait(t, w) PROVE WaitTypes'
  BY <1>0, <1>7 DEF Sets!StartWait, WaitTypes
<1>8. ASSUME NEW t \in SetThreads,
             \/ Sets!Interrupt(t) \/ Sets!Released(t) \/ Sets!CallbacksDone(t)
             \/ Sets!PollFails(t) \/ Sets!CompareEpoch(t) \/ Sets!LinkBlocked(t)
             \/ Sets!ClearOwner(t) \/ Sets!FreeMutant(t) \/ Sets!Preempt(t) \/ Sets!Dispatch(t)
             \/ \E o \in Objects : Sets!ReleaseMutant(t, o)
      PROVE  WaitTypes'
  BY <1>1, <1>8 DEF Sets!Interrupt, Sets!Released, Sets!CallbacksDone, Sets!PollFails,
     Sets!CompareEpoch, Sets!LinkBlocked, Sets!ClearOwner, Sets!FreeMutant, Sets!Preempt,
     Sets!Dispatch, Sets!ReleaseMutant
<1>9. ASSUME NEW c \in Cpus, Sets!Repoll(c) \/ Sets!Backstop(c) PROVE WaitTypes'
  BY <1>1, <1>9 DEF Sets!Repoll, Sets!Backstop, Sets!Reready
<1>10. ASSUME NEW k \in Callers, NEW o \in Objects, Sets!Pulse(k, o) PROVE WaitTypes'
  BY <1>0, <1>10 DEF Sets!Pulse, WaitTypes
<1>11. ASSUME NEW k \in Callers,
              \/ Sets!OpenPulse(k) \/ Sets!EndPulse(k)
              \/ \E o \in Objects : Sets!Signal(k, o) \/ Sets!Reset(k, o)
       PROVE  WaitTypes'
  BY <1>1, <1>11 DEF Sets!OpenPulse, Sets!EndPulse, Sets!Signal, Sets!Reset
<1> QED
  BY <1>2, <1>3, <1>4, <1>5, <1>6, <1>7, <1>8, <1>9, <1>10, <1>11
     DEF Sets!Next, Sets!KernelStep, Sets!GuestStep, Sets!CallerStep, Sets!NewCall, Sets!Actors

\* So do those of the scheduler.
LEMMA SchedTypesKeep ==
  ASSUME SetsInv, Sets!Next PROVE SchedTypes'
<1>0. SchedTypes /\ SetTypes /\ \A t \in SetThreads : SetCpuOf[t] \in Cpus
  BY SetsOK DEF SetsInv, SetTypes, Sets!MultiWaitAssumption
<1>1. UNCHANGED Sets!schedVars => SchedTypes'
  BY <1>0, SameTypes
<1>2. ASSUME NEW a \in Sets!Actors, Sets!WakeStep(a) PROVE SchedTypes'
  <2>1. CASE Sets!Walk(a)
    BY <1>0, <2>1 DEF Sets!Walk, SchedTypes
  <2> QED
    BY <1>1, <1>2, <2>1 DEF Sets!WakeStep, Sets!Bump, Sets!Filter
<1>3. ASSUME NEW t \in SetThreads,
             Sets!CompareEpoch(t) \/ Sets!LinkBlocked(t) \/ Sets!Preempt(t) \/ Sets!Dispatch(t)
      PROVE  SchedTypes'
  BY <1>0, <1>3
     DEF Sets!CompareEpoch, Sets!LinkBlocked, Sets!Preempt, Sets!Dispatch, SchedTypes
<1>4. ASSUME NEW c \in Cpus, Sets!Repoll(c) \/ Sets!Backstop(c) PROVE SchedTypes'
  <2> PICK S : Sets!Reready(c, S)
    BY <1>4 DEF Sets!Repoll, Sets!Backstop
  <2> QED
    BY <1>0 DEF Sets!Reready, SchedTypes
<1>5. ASSUME NEW t \in SetThreads,
             \/ Sets!SampleEpoch(t) \/ Sets!Interrupt(t) \/ Sets!Released(t)
             \/ Sets!Acquire(t) \/ Sets!WaitCallback(t) \/ Sets!CallbacksDone(t)
             \/ Sets!PollFails(t) \/ Sets!Leave(t) \/ Sets!ClearOwner(t) \/ Sets!FreeMutant(t)
             \/ \E w \in Waits : Sets!StartWait(t, w)
             \/ \E o \in Objects : Sets!ReleaseMutant(t, o)
      PROVE  SchedTypes'
  BY <1>1, <1>5 DEF Sets!SampleEpoch, Sets!Interrupt, Sets!Released, Sets!Acquire,
     Sets!WaitCallback, Sets!CallbacksDone, Sets!PollFails, Sets!Leave, Sets!ClearOwner,
     Sets!FreeMutant, Sets!StartWait, Sets!ReleaseMutant
<1>6. ASSUME NEW k \in Callers,
             \/ Sets!OpenPulse(k) \/ Sets!EndPulse(k)
             \/ \E o \in Objects : Sets!Signal(k, o) \/ Sets!Reset(k, o) \/ Sets!Pulse(k, o)
      PROVE  SchedTypes'
  BY <1>1, <1>6 DEF Sets!OpenPulse, Sets!EndPulse, Sets!Signal, Sets!Reset, Sets!Pulse
<1> QED
  BY <1>2, <1>3, <1>4, <1>5, <1>6
     DEF Sets!Next, Sets!KernelStep, Sets!GuestStep, Sets!CallerStep, Sets!NewCall, Sets!Actors

\* Steps that do not touch a mutant's permit, its owner or a release, and those that may.
Gives(t) == mPc[t] \in {"relClear", "relFree"}
Elsewhere ==
  /\ UNCHANGED <<mOwner, mRecursion, mTaken>>
  /\ \A o \in Sets!Mutants : mFree'[o] = mFree[o]
  /\ \A t \in SetThreads : Gives(t) \/ Gives(t)' => mPc'[t] = mPc[t] /\ mWake'[t] = mWake[t]
Moves(t) ==
  \/ Sets!Acquire(t) \/ Sets!WaitCallback(t) \/ Sets!ClearOwner(t) \/ Sets!FreeMutant(t)
  \/ \E o \in Objects : Sets!ReleaseMutant(t, o)

\* Every step is one of these, or leaves permits, owners and releases alone.
LEMMA MovesOrNot ==
  ASSUME SetsInv, Sets!Next PROVE Elsewhere \/ \E t \in SetThreads : Moves(t)
<1>0. /\ ObjectTypes /\ CallTypes /\ SetPlaces /\ SetThreads \cap Callers = {}
      /\ Sets!NoWake.step = "none"
  BY SetsOK DEF SetsInv, SetTypes, Sets!MultiWaitAssumption, Sets!NoWake
<1>1. ASSUME NEW t \in SetThreads,
             \/ Sets!SampleEpoch(t) \/ Sets!Interrupt(t) \/ Sets!Released(t)
             \/ Sets!PollFails(t) \/ Sets!CompareEpoch(t) \/ Sets!LinkBlocked(t)
             \/ Sets!CallbacksDone(t) \/ Sets!Preempt(t) \/ Sets!Dispatch(t)
             \/ \E w \in Waits : Sets!StartWait(t, w)
      PROVE  Elsewhere
  <2>1. UNCHANGED <<mOwner, mRecursion, mTaken, mFree, mWake>>
    BY <1>1 DEF Sets!SampleEpoch, Sets!Interrupt, Sets!Released, Sets!PollFails,
       Sets!CompareEpoch, Sets!LinkBlocked, Sets!CallbacksDone, Sets!Preempt, Sets!Dispatch,
       Sets!StartWait, Sets!objVars, Sets!waitVars, Sets!actVars
  <2>2. /\ mPc' = [mPc EXCEPT ![t] = mPc'[t]]
        /\ mPc' = mPc \/ mPc[t] \notin {"relClear", "relFree"}
        /\ mPc' = mPc \/ mPc'[t] \notin {"relClear", "relFree"}
    BY <1>0, <1>1 DEF Sets!SampleEpoch, Sets!Interrupt, Sets!Released, Sets!PollFails,
       Sets!CompareEpoch, Sets!LinkBlocked, Sets!CallbacksDone, Sets!Preempt, Sets!Dispatch,
       Sets!StartWait, Sets!Goto, CallTypes
  <2> QED
    BY <1>0, <2>1, <2>2 DEF Elsewhere, Gives, CallTypes
<1>2. ASSUME NEW t \in SetThreads, Sets!Leave(t) PROVE Elsewhere
  <2>1. /\ UNCHANGED <<mOwner, mRecursion, mTaken, mFree>> /\ mPc[t] = "leave"
        /\ mPc' = [mPc EXCEPT ![t] = "guest"]
        /\ mWake' = mWake \/ \E w \in WakeAt : mWake' = [mWake EXCEPT ![t] = w]
    <3>1. Sets!First(t) \in Objects
      BY <1>0, <1>2, WaitedIn DEF Sets!Leave, SetPlaces, SetPlace, Sets!First
    <3> QED
      BY <1>2, <3>1 DEF Sets!Leave, Sets!Goto, Sets!Wakes, WakeAt
  <2> QED
    BY <1>0, <2>1 DEF Elsewhere, Gives, CallTypes, Sets!Actors
<1>3. ASSUME NEW a \in Sets!Actors, Sets!WakeStep(a) PROVE Elsewhere
  <2>1. /\ UNCHANGED <<mOwner, mRecursion, mTaken, mFree, mPc>> /\ mWake[a].step # "none"
        /\ \A b \in Sets!Actors \ {a} : mWake'[b] = mWake[b]
    BY <1>0, <1>3 DEF Sets!WakeStep, Sets!Bump, Sets!Filter, Sets!Walk, Sets!objVars,
       Sets!waitVars, CallTypes
  <2>2. \A t \in SetThreads : Gives(t) => t # a
    BY <1>0, <2>1 DEF Gives, SetPlaces, SetPlace
  <2> QED
    BY <2>1, <2>2 DEF Elsewhere, Gives, Sets!Actors
<1>4. ASSUME NEW c \in Cpus, Sets!Repoll(c) \/ Sets!Backstop(c) PROVE Elsewhere
  BY <1>4 DEF Sets!Repoll, Sets!Backstop, Sets!Reready, Elsewhere, Sets!objVars,
     Sets!waitVars, Sets!actVars
<1>5. ASSUME NEW k \in Callers, Sets!OpenPulse(k) \/ Sets!EndPulse(k) PROVE Elsewhere
  <2>1. mPulsing[k].obj \in Objects /\ KindOf[mPulsing[k].obj] # "mutant"
    BY <1>0, <1>5 DEF Sets!OpenPulse, Sets!EndPulse, SetPlaces, PulsePlace, Sets!Events
  <2>2. \A o \in Sets!Mutants : mFree'[o] = mFree[o]
    BY <1>0, <1>5, <2>1 DEF Sets!OpenPulse, Sets!EndPulse, Sets!Mutants, ObjectTypes
  <2>3. \A t \in SetThreads : mWake'[t] = mWake[t]
    BY <1>0, <1>5 DEF Sets!OpenPulse, Sets!EndPulse, Sets!Wakes, CallTypes, Sets!Actors
  <2> QED
    BY <1>5, <2>2, <2>3 DEF Sets!OpenPulse, Sets!EndPulse, Elsewhere, Sets!waitVars, Gives
<1>6. ASSUME NEW k \in Callers, NEW o \in Objects,
             Sets!Signal(k, o) \/ Sets!Reset(k, o) \/ Sets!Pulse(k, o)
      PROVE  Elsewhere
  <2>1. /\ UNCHANGED <<mOwner, mRecursion, mTaken, mPc>>
        /\ mWake' = mWake \/ Sets!Wakes(k, o)
    BY <1>6 DEF Sets!Signal, Sets!Reset, Sets!Pulse, Sets!objVars, Sets!waitVars, Sets!actVars
  <2>2. \A t \in SetThreads : mWake'[t] = mWake[t]
    BY <1>0, <2>1 DEF Sets!Wakes, CallTypes, Sets!Actors
  <2>3. \A p \in Sets!Mutants : mFree'[p] = mFree[p]
    BY <1>0, <1>6 DEF Sets!Signal, Sets!Reset, Sets!Pulse, Sets!Events, Sets!Mutants,
       Sets!objVars, ObjectTypes
  <2> QED
    BY <2>1, <2>2, <2>3 DEF Elsewhere, Gives
<1> QED
  BY <1>1, <1>2, <1>3, <1>4, <1>5, <1>6
     DEF Sets!Next, Sets!KernelStep, Sets!GuestStep, Sets!CallerStep, Sets!NewCall,
         Sets!Actors, Moves

\* One permit for each mutant, with every step.
LEMMA PermitsKeep ==
  ASSUME SetsInv, Sets!Next, NEW o \in Sets!Mutants PROVE SetPermit(o)'
<1>0. /\ ObjectTypes /\ WaitTypes /\ CallTypes /\ SetPlaces /\ SetPermit(o)
      /\ o \in Objects /\ KindOf[o] = "mutant" /\ NoThread \notin SetThreads
  BY SetsOK DEF SetsInv, SetTypes, Sets!Mutants, Sets!MultiWaitAssumption
<1>1. ASSUME \A t \in SetThreads : Sets!HasPermit(t, o)' <=> Sets!HasPermit(t, o),
             mFree'[o] = mFree[o],
             \A t \in SetThreads :
               mOwner'[o] = t /\ ~(mPc'[t] = "relClear" /\ mWake'[t].obj = o)
                 => mRecursion'[o] >= 1
      PROVE  SetPermit(o)'
  BY <1>0, <1>1 DEF SetPermit
<1>2. CASE Elsewhere
  <2>1. \A t \in SetThreads : Sets!HasPermit(t, o)' <=> Sets!HasPermit(t, o)
    BY <1>2 DEF Elsewhere, Sets!HasPermit, Gives
  <2> QED
    BY <1>0, <1>1, <1>2, <2>1 DEF Elsewhere, SetPermit, Gives
<1>3. ASSUME NEW t \in SetThreads, Sets!Acquire(t) PROVE SetPermit(o)'
  <2>1. /\ mWait[t] \in Waits /\ mTaken[t] = <<>> /\ ~Gives(t)
        /\ UNCHANGED <<mOwner, mRecursion, mWake>>
        /\ mPc' = [mPc EXCEPT ![t] = "callback"]
        /\ mTaken' = [mTaken EXCEPT ![t] = Sets!Takes(t)]
        /\ mFree'[o] = IF o \in Sets!Elems(Sets!Takes(t)) /\ mOwner[o] # t /\ mFree[o] > 0
                       THEN mFree[o] - 1 ELSE mFree[o]
    BY <1>0, <1>3 DEF Sets!Acquire, Sets!Goto, SetPlaces, SetPlace, Gives, Sets!actVars,
       Sets!Consumes, Sets!Reentered
  <2>2. o \in Sets!Elems(Sets!Takes(t)) => mOwner[o] = t \/ mFree[o] > 0
    <3>1. CASE mWait[t].shape = "any"
      BY <1>3, <2>1, <3>1, FirstIsSignaled
         DEF Sets!Acquire, Sets!Satisfied, Sets!Takes, Sets!Elems, Sets!Signaled,
             Sets!Reentered
    <3>2. CASE mWait[t].shape = "all"
      BY <1>3, <2>1, <3>2
         DEF Sets!Acquire, Sets!Satisfied, Sets!Takes, Sets!Waited, Sets!Signaled,
             Sets!Reentered
    <3>3. CASE mWait[t].shape = "single"
      <4>1. Sets!Elems(Sets!Takes(t)) = {Sets!First(t)}
        BY <2>1, <3>3, SetsOK
           DEF Sets!MultiWaitAssumption, Sets!Wait, Sets!Takes, Sets!Elems, Sets!First
      <4> QED
        BY <1>3, <3>3, <4>1 DEF Sets!Acquire, Sets!Satisfied, Sets!Signaled, Sets!Reentered
    <3> QED
      BY <2>1, <3>1, <3>2, <3>3, WaitedIn
  <2>3. \A u \in SetThreads \ {t} : Sets!HasPermit(u, o)' <=> Sets!HasPermit(u, o)
    BY <1>0, <2>1 DEF Sets!HasPermit, WaitTypes, CallTypes
  <2>4. Sets!HasPermit(t, o)' <=> Sets!HasPermit(t, o) \/ o \in Sets!Elems(Sets!Takes(t))
    BY <1>0, <2>1 DEF Sets!HasPermit, WaitTypes, CallTypes, Gives, Sets!Elems
  <2>5. \A u \in SetThreads :
          mOwner'[o] = u /\ ~(mPc'[u] = "relClear" /\ mWake'[u].obj = o)
            => mRecursion'[o] >= 1
    BY <1>0, <2>1 DEF SetPermit, CallTypes, Gives
  <2>6. CASE o \in Sets!Elems(Sets!Takes(t)) /\ mOwner[o] # t
    <3>1. mFree[o] = 1 /\ \A u \in SetThreads : ~Sets!HasPermit(u, o)
      BY <1>0, <2>2, <2>6 DEF SetPermit
    <3> QED
      BY <1>0, <2>1, <2>3, <2>4, <2>5, <2>6, <3>1 DEF SetPermit
  <2>7. CASE ~(o \in Sets!Elems(Sets!Takes(t)) /\ mOwner[o] # t)
    <3>1. \A u \in SetThreads : Sets!HasPermit(u, o)' <=> Sets!HasPermit(u, o)
      BY <2>3, <2>4, <2>7 DEF Sets!HasPermit
    <3> QED
      BY <1>1, <2>1, <2>5, <2>7, <3>1
  <2> QED
    BY <2>6, <2>7
<1>4. ASSUME NEW t \in SetThreads, Sets!WaitCallback(t) PROVE SetPermit(o)'
  <2> DEFINE p == Head(mTaken[t])
  <2>1. /\ p \in Objects /\ Sets!Elems(mTaken[t]) = {p} \cup Sets!Elems(Tail(mTaken[t]))
        /\ mTaken' = [mTaken EXCEPT ![t] = Tail(@)]
        /\ UNCHANGED <<mFree, mPc, mWake>> /\ ~Gives(t)
        /\ IF KindOf[p] = "mutant"
           THEN /\ mOwner' = [mOwner EXCEPT ![p] = t]
                /\ mRecursion' = [mRecursion EXCEPT ![p] = IF mOwner[p] = t THEN @ + 1 ELSE 1]
           ELSE UNCHANGED <<mOwner, mRecursion>>
    <3>1. mTaken[t] \in Seq(Objects) /\ mTaken[t] # <<>>
      BY <1>0, <1>4 DEF Sets!WaitCallback, WaitTypes
    <3>2. Sets!Elems(mTaken[t]) = {p} \cup Sets!Elems(Tail(mTaken[t]))
      <4>1. \A i \in DOMAIN mTaken[t] : mTaken[t][i] \in {p} \cup Sets!Elems(Tail(mTaken[t]))
        <5> SUFFICES ASSUME NEW i \in DOMAIN mTaken[t], i # 1
                     PROVE  mTaken[t][i] \in Sets!Elems(Tail(mTaken[t]))
          BY <3>1
        <5>1. i - 1 \in DOMAIN Tail(mTaken[t]) /\ Tail(mTaken[t])[i - 1] = mTaken[t][i]
          BY <3>1
        <5> QED
          BY <5>1 DEF Sets!Elems
      <4>2. \A i \in DOMAIN Tail(mTaken[t]) : Tail(mTaken[t])[i] \in Sets!Elems(mTaken[t])
        <5> SUFFICES ASSUME NEW i \in DOMAIN Tail(mTaken[t])
                     PROVE  Tail(mTaken[t])[i] \in Sets!Elems(mTaken[t])
          OBVIOUS
        <5>1. i + 1 \in DOMAIN mTaken[t] /\ Tail(mTaken[t])[i] = mTaken[t][i + 1]
          BY <3>1
        <5> QED
          BY <5>1 DEF Sets!Elems
      <4>3. p \in Sets!Elems(mTaken[t])
        BY <3>1 DEF Sets!Elems
      <4> QED
        BY <4>1, <4>2, <4>3 DEF Sets!Elems
    <3> QED
      BY <1>0, <1>4, <3>1, <3>2 DEF Sets!WaitCallback, Sets!NextCallback, Gives, Sets!actVars
  <2> HIDE DEF p
  <2>2. \A u \in SetThreads : Sets!HasPermit(u, o)' => Sets!HasPermit(u, o)
    <3>1. \A u \in SetThreads : mOwner'[o] = u => mOwner[o] = u \/ (u = t /\ o = p)
      BY <1>0, <2>1 DEF ObjectTypes
    <3>2. /\ \A u \in SetThreads \ {t} : mTaken'[u] = mTaken[u]
          /\ mTaken'[t] = Tail(mTaken[t])
      BY <1>0, <2>1 DEF WaitTypes
    <3> QED
      BY <2>1, <3>1, <3>2 DEF Sets!HasPermit
  <2>3. \A u \in SetThreads : Sets!HasPermit(u, o) => Sets!HasPermit(u, o)'
    <3>1. ASSUME o = p PROVE mOwner'[o] = t /\ Sets!HasPermit(t, o)
      BY <1>0, <2>1, <3>1 DEF ObjectTypes, Sets!HasPermit
    <3>2. ASSUME o # p PROVE mOwner'[o] = mOwner[o]
      BY <1>0, <2>1, <3>2 DEF ObjectTypes
    <3>3. /\ \A u \in SetThreads \ {t} : mTaken'[u] = mTaken[u]
          /\ mTaken'[t] = Tail(mTaken[t])
      BY <1>0, <2>1 DEF WaitTypes
    <3>4. CASE o = p
      BY <1>0, <3>1, <3>4 DEF SetPermit, Sets!HasPermit
    <3>5. CASE o # p
      BY <2>1, <3>2, <3>3, <3>5 DEF Sets!HasPermit
    <3> QED
      BY <3>4, <3>5
  <2>4. ASSUME NEW u \in SetThreads, mOwner'[o] = u,
               ~(mPc'[u] = "relClear" /\ mWake'[u].obj = o)
        PROVE  mRecursion'[o] >= 1
    <3>1. CASE o = p
      BY <1>0, <2>1, <3>1 DEF ObjectTypes
    <3>2. CASE o # p
      BY <1>0, <2>1, <2>4, <3>2 DEF ObjectTypes, SetPermit
    <3> QED
      BY <3>1, <3>2
  <2> QED
    BY <1>1, <2>1, <2>2, <2>3, <2>4
<1>5. ASSUME NEW t \in SetThreads, NEW p \in Objects, Sets!ReleaseMutant(t, p)
      PROVE  SetPermit(o)'
  <2>1. /\ mPc[t] = "guest" /\ mOwner[p] = t /\ mRecursion[p] >= 1
        /\ mRecursion' = [mRecursion EXCEPT ![p] = @ - 1]
        /\ UNCHANGED <<mFree, mOwner, mTaken>>
        /\ IF mRecursion[p] = 1
           THEN mPc' = [mPc EXCEPT ![t] = "relClear"] /\ mWake' = [mWake EXCEPT ![t].obj = p]
           ELSE UNCHANGED <<mPc, mWake>>
    BY <1>0, <1>5 DEF Sets!ReleaseMutant, Sets!Goto, Sets!waitVars, SetsInv, SetPermit
  <2>2. \A u \in SetThreads : Sets!HasPermit(u, o)' <=> Sets!HasPermit(u, o)
    BY <1>0, <2>1 DEF Sets!HasPermit, CallTypes, Sets!Actors, WakeAt
  <2>3. ASSUME NEW u \in SetThreads, mOwner'[o] = u,
               ~(mPc'[u] = "relClear" /\ mWake'[u].obj = o)
        PROVE  mRecursion'[o] >= 1
    <3>1. CASE o = p
      BY <1>0, <2>1, <2>3, <3>1 DEF ObjectTypes, CallTypes, Sets!Actors, WakeAt
    <3>2. CASE o # p
      <4>1. ~(mPc[u] = "relClear" /\ mWake[u].obj = o)
        BY <1>0, <2>1, <2>3, <3>2 DEF CallTypes, Sets!Actors, WakeAt
      <4> QED
        BY <1>0, <2>1, <2>3, <3>2, <4>1 DEF ObjectTypes, SetPermit
    <3> QED
      BY <3>1, <3>2
  <2> QED
    BY <1>1, <2>1, <2>2, <2>3
<1>6. ASSUME NEW t \in SetThreads, Sets!ClearOwner(t) PROVE SetPermit(o)'
  <2>1. /\ mPc[t] = "relClear" /\ mPc' = [mPc EXCEPT ![t] = "relFree"]
        /\ mOwner[mWake[t].obj] = t /\ mWake[t].obj \in Objects
        /\ mOwner' = [mOwner EXCEPT ![mWake[t].obj] = NoThread]
        /\ UNCHANGED <<mFree, mRecursion, mTaken, mWake>>
    BY <1>0, <1>6 DEF Sets!ClearOwner, Sets!Goto, Sets!waitVars, Sets!actVars, SetPlaces,
       SetPlace, Sets!Mutants
  <2>2. \A u \in SetThreads : Sets!HasPermit(u, o)' <=> Sets!HasPermit(u, o)
    BY <1>0, <2>1 DEF Sets!HasPermit, CallTypes, ObjectTypes
  <2>3. ASSUME NEW u \in SetThreads, mOwner'[o] = u,
               ~(mPc'[u] = "relClear" /\ mWake'[u].obj = o)
        PROVE  mRecursion'[o] >= 1
    BY <1>0, <2>1, <2>3 DEF ObjectTypes, CallTypes, SetPermit
  <2> QED
    BY <1>1, <2>1, <2>2, <2>3
<1>7. ASSUME NEW t \in SetThreads, Sets!FreeMutant(t) PROVE SetPermit(o)'
  <2>1. /\ mPc[t] = "relFree" /\ mPc' = [mPc EXCEPT ![t] = "guest"]
        /\ mOwner[mWake[t].obj] # t /\ mWake[t].obj \in Objects /\ mTaken[t] = <<>>
        /\ mFree' = [mFree EXCEPT ![mWake[t].obj] = 1]
        /\ UNCHANGED <<mOwner, mRecursion, mTaken>>
        /\ \A u \in SetThreads \ {t} : mWake'[u] = mWake[u]
    BY <1>0, <1>7 DEF Sets!FreeMutant, Sets!Goto, Sets!waitVars, SetPlaces, SetPlace,
       Sets!Mutants, Sets!Wakes, CallTypes, Sets!Actors
  <2>2. ASSUME NEW u \in SetThreads, mOwner'[o] = u,
               ~(mPc'[u] = "relClear" /\ mWake'[u].obj = o)
        PROVE  mRecursion'[o] >= 1
    <3>1. ~(mPc[u] = "relClear" /\ mWake[u].obj = o)
      BY <1>0, <2>1, <2>2 DEF CallTypes
    <3> QED
      BY <1>0, <2>1, <2>2, <3>1 DEF SetPermit
  <2>3. CASE o = mWake[t].obj
    <3>1. \A u \in SetThreads : Sets!HasPermit(u, o) => u = t
      BY <1>0, <2>1, <2>3 DEF SetPermit, Sets!HasPermit
    <3>2. \A u \in SetThreads : ~Sets!HasPermit(u, o)'
      BY <1>0, <2>1, <2>3, <3>1 DEF Sets!HasPermit, CallTypes, Sets!Elems
    <3> QED
      BY <1>0, <2>1, <2>2, <2>3, <3>2 DEF SetPermit, ObjectTypes
  <2>4. CASE o # mWake[t].obj
    <3>1. \A u \in SetThreads : Sets!HasPermit(u, o)' <=> Sets!HasPermit(u, o)
      BY <1>0, <2>1, <2>4 DEF Sets!HasPermit, CallTypes
    <3> QED
      BY <1>0, <1>1, <2>1, <2>2, <2>4, <3>1 DEF ObjectTypes
  <2> QED
    BY <2>3, <2>4
<1> QED
  BY <1>2, <1>3, <1>4, <1>5, <1>6, <1>7, MovesOrNot DEF Moves

\* Nobody takes a mutant from under its release.
LEMMA OwnerOfRelease ==
  ASSUME SetsInv, Sets!Next, NEW u \in SetThreads, Gives(u),
         ~Sets!ClearOwner(u)
  PROVE  mOwner'[mWake[u].obj] = mOwner[mWake[u].obj]
<1> DEFINE o == mWake[u].obj
<1>0. /\ ObjectTypes /\ WaitTypes /\ CallTypes /\ SetPlaces /\ o \in Sets!Mutants
      /\ SetPermit(o) /\ o \in Objects /\ Sets!HasPermit(u, o)
  BY DEF SetsInv, SetTypes, SetPlaces, SetPlace, Gives, Sets!Mutants, Sets!HasPermit
<1> HIDE DEF o
<1>1. CASE Elsewhere
  BY <1>1 DEF Elsewhere
<1>2. ASSUME NEW t \in SetThreads, Sets!WaitCallback(t) PROVE mOwner'[o] = mOwner[o]
  <2>1. mPc[t] = "callback" /\ Head(mTaken[t]) \in Sets!Elems(mTaken[t])
    BY <1>0, <1>2 DEF Sets!WaitCallback, WaitTypes, Sets!Elems
  <2>2. o # Head(mTaken[t])
    BY <1>0, <2>1 DEF SetPermit, Sets!HasPermit, Gives
  <2> QED
    BY <1>0, <1>2, <2>2 DEF Sets!WaitCallback, ObjectTypes
<1>3. ASSUME NEW t \in SetThreads \ {u}, Sets!ClearOwner(t) PROVE mOwner'[o] = mOwner[o]
  <2>1. mWake[t].obj # o
    BY <1>0, <1>3 DEF Sets!ClearOwner, SetPermit, Sets!HasPermit
  <2> QED
    BY <1>0, <1>3, <2>1 DEF Sets!ClearOwner, ObjectTypes
<1>4. ASSUME NEW t \in SetThreads,
             \/ Sets!Acquire(t) \/ Sets!FreeMutant(t)
             \/ \E p \in Objects : Sets!ReleaseMutant(t, p)
      PROVE  mOwner' = mOwner
  BY <1>4 DEF Sets!Acquire, Sets!FreeMutant, Sets!ReleaseMutant
<1> QED
  BY <1>1, <1>2, <1>3, <1>4, MovesOrNot DEF Moves, o

\* The places of the fibers and callers that a step is not about, and of the one it is.
LEMMA PlacesKeep ==
  ASSUME SetsInv, Sets!Next PROVE SetPlaces'
<1>0. /\ ObjectTypes /\ WaitTypes /\ SchedTypes /\ CallTypes /\ SetPlaces
      /\ SetThreads \cap Callers = {} /\ NoThread \notin SetThreads
      /\ Sets!NoWake.step = "none"
  BY SetsOK DEF SetsInv, SetTypes, Sets!MultiWaitAssumption, Sets!NoWake
<1>1. ASSUME NEW u \in SetThreads, mPc'[u] = mPc[u], mWait'[u] = mWait[u],
             mTaken'[u] = mTaken[u], Gives(u) => mWake'[u] = mWake[u],
             u \in mBlocked' => u \in mBlocked, ~Sets!ClearOwner(u)
      PROVE  SetPlace(u)'
  BY <1>0, <1>1, OwnerOfRelease DEF SetPlaces, SetPlace, Gives
<1>2. ASSUME NEW k \in Callers, mPulsing'[k] = mPulsing[k],
             mPulsing[k].how # "none" => mWake'[k] = mWake[k]
      PROVE  PulsePlace(k)'
  BY <1>0, <1>2 DEF SetPlaces, PulsePlace, Sets!NoWake, Sets!Events
<1>3. ASSUME NEW t \in SetThreads, SetPlace(t)',
             \A u \in SetThreads \ {t} :
               /\ mPc'[u] = mPc[u] /\ mWait'[u] = mWait[u] /\ mTaken'[u] = mTaken[u]
               /\ mWake'[u] = mWake[u] /\ (u \in mBlocked' => u \in mBlocked)
               /\ ~Sets!ClearOwner(u),
             \A k \in Callers : mPulsing'[k] = mPulsing[k] /\ mWake'[k] = mWake[k]
      PROVE  SetPlaces'
  BY <1>1, <1>2, <1>3 DEF SetPlaces
<1>4. ASSUME NEW t \in SetThreads,
             \/ Sets!SampleEpoch(t) \/ Sets!Interrupt(t) \/ Sets!Released(t)
             \/ Sets!Acquire(t) \/ Sets!CallbacksDone(t) \/ Sets!PollFails(t)
             \/ Sets!CompareEpoch(t) \/ Sets!LinkBlocked(t) \/ Sets!Preempt(t)
             \/ Sets!Dispatch(t) \/ \E w \in Waits : Sets!StartWait(t, w)
      PROVE  SetPlaces'
  <2>1. /\ mPc' = [mPc EXCEPT ![t] = mPc'[t]]
        /\ mWait' = [mWait EXCEPT ![t] = mWait'[t]]
        /\ mTaken' = [mTaken EXCEPT ![t] = mTaken'[t]]
        /\ UNCHANGED <<mOwner, mWake, mPulsing>>
        /\ mBlocked' = mBlocked \/ (mBlocked' = mBlocked \cup {t} /\ mPc'[t] = "parked")
    BY <1>0, <1>4 DEF Sets!SampleEpoch, Sets!Interrupt, Sets!Released, Sets!Acquire,
       Sets!CallbacksDone, Sets!PollFails, Sets!CompareEpoch, Sets!LinkBlocked, Sets!Preempt,
       Sets!Dispatch, Sets!StartWait, Sets!Goto, Sets!objVars, Sets!waitVars, Sets!actVars,
       Sets!schedVars, CallTypes, WaitTypes
  <2>2. /\ mPc'[t] \notin {"guest", "relClear", "relFree"} => mWait'[t] \in Waits
        /\ mPc'[t] # "callback" => mTaken'[t] = <<>>
        /\ mPc'[t] = mPc[t] \/ ~Gives(t)'
        /\ t \in mBlocked => mPc'[t] = mPc[t]
    BY <1>0, <1>4 DEF Sets!SampleEpoch, Sets!Interrupt, Sets!Released, Sets!Acquire,
       Sets!CallbacksDone, Sets!PollFails, Sets!CompareEpoch, Sets!LinkBlocked, Sets!Preempt,
       Sets!Dispatch, Sets!StartWait, Sets!Goto, Sets!waitVars, CallTypes, WaitTypes,
       SetPlaces, SetPlace, Gives
  <2>3. SetPlace(t)'
    BY <1>0, <2>1, <2>2 DEF SetPlaces, SetPlace, Gives
  <2>4. \A u \in SetThreads : ~Sets!ClearOwner(u)
    <3>1. ASSUME NEW u \in SetThreads, Sets!ClearOwner(u) PROVE FALSE
      <4>1. mOwner[mWake[u].obj] = u /\ mOwner'[mWake[u].obj] = NoThread
        BY <1>0, <3>1 DEF Sets!ClearOwner, SetPlaces, SetPlace, ObjectTypes, Sets!Mutants
      <4> QED
        BY <1>0, <2>1, <4>1
    <3> QED
      BY <3>1
  <2> QED
    BY <1>0, <1>3, <2>1, <2>3, <2>4 DEF CallTypes, WaitTypes
<1>5. ASSUME NEW t \in SetThreads,
             \/ Sets!WaitCallback(t) \/ Sets!Leave(t) \/ Sets!FreeMutant(t)
             \/ Sets!ClearOwner(t) \/ \E o \in Objects : Sets!ReleaseMutant(t, o)
      PROVE  SetPlaces'
  <2>1. /\ mPc' = [mPc EXCEPT ![t] = mPc'[t]]
        /\ mWait' = [mWait EXCEPT ![t] = mWait'[t]]
        /\ mTaken' = [mTaken EXCEPT ![t] = mTaken'[t]]
        /\ UNCHANGED <<mBlocked, mPulsing>>
        /\ \A b \in Sets!Actors \ {t} : mWake'[b] = mWake[b]
    BY <1>0, <1>5 DEF Sets!WaitCallback, Sets!Leave, Sets!FreeMutant, Sets!ClearOwner,
       Sets!ReleaseMutant, Sets!Goto, Sets!Wakes, Sets!NextCallback, Sets!waitVars,
       Sets!actVars, Sets!schedVars, CallTypes, WaitTypes
  <2>2. mPc[t] \in {"callback", "leave", "relFree", "relClear", "guest"} /\ t \notin mBlocked
    BY <1>0, <1>5 DEF Sets!WaitCallback, Sets!Leave, Sets!FreeMutant, Sets!ClearOwner,
       Sets!ReleaseMutant, SetPlaces, SetPlace
  <2>3. SetPlace(t)'
    <3>1. CASE Sets!WaitCallback(t)
      BY <1>0, <2>1, <2>2, <3>1 DEF Sets!WaitCallback, SetPlaces, SetPlace
    <3>2. CASE Sets!Leave(t) \/ Sets!FreeMutant(t)
      <4>1. mPc'[t] = "guest" /\ mTaken'[t] = <<>>
        BY <1>0, <3>2 DEF Sets!Leave, Sets!FreeMutant, Sets!Goto, Sets!waitVars, CallTypes,
           SetPlaces, SetPlace
      <4> QED
        BY <2>1, <2>2, <4>1 DEF SetPlace
    <3>3. CASE Sets!ClearOwner(t)
      <4>1. /\ mPc[t] = "relClear" /\ mPc'[t] = "relFree" /\ mTaken'[t] = <<>>
            /\ mWake[t].obj \in Sets!Mutants /\ mWake[t].step = "none" /\ mWake' = mWake
            /\ mOwner'[mWake[t].obj] = NoThread
        BY <1>0, <3>3 DEF Sets!ClearOwner, Sets!Goto, Sets!waitVars, Sets!actVars, CallTypes,
           ObjectTypes, SetPlaces, SetPlace, Sets!Mutants
      <4> QED
        BY <1>0, <2>1, <2>2, <4>1 DEF SetPlace
    <3>4. ASSUME NEW o \in Objects, Sets!ReleaseMutant(t, o) PROVE SetPlace(t)'
      <4>1. /\ mPc[t] = "guest" /\ mTaken'[t] = <<>> /\ o \in Sets!Mutants /\ mOwner'[o] = t
            /\ mPc'[t] \in {"guest", "relClear"} /\ t \in Sets!Actors
            /\ mPc'[t] = "relClear" => mWake' = [mWake EXCEPT ![t].obj = o]
            /\ mWake[t].step = "none"
        BY <1>0, <3>4 DEF Sets!ReleaseMutant, Sets!Runs, Sets!Goto, Sets!waitVars, CallTypes,
           SetPlaces, SetPlace, Sets!Actors
      <4>2. mPc'[t] = "relClear" => mWake'[t].step = "none" /\ mWake'[t].obj = o
        BY <1>0, <4>1 DEF CallTypes, WakeAt
      <4> QED
        BY <2>1, <2>2, <4>1, <4>2 DEF SetPlace
    <3> QED
      BY <1>5, <3>1, <3>2, <3>3, <3>4
  <2>4. \A u \in SetThreads \ {t} : ~Sets!ClearOwner(u)
    BY <1>0, <2>1 DEF Sets!ClearOwner, Sets!Goto, CallTypes
  <2> QED
    BY <1>0, <1>3, <2>1, <2>3, <2>4 DEF CallTypes, WaitTypes, Sets!Actors
<1>6. ASSUME NEW a \in Sets!Actors, Sets!WakeStep(a) PROVE SetPlaces'
  <2>1. /\ UNCHANGED <<mPc, mWait, mTaken, mPulsing, mBlocked>> /\ mWake[a].step # "none"
        /\ \A b \in Sets!Actors \ {a} : mWake'[b] = mWake[b]
    BY <1>0, <1>6 DEF Sets!WakeStep, Sets!Bump, Sets!Filter, Sets!Walk, Sets!waitVars,
       Sets!schedVars, CallTypes
  <2>2. \A u \in SetThreads : (Gives(u) => mWake'[u] = mWake[u]) /\ ~Sets!ClearOwner(u)
    <3>1. \A u \in SetThreads : Gives(u) => u # a
      BY <1>0, <2>1 DEF Gives, SetPlaces, SetPlace
    <3>2. \A u \in SetThreads : ~Sets!ClearOwner(u)
      BY <1>0, <2>1 DEF Sets!ClearOwner, Sets!Goto, CallTypes
    <3> QED
      BY <2>1, <3>1, <3>2 DEF Sets!Actors
  <2>3. \A k \in Callers : mPulsing[k].how # "none" => mWake'[k] = mWake[k]
    BY <1>0, <2>1 DEF SetPlaces, PulsePlace, Sets!Actors
  <2> QED
    BY <1>1, <1>2, <2>1, <2>2, <2>3 DEF SetPlaces
<1>7. ASSUME NEW c \in Cpus, Sets!Repoll(c) \/ Sets!Backstop(c) PROVE SetPlaces'
  <2>1. /\ UNCHANGED <<mPc, mWait, mTaken, mPulsing, mWake>> /\ mBlocked' \subseteq mBlocked
    BY <1>7 DEF Sets!Repoll, Sets!Backstop, Sets!Reready, Sets!waitVars, Sets!actVars
  <2>2. \A u \in SetThreads : ~Sets!ClearOwner(u)
    BY <1>0, <2>1 DEF Sets!ClearOwner, Sets!Goto, CallTypes
  <2> QED
    BY <1>1, <1>2, <2>1, <2>2 DEF SetPlaces
<1>8. ASSUME NEW k \in Callers,
             \/ Sets!OpenPulse(k) \/ Sets!EndPulse(k)
             \/ \E o \in Objects : Sets!Signal(k, o) \/ Sets!Reset(k, o) \/ Sets!Pulse(k, o)
      PROVE  SetPlaces'
  <2>1. /\ UNCHANGED <<mPc, mWait, mTaken, mBlocked>> /\ k \in Sets!Actors
        /\ mPulsing' = [mPulsing EXCEPT ![k] = mPulsing'[k]]
        /\ \A b \in Sets!Actors \ {k} : mWake'[b] = mWake[b]
    BY <1>0, <1>8 DEF Sets!OpenPulse, Sets!EndPulse, Sets!Signal, Sets!Reset, Sets!Pulse,
       Sets!Wakes, Sets!waitVars, Sets!actVars, Sets!schedVars, CallTypes, Sets!Actors
  <2>2. \A u \in SetThreads : ~Sets!ClearOwner(u) /\ mWake'[u] = mWake[u]
    BY <1>0, <2>1 DEF Sets!ClearOwner, Sets!Goto, CallTypes, Sets!Actors
  <2>3. PulsePlace(k)'
    <3>1. CASE Sets!OpenPulse(k)
      BY <1>0, <3>1 DEF Sets!OpenPulse, SetPlaces, PulsePlace, CallTypes, PulseAt, Sets!Events,
         Sets!NoWake
    <3>2. CASE Sets!EndPulse(k)
      BY <1>0, <3>2 DEF Sets!EndPulse, PulsePlace, CallTypes, Sets!Quiet
    <3>3. ASSUME NEW o \in Objects, Sets!Signal(k, o) \/ Sets!Reset(k, o) PROVE PulsePlace(k)'
      BY <3>3 DEF Sets!Signal, Sets!Reset, PulsePlace, Sets!Idle, Sets!Quiet, Sets!actVars
    <3>4. ASSUME NEW o \in Objects, Sets!Pulse(k, o) PROVE PulsePlace(k)'
      BY <1>0, <3>4 DEF Sets!Pulse, PulsePlace, Sets!Idle, CallTypes, PulseAt, Sets!NoWake,
         Sets!Events
    <3> QED
      BY <1>8, <3>1, <3>2, <3>3, <3>4
  <2>4. \A j \in Callers \ {k} : mPulsing'[j] = mPulsing[j] /\ mWake'[j] = mWake[j]
    BY <1>0, <2>1 DEF CallTypes, Sets!Actors
  <2> QED
    BY <1>1, <1>2, <2>1, <2>2, <2>3, <2>4 DEF SetPlaces
<1> QED
  BY <1>4, <1>5, <1>6, <1>7, <1>8
     DEF Sets!Next, Sets!KernelStep, Sets!GuestStep, Sets!CallerStep, Sets!NewCall, Sets!Actors

\* A fiber is where its gate matters: its poll failed and it has not polled again.
AtGate(t) == mPc[t] \in {"park", "link", "parked"}

\* It gets there by a poll that fails; until it leaves, it is in the same wait and the gate
\* that moved stays so.
LEMMA GateEntered ==
  ASSUME SetsInv, Sets!Next, NEW t \in SetThreads, AtGate(t)'
  PROVE  \/ Sets!PollFails(t)
         \/ AtGate(t) /\ mWait'[t] = mWait[t] /\ (mMoved[t] => mMoved'[t])
<1> USE DEF AtGate, Sets!Goto
<1>0. WaitTypes /\ CallTypes /\ SetPlaces
  BY DEF SetsInv, SetTypes
<1> SUFFICES ASSUME ~Sets!PollFails(t)
             PROVE  AtGate(t) /\ mWait'[t] = mWait[t] /\ (mMoved[t] => mMoved'[t])
  OBVIOUS
<1>1. ASSUME NEW u \in SetThreads,
             \/ Sets!Interrupt(u) \/ Sets!Released(u) \/ Sets!Acquire(u)
             \/ Sets!WaitCallback(u) \/ Sets!CallbacksDone(u) \/ Sets!PollFails(u)
             \/ Sets!CompareEpoch(u) \/ Sets!LinkBlocked(u) \/ Sets!ClearOwner(u)
             \/ Sets!FreeMutant(u) \/ Sets!Preempt(u) \/ Sets!Dispatch(u)
             \/ \E o \in Objects : Sets!ReleaseMutant(u, o)
      PROVE  AtGate(t) /\ mWait'[t] = mWait[t] /\ (mMoved[t] => mMoved'[t])
  <2>1. UNCHANGED <<mWait, mMoved>>
    BY <1>1 DEF Sets!Interrupt, Sets!Released, Sets!Acquire, Sets!WaitCallback,
       Sets!CallbacksDone, Sets!PollFails, Sets!CompareEpoch, Sets!LinkBlocked,
       Sets!ClearOwner, Sets!FreeMutant, Sets!Preempt, Sets!Dispatch, Sets!ReleaseMutant,
       Sets!waitVars
  <2>2. AtGate(t)
    BY <1>0, <1>1 DEF Sets!Interrupt, Sets!Released, Sets!Acquire, Sets!WaitCallback,
       Sets!CallbacksDone, Sets!PollFails, Sets!CompareEpoch, Sets!LinkBlocked,
       Sets!ClearOwner, Sets!FreeMutant, Sets!Preempt, Sets!Dispatch, Sets!ReleaseMutant,
       CallTypes
  <2> QED
    BY <2>1, <2>2
<1>2. ASSUME NEW u \in SetThreads,
             \/ Sets!SampleEpoch(u) \/ Sets!Leave(u) \/ \E w \in Waits : Sets!StartWait(u, w)
      PROVE  AtGate(t) /\ mWait'[t] = mWait[t] /\ (mMoved[t] => mMoved'[t])
  <2>1. AtGate(t) /\ u # t
    BY <1>0, <1>2 DEF Sets!SampleEpoch, Sets!Leave, Sets!StartWait, CallTypes
  <2>2. mWait'[t] = mWait[t] /\ mMoved'[t] = mMoved[t]
    BY <1>0, <1>2, <2>1 DEF Sets!SampleEpoch, Sets!Leave, Sets!StartWait, WaitTypes
  <2> QED
    BY <2>1, <2>2
<1>3. ASSUME NEW a \in Sets!Actors, Sets!WakeStep(a)
      PROVE  AtGate(t) /\ mWait'[t] = mWait[t] /\ (mMoved[t] => mMoved'[t])
  <2>1. UNCHANGED <<mWait, mPc>>
    BY <1>3 DEF Sets!WakeStep, Sets!Bump, Sets!Filter, Sets!Walk, Sets!waitVars
  <2>2. CASE Sets!Bump(a)
    <3>1. mMoved[t] => mMoved'[t]
      BY <2>2, Zenon DEF Sets!Bump
    <3> QED
      BY <2>1, <3>1
  <2>3. CASE Sets!Filter(a) \/ Sets!Walk(a)
    BY <2>1, <2>3 DEF Sets!Filter, Sets!Walk, Sets!waitVars
  <2> QED
    BY <1>3, <2>2, <2>3 DEF Sets!WakeStep
<1>4. ASSUME \/ \E c \in Cpus : Sets!Repoll(c) \/ Sets!Backstop(c)
             \/ \E k \in Callers : \/ Sets!OpenPulse(k) \/ Sets!EndPulse(k)
                                   \/ \E o \in Objects : \/ Sets!Signal(k, o)
                                                         \/ Sets!Reset(k, o)
                                                         \/ Sets!Pulse(k, o)
      PROVE  AtGate(t) /\ mWait'[t] = mWait[t] /\ (mMoved[t] => mMoved'[t])
  BY <1>4 DEF Sets!Repoll, Sets!Backstop, Sets!Reready, Sets!OpenPulse, Sets!EndPulse,
     Sets!Signal, Sets!Reset, Sets!Pulse, Sets!waitVars
<1> HIDE DEF AtGate, Sets!Goto
<1> QED
  BY <1>1, <1>2, <1>3, <1>4
     DEF Sets!Next, Sets!KernelStep, Sets!GuestStep, Sets!CallerStep, Sets!NewCall, Sets!Actors

\* A bump that is due is done: nothing else is written over it.
LEMMA BumpStays ==
  ASSUME SetsInv, Sets!Next, NEW a \in Sets!Actors, mWake[a].step = "bump"
  PROVE  mWake'[a] = mWake[a] \/ Sets!Bump(a)
<1>0. /\ CallTypes /\ SetPlaces /\ Sets!NoWake.step = "none"
      /\ SetThreads \subseteq Sets!Actors /\ Callers \subseteq Sets!Actors
  BY DEF SetsInv, SetTypes, Sets!NoWake, Sets!Actors
<1>1. ASSUME NEW b \in Sets!Actors, Sets!WakeStep(b)
      PROVE  mWake'[a] = mWake[a] \/ Sets!Bump(a)
  BY <1>0, <1>1 DEF Sets!WakeStep, Sets!Bump, Sets!Filter, Sets!Walk, CallTypes
<1>2. ASSUME NEW b \in Sets!Actors, mWake[b].step = "none", NEW w,
             mWake' = mWake \/ mWake' = [mWake EXCEPT ![b] = w]
      PROVE  mWake'[a] = mWake[a]
  BY <1>0, <1>2 DEF CallTypes
<1>3. ASSUME NEW u \in SetThreads,
             \/ Sets!Leave(u) \/ Sets!FreeMutant(u)
             \/ \E o \in Objects : Sets!ReleaseMutant(u, o)
      PROVE  mWake'[a] = mWake[a]
  <2>1. mWake[u].step = "none"
    BY <1>0, <1>3 DEF Sets!Leave, Sets!FreeMutant, Sets!ReleaseMutant, Sets!Runs,
       Sets!Releasing
  <2>2. \E w : mWake' = mWake \/ mWake' = [mWake EXCEPT ![u] = w]
    BY <1>3 DEF Sets!Leave, Sets!FreeMutant, Sets!ReleaseMutant, Sets!Wakes
  <2> QED
    BY <1>0, <1>2, <2>1, <2>2
<1>4. ASSUME NEW k \in Callers,
             Sets!EndPulse(k) \/ \E o \in Objects : Sets!Signal(k, o)
      PROVE  mWake'[a] = mWake[a]
  <2>1. mWake[k].step = "none"
    BY <1>0, <1>4 DEF Sets!EndPulse, Sets!Signal, Sets!Idle, SetPlaces, PulsePlace
  <2>2. \E w : mWake' = mWake \/ mWake' = [mWake EXCEPT ![k] = w]
    BY <1>4 DEF Sets!EndPulse, Sets!Signal, Sets!Wakes
  <2> QED
    BY <1>0, <1>2, <2>1, <2>2
<1>5. ASSUME NEW u \in SetThreads,
             \/ Sets!SampleEpoch(u) \/ Sets!Interrupt(u) \/ Sets!Released(u)
             \/ Sets!Acquire(u) \/ Sets!WaitCallback(u) \/ Sets!CallbacksDone(u)
             \/ Sets!PollFails(u) \/ Sets!CompareEpoch(u) \/ Sets!LinkBlocked(u)
             \/ Sets!ClearOwner(u) \/ Sets!Preempt(u) \/ Sets!Dispatch(u)
             \/ \E w \in Waits : Sets!StartWait(u, w)
      PROVE  mWake' = mWake
  BY <1>5 DEF Sets!SampleEpoch, Sets!Interrupt, Sets!Released, Sets!Acquire,
     Sets!WaitCallback, Sets!CallbacksDone, Sets!PollFails, Sets!CompareEpoch,
     Sets!LinkBlocked, Sets!ClearOwner, Sets!Preempt, Sets!Dispatch, Sets!StartWait,
     Sets!actVars
<1>6. ASSUME \/ \E c \in Cpus : Sets!Repoll(c) \/ Sets!Backstop(c)
             \/ \E k \in Callers : \/ Sets!OpenPulse(k)
                                   \/ \E o \in Objects : Sets!Reset(k, o) \/ Sets!Pulse(k, o)
      PROVE  mWake' = mWake
  BY <1>6 DEF Sets!Repoll, Sets!Backstop, Sets!Reready, Sets!OpenPulse, Sets!Reset,
     Sets!Pulse, Sets!actVars
<1> QED
  BY <1>0, <1>1, <1>3, <1>4, <1>5, <1>6
     DEF Sets!Next, Sets!KernelStep, Sets!GuestStep, Sets!CallerStep, Sets!NewCall

\* What signals an object of a gated wait, or ends a pulse of it, bumps its epoch next.
LEMMA SignalBumps ==
  ASSUME SetsInv, Sets!Next, NEW t \in SetThreads, AtGate(t), AtGate(t)',
         NEW o \in Objects, Sets!Gateable(o), Sets!StateLockFree(o)',
         ~Sets!StateLockFree(o) \/ (Sets!Signaled(t, o)' /\ ~Sets!Signaled(t, o))
  PROVE  \E a \in Sets!Actors : mWake'[a] = [step |-> "bump", obj |-> o]
<1> USE DEF Sets!Signaled, Sets!Reentered, Sets!StateLockFree
<1>0. /\ ObjectTypes /\ WaitTypes /\ CallTypes /\ SetPlaces
      /\ SetThreads \subseteq Sets!Actors /\ Callers \subseteq Sets!Actors
      /\ NoThread \notin SetThreads
  BY SetsOK DEF SetsInv, SetTypes, Sets!Actors, Sets!MultiWaitAssumption
<1>1. ASSUME mFree'[o] = mFree[o], mOwner'[o] = mOwner[o], UNCHANGED mPulsing PROVE FALSE
  BY <1>1
<1>2. ASSUME NEW a \in Sets!Actors, Sets!Wakes(a, o)
      PROVE  \E b \in Sets!Actors : mWake'[b] = [step |-> "bump", obj |-> o]
  BY <1>0, <1>2 DEF Sets!Wakes, CallTypes
<1>3. ASSUME NEW k \in Callers, NEW p \in Objects, Sets!Signal(k, p)
      PROVE  \E b \in Sets!Actors : mWake'[b] = [step |-> "bump", obj |-> o]
  <2>1. p = o
    BY <1>0, <1>1, <1>3 DEF Sets!Signal, ObjectTypes
  <2> QED
    BY <1>0, <1>2, <1>3, <2>1 DEF Sets!Signal
<1>4. ASSUME NEW k \in Callers, NEW p \in Objects, Sets!Reset(k, p) \/ Sets!Pulse(k, p)
      PROVE  FALSE
  <2>1. mOwner' = mOwner /\ mFree'[o] \in Nat /\ mFree'[o] <= mFree[o]
    BY <1>0, <1>4 DEF Sets!Reset, Sets!Pulse, Sets!objVars, ObjectTypes
  <2>2. \A j \in Callers : mPulsing'[j] = mPulsing[j] \/ (j = k /\ mPulsing[j].how = "none")
    BY <1>0, <1>4 DEF Sets!Reset, Sets!Pulse, Sets!actVars, CallTypes, Sets!Idle, Sets!Quiet
  <2>3. Sets!StateLockFree(o)
    BY <2>2
  <2> QED
    BY <1>0, <2>1, <2>3 DEF ObjectTypes
<1>5. ASSUME NEW k \in Callers, Sets!EndPulse(k)
      PROVE  \E b \in Sets!Actors : mWake'[b] = [step |-> "bump", obj |-> o]
  <2>1. mPulsing[k].obj = o
    <3>1. SUFFICES ASSUME mPulsing[k].obj # o PROVE FALSE
      OBVIOUS
    <3>2. mFree'[o] = mFree[o] /\ mOwner' = mOwner
      BY <1>0, <1>5, <3>1 DEF Sets!EndPulse, ObjectTypes
    <3>3. \A j \in Callers : mPulsing'[j] = mPulsing[j] \/ mPulsing[j].obj # o
      BY <1>0, <1>5, <3>1 DEF Sets!EndPulse, CallTypes
    <3> QED
      BY <3>2, <3>3
  <2> QED
    BY <1>0, <1>2, <1>5, <2>1 DEF Sets!EndPulse
<1>6. ASSUME NEW k \in Callers, Sets!OpenPulse(k) PROVE FALSE
  <2>1. mPulsing'[k] = [how |-> "open", obj |-> mPulsing[k].obj]
    BY <1>0, <1>6 DEF Sets!OpenPulse, CallTypes, PulseAt
  <2>2. mPulsing[k].obj # o
    BY <2>1
  <2>3. mFree'[o] = mFree[o] /\ mOwner' = mOwner
    BY <1>0, <1>6, <2>2 DEF Sets!OpenPulse, ObjectTypes
  <2>4. \A j \in Callers : mPulsing'[j] = mPulsing[j] \/ mPulsing[j].obj # o
    BY <1>0, <1>6, <2>2 DEF Sets!OpenPulse, CallTypes
  <2> QED
    BY <2>3, <2>4
<1>7. ASSUME NEW u \in SetThreads, Sets!FreeMutant(u)
      PROVE  \E b \in Sets!Actors : mWake'[b] = [step |-> "bump", obj |-> o]
  <2>1. mWake[u].obj = o
    BY <1>0, <1>1, <1>7 DEF Sets!FreeMutant, ObjectTypes
  <2> QED
    BY <1>0, <1>2, <1>7, <2>1 DEF Sets!FreeMutant
<1>8. ASSUME NEW u \in SetThreads, Sets!WaitCallback(u) \/ Sets!ClearOwner(u)
      PROVE  FALSE
  <2>1. u # t
    BY <1>0, <1>8 DEF Sets!WaitCallback, Sets!ClearOwner, AtGate
  <2>2. mOwner'[o] = mOwner[o] \/ mOwner'[o] \in {u, NoThread}
    BY <1>0, <1>8 DEF Sets!WaitCallback, Sets!ClearOwner, ObjectTypes
  <2>3. mFree' = mFree /\ mPulsing' = mPulsing
    BY <1>8 DEF Sets!WaitCallback, Sets!ClearOwner, Sets!actVars
  <2> QED
    BY <1>0, <2>1, <2>2, <2>3
<1>9. ASSUME NEW u \in SetThreads, Sets!Acquire(u) PROVE FALSE
  <2>1. /\ mOwner' = mOwner /\ mPulsing' = mPulsing
        /\ mFree'[o] \in Nat /\ mFree'[o] <= mFree[o]
    BY <1>0, <1>9 DEF Sets!Acquire, Sets!actVars, ObjectTypes
  <2> QED
    BY <1>0, <2>1 DEF ObjectTypes
<1>10. ASSUME NEW u \in SetThreads,
              \/ Sets!SampleEpoch(u) \/ Sets!Interrupt(u) \/ Sets!Released(u)
              \/ Sets!CallbacksDone(u) \/ Sets!PollFails(u) \/ Sets!CompareEpoch(u)
              \/ Sets!LinkBlocked(u) \/ Sets!Preempt(u) \/ Sets!Dispatch(u) \/ Sets!Leave(u)
              \/ \E w \in Waits : Sets!StartWait(u, w)
              \/ \E p \in Objects : Sets!ReleaseMutant(u, p)
       PROVE  FALSE
  BY <1>1, <1>10 DEF Sets!SampleEpoch, Sets!Interrupt, Sets!Released, Sets!CallbacksDone,
     Sets!PollFails, Sets!CompareEpoch, Sets!LinkBlocked, Sets!Preempt, Sets!Dispatch,
     Sets!Leave, Sets!StartWait, Sets!ReleaseMutant, Sets!objVars, Sets!actVars
<1>11. ASSUME NEW c \in Cpus, Sets!Repoll(c) \/ Sets!Backstop(c) PROVE FALSE
  BY <1>1, <1>11 DEF Sets!Repoll, Sets!Backstop, Sets!Reready, Sets!objVars, Sets!actVars
<1>12. ASSUME NEW a \in Sets!Actors, Sets!WakeStep(a) PROVE FALSE
  BY <1>1, <1>12 DEF Sets!WakeStep, Sets!Bump, Sets!Filter, Sets!Walk, Sets!objVars
<1> HIDE DEF Sets!Signaled, Sets!Reentered, Sets!StateLockFree
<1> QED
  BY <1>0, <1>3, <1>4, <1>5, <1>6, <1>7, <1>8, <1>9, <1>10, <1>11, <1>12
     DEF Sets!Next, Sets!KernelStep, Sets!GuestStep, Sets!CallerStep, Sets!NewCall

\* The gates, with every step.
LEMMA GatesKeep ==
  ASSUME SetsInv, Sets!Next, NEW t \in SetThreads PROVE SetGate(t)'
<1> SUFFICES ASSUME AtGate(t)', ~Sets!Single(t)', Sets!Gated(t)', Sets!Satisfied(t)',
                    Settled(t)', ~BumpComes(t)'
             PROVE  mMoved'[t]
  BY DEF SetGate, AtGate
<1>0. CallTypes /\ SetPlaces /\ SetGate(t)
  BY DEF SetsInv, SetTypes
<1>1. CASE Sets!PollFails(t)
  <2>1. UNCHANGED <<mWait, mFree, mOwner, mFifo>> /\ ~Sets!Satisfied(t)
    BY <1>1 DEF Sets!PollFails, Sets!objVars, Sets!waitVars
  <2>2. Sets!Satisfied(t)' <=> Sets!Satisfied(t)
    BY <2>1 DEF Sets!Satisfied, Sets!Waited, Sets!First, Sets!MayAcquire, Sets!Signaled,
       Sets!Reentered
  <2> QED
    BY <2>1, <2>2
<1>2. CASE AtGate(t) /\ mWait'[t] = mWait[t] /\ (mMoved[t] => mMoved'[t])
  <2>1. mWait[t] \in Waits /\ Sets!Waited(t) \subseteq Objects
    BY <1>0, <1>2, WaitedIn DEF SetPlaces, SetPlace, AtGate, Sets!Waited, Sets!Elems
  <2>2. /\ Sets!Waited(t)' = Sets!Waited(t) /\ ~Sets!Single(t) /\ Sets!Gated(t)
    BY <1>2 DEF Sets!Waited, Sets!Single, Sets!Gated
  <2>3. \A o \in Sets!Waited(t) :
          Sets!StateLockFree(o) /\ (Sets!Signaled(t, o)' => Sets!Signaled(t, o))
    <3> SUFFICES ASSUME NEW o \in Sets!Waited(t),
                        \/ ~Sets!StateLockFree(o)
                        \/ Sets!Signaled(t, o)' /\ ~Sets!Signaled(t, o)
                 PROVE  FALSE
      OBVIOUS
    <3>1. o \in Objects /\ Sets!Gateable(o) /\ Sets!StateLockFree(o)'
      BY <2>1, <2>2 DEF Settled, Sets!Gated
    <3>2. PICK a \in Sets!Actors : mWake'[a] = [step |-> "bump", obj |-> o]
      BY <1>2, <3>1, SignalBumps
    <3>3. BumpComes(t)'
      BY <2>2, <3>2 DEF BumpComes
    <3> QED
      BY <3>3
  <2>4. Sets!Satisfied(t)
    <3>1. CASE mWait[t].shape = "any"
      BY <1>2, <2>2, <2>3, <3>1 DEF Sets!Satisfied
    <3>2. CASE mWait[t].shape = "all"
      BY <1>2, <2>2, <2>3, <3>2 DEF Sets!Satisfied
    <3> QED
      BY <2>1, <2>2, <3>1, <3>2, WaitedIn DEF Sets!Single
  <2>5. Settled(t)
    BY <2>3 DEF Settled
  <2>6. mMoved[t] \/ BumpComes(t)
    BY <1>0, <1>2, <2>2, <2>4, <2>5 DEF SetGate, AtGate
  <2>7. ASSUME BumpComes(t) PROVE mMoved'[t]
    <3> PICK a \in Sets!Actors : mWake[a].step = "bump" /\ mWake[a].obj \in Sets!Waited(t)
      BY <2>7 DEF BumpComes
    <3>1. ~(mWake'[a] = mWake[a])
      BY <2>2 DEF BumpComes
    <3>2. Sets!Bump(a)
      BY <3>1, BumpStays
    <3>3. Sets!Sampled(t)
      BY <1>2 DEF AtGate, Sets!Sampled
    <3> QED
      BY <3>2, <3>3, Zenon DEF Sets!Bump
  <2> QED
    BY <1>2, <2>6, <2>7
<1> QED
  BY <1>1, <1>2, GateEntered

\* Each step of either model preserves the invariant.
LEMMA SetsStep ==
  ASSUME SetsInv, [MCNext]_<<model, vars, mVars>> PROVE SetsInv'
<1>1. CASE Sets!Next
  <2>1. SetTypes'
    BY <1>1, ObjectTypesKeep, WaitTypesKeep, SchedTypesKeep, CallTypesKeep DEF SetTypes
  <2>2. \A o \in Sets!Mutants : SetPermit(o)'
    BY <1>1, PermitsKeep
  <2>3. \A t \in SetThreads : SetGate(t)'
    BY <1>1, GatesKeep
  <2>4. SetPlaces'
    BY <1>1, PlacesKeep
  <2> QED
    BY <2>1, <2>2, <2>3, <2>4 DEF SetsInv, Sets!Mutants
<1>2. CASE UNCHANGED mVars
  <2>1. SetTypes' /\ SetPlaces'
    BY <1>2 DEF SetsInv, mVars, SetTypes, ObjectTypes, WaitTypes, SchedTypes, CallTypes,
       Sets!Limit, SetPlaces, SetPlace, PulsePlace
  <2>2. ASSUME NEW o \in Sets!Mutants PROVE SetPermit(o)'
    <3>1. SetPermit(o)
      BY DEF SetsInv
    <3> QED
      BY <1>2, <3>1 DEF mVars, SetPermit, Sets!HasPermit
  <2>3. ASSUME NEW t \in SetThreads PROVE SetGate(t)'
    <3>1. SetGate(t)
      BY DEF SetsInv
    <3>2. /\ Sets!Satisfied(t)' = Sets!Satisfied(t) /\ Sets!Waited(t)' = Sets!Waited(t)
          /\ Sets!Single(t)' = Sets!Single(t) /\ Sets!Gated(t)' = Sets!Gated(t)
      BY <1>2 DEF mVars, Sets!Satisfied, Sets!Waited, Sets!First, Sets!MayAcquire,
         Sets!Signaled, Sets!Reentered, Sets!Single, Sets!Gated
    <3>3. Settled(t)' <=> Settled(t)
      BY <1>2, <3>2 DEF mVars, Settled, Sets!StateLockFree
    <3>4. BumpComes(t)' <=> BumpComes(t)
      BY <1>2, <3>2 DEF mVars, BumpComes
    <3> QED
      BY <1>2, <3>1, <3>2, <3>3, <3>4 DEF mVars, SetGate
  <2> QED
    BY <2>1, <2>2, <2>3 DEF SetsInv, Sets!Mutants
<1> QED
  BY <1>1, <1>2 DEF MCNext

\* What the invariant says, in the words of the property.
LEMMA SetsInvServes ==
  ASSUME SetsInv PROVE SetsServed
<1>0. SetTypes /\ SetPlaces
  BY DEF SetsInv
<1>1. Sets!TypeOK
  BY <1>0 DEF SetTypes, ObjectTypes, WaitTypes, SchedTypes, CallTypes, WakeAt, PulseAt,
     Sets!TypeOK
<1>2. Sets!SignalMovesGate
  <2> SUFFICES ASSUME NEW t \in mBlocked, ~Sets!Single(t), Sets!Gated(t),
                      Sets!Satisfied(t), \A o \in Sets!Waited(t) : Sets!StateLockFree(o)
               PROVE  mMoved[t] \/ \E a \in Sets!Actors : /\ mWake[a].step = "bump"
                                                          /\ mWake[a].obj \in Sets!Waited(t)
    BY DEF Sets!SignalMovesGate
  <2>1. t \in SetThreads /\ mPc[t] = "parked"
    BY <1>0 DEF SetTypes, SchedTypes, SetPlaces, SetPlace
  <2>2. mMoved[t] \/ BumpComes(t)
    BY <2>1 DEF SetsInv, SetGate, Settled
  <2> QED
    BY <2>2 DEF BumpComes
<1>3. Sets!OnePermitEach
  <2> SUFFICES ASSUME NEW o \in Sets!Mutants
               PROVE  Sets!Cardinality({t \in SetThreads : Sets!HasPermit(t, o)})
                        + mFree[o] = 1
    BY DEF Sets!OnePermitEach
  <2> DEFINE Holders == {t \in SetThreads : Sets!HasPermit(t, o)}
  <2>1. Sets!Cardinality(Holders) = Cardinality(Holders)
    BY DEF Sets!Cardinality, Cardinality
  <2>2. SetPermit(o)
    BY DEF SetsInv
  <2>3. CASE Holders = {}
    BY <2>1, <2>2, <2>3, FS_EmptySet DEF SetPermit
  <2>4. CASE Holders # {}
    <3>1. PICK t \in SetThreads : Sets!HasPermit(t, o)
      BY <2>4
    <3>2. Holders = {t}
      BY <2>2, <3>1 DEF SetPermit
    <3>3. mFree[o] = 0
      BY <2>2, <3>1 DEF SetPermit
    <3>4. Cardinality({t}) = 1
      BY FS_Singleton, Zenon
    <3> QED
      BY <2>1, <3>2, <3>3, <3>4
  <2> QED
    BY <2>3, <2>4
<1> QED
  BY <1>1, <1>2, <1>3 DEF SetsServed

\* In every reachable state of either model a signal moves the gate of a parked wait on
\* several objects that it satisfies, and each mutant has one permit: with a thread or back.
THEOREM SetsAreServed == MCSpec => []SetsServed
<1>1. MCInit => SetsInv
  BY SetsInit DEF MCInit
<1>2. SetsInv /\ [MCNext]_<<model, vars, mVars>> => SetsInv'
  BY SetsStep
<1>3. SetsInv => SetsServed
  BY SetsInvServes
<1> QED
  BY <1>1, <1>2, <1>3, PTL DEF MCSpec
=============================================================================
