--------------------------- MODULE BlockingIoProofs ---------------------------
(***************************************************************************)
(* What holds of BlockingIo for any number of fibers, host threads and     *)
(* pool workers: a queued or running call has its caller's frame, the pool *)
(* has workers for its calls and tells them, and nothing runs once         *)
(* Shutdown is over.                                                       *)
(*                                                                         *)
(* The inductive invariant has four parts: the types, with the call that a *)
(* running worker holds; that a fiber's call is in one place; what each    *)
(* join of Shutdown has established; and io_pool_busy_ as the number of    *)
(* workers between PoolTake and Finish.                                    *)
(*                                                                         *)
(* Last, the requests of a file, as MCIo composes them with the calls.     *)
(***************************************************************************)
EXTENDS MCIo, FiniteSetTheorems, NaturalsInduction, TLAPS

TypesInv ==
  /\ pc \in [Callers -> {"idle", "ensure", "pushSerial", "pushPool", "kick", "notify",
                         "inline", "loop", "block", "reset", "release", "posted"}]
  /\ done \in [Callers -> BOOLEAN] /\ event \in [Callers -> Events \cup {NoEvent}]
  /\ signaled \in [Events -> BOOLEAN] /\ idleEvents \in Seq(Events)
  /\ ioQueue \in Seq(Call) /\ ioEvent \in BOOLEAN
  /\ ioOnce \in {"open", "started", "closed"}
  /\ poolQueue \in Seq(Call)
  /\ workerPc \in [Workers -> {"none", "top", "checked", "parked", "empty", "wait",
                               "run", "signal", "finish", "exited"}]
  /\ call \in [Workers -> Call \cup {NoCall}]
  /\ shuttingDown \in BOOLEAN /\ stopped \subseteq Fibers
  /\ shutPc \in {"idle", "event", "notify", "dispatch", "once", "serial", "pool", "drop",
                 "end"}
  /\ workload \in Workloads
  /\ \A w \in Workers : workerPc[w] \in {"run", "signal"} => call[w] \in Call
  /\ \A f \in Fibers : pc[f] # "idle" => event[f] \in Events

\* A call of fiber f is queued, or runs.
Holds(queue, f) == \E i \in DOMAIN queue : queue[i].caller = f
HoldsOnce(queue, f) ==
  \A i, j \in DOMAIN queue : queue[i].caller = f /\ queue[j].caller = f => i = j
InSerial(f) == Holds(ioQueue, f)
InPool(f) == Holds(poolQueue, f)
RunBy(f, w) == workerPc[w] = "run" /\ call[w].caller = f
Out(f) == InSerial(f) \/ InPool(f) \/ \E w \in Workers : RunBy(f, w)

\* A call in one place only: no two workers ever store into one frame.
InOnePlace(f) ==
  /\ HoldsOnce(ioQueue, f) /\ HoldsOnce(poolQueue, f)
  /\ InSerial(f) => ~InPool(f) /\ \A w \in Workers : ~RunBy(f, w)
  /\ InPool(f) => \A w \in Workers : ~RunBy(f, w)
  /\ \A w, v \in Workers : RunBy(f, w) /\ RunBy(f, v) => w = v

FrameOf(f) ==
  /\ InOnePlace(f)
  /\ Out(f) => ~done[f] /\ pc[f] \in {"kick", "notify", "loop", "block"}
  /\ pc[f] \in {"ensure", "pushSerial", "pushPool", "inline"} => ~done[f]
FrameInv == \A f \in Fibers : FrameOf(f)

\* What the joins of Shutdown have seen stays so: the serial worker is started once, and
\* the pool takes no call that would start one.
ShutInv ==
  /\ shuttingDown <=> shutPc # "idle"
  /\ shutPc \in {"serial", "pool", "drop", "end"} => ioOnce # "open"
  /\ shutPc \in {"pool", "drop", "end"} => workerPc[Serial] \in {"none", "exited"}
  /\ shutPc \in {"drop", "end"} => \A w \in PoolWorkers : workerPc[w] \in {"none", "exited"}
  /\ shutPc = "end" => ioQueue = <<>> /\ poolQueue = <<>>

-----------------------------------------------------------------------------
(* Queues. *)

\* Append puts its element last and moves no other.
LEMMA Appended ==
  ASSUME NEW S, NEW s \in Seq(S), NEW x \in S
  PROVE  /\ Append(s, x) \in Seq(S) /\ Append(s, x) # <<>>
         /\ Len(Append(s, x)) = Len(s) + 1 /\ DOMAIN Append(s, x) = 1..Len(s) + 1
         /\ DOMAIN s = 1..Len(s) /\ Len(s) \in Nat
         /\ \A i \in 1..Len(s) : Append(s, x)[i] = s[i]
         /\ Append(s, x)[Len(s) + 1] = x
  OBVIOUS

\* Tail moves every element one place down.
LEMMA Taken ==
  ASSUME NEW S, NEW s \in Seq(S), s # <<>>
  PROVE  /\ Tail(s) \in Seq(S) /\ Len(Tail(s)) = Len(s) - 1
         /\ Head(s) = s[1] /\ Head(s) \in S /\ 1 \in DOMAIN s
         /\ DOMAIN s = 1..Len(s) /\ Len(s) \in Nat \ {0}
         /\ DOMAIN Tail(s) = 1..Len(s) - 1
         /\ \A i \in 1..Len(s) - 1 : Tail(s)[i] = s[i + 1]
  OBVIOUS

\* A call that is put in, by a caller that has none there, is there once.
LEMMA CallAdded ==
  ASSUME NEW queue \in Seq(Call), NEW c \in Call, NEW f, HoldsOnce(queue, f)
  PROVE  /\ Holds(Append(queue, c), f) <=> Holds(queue, f) \/ c.caller = f
         /\ ~Holds(queue, f) \/ c.caller # f => HoldsOnce(Append(queue, c), f)
<1>1. /\ DOMAIN Append(queue, c) = 1..Len(queue) + 1 /\ DOMAIN queue = 1..Len(queue)
      /\ Len(queue) \in Nat /\ \A i \in 1..Len(queue) : Append(queue, c)[i] = queue[i]
      /\ Append(queue, c)[Len(queue) + 1] = c
  BY Appended
<1>2. \A i \in DOMAIN Append(queue, c) :
        \/ i \in DOMAIN queue /\ Append(queue, c)[i] = queue[i]
        \/ i = Len(queue) + 1 /\ Append(queue, c)[i] = c
  BY <1>1
<1>3. \A i \in DOMAIN queue : i \in DOMAIN Append(queue, c)
  BY <1>1
<1>4. Len(queue) + 1 \in DOMAIN Append(queue, c)
  BY <1>1
<1> QED
  BY <1>1, <1>2, <1>3, <1>4 DEF Holds, HoldsOnce

\* A call that is taken out is not there any more.
LEMMA CallTaken ==
  ASSUME NEW queue \in Seq(Call), queue # <<>>, NEW f, HoldsOnce(queue, f)
  PROVE  /\ Holds(queue, f) <=> Holds(Tail(queue), f) \/ Head(queue).caller = f
         /\ Head(queue).caller = f => ~Holds(Tail(queue), f)
         /\ HoldsOnce(Tail(queue), f)
<1>1. /\ DOMAIN Tail(queue) = 1..Len(queue) - 1 /\ DOMAIN queue = 1..Len(queue)
      /\ Len(queue) \in Nat \ {0} /\ Head(queue) = queue[1]
      /\ \A i \in 1..Len(queue) - 1 : Tail(queue)[i] = queue[i + 1]
  BY Taken
<1>2. \A i \in DOMAIN Tail(queue) :
        i \in Nat /\ i + 1 \in DOMAIN queue /\ i + 1 # 1 /\ Tail(queue)[i] = queue[i + 1]
  BY <1>1
<1>3. \A i \in DOMAIN queue : i = 1 \/ \E j \in DOMAIN Tail(queue) : i = j + 1
  <2> SUFFICES ASSUME NEW i \in DOMAIN queue,
       i # 1 PROVE i - 1 \in DOMAIN Tail(queue) /\ i = (i - 1) + 1
    OBVIOUS
  <2> QED
    BY <1>1
<1>4. 1 \in DOMAIN queue
  BY <1>1
<1>5. HoldsOnce(Tail(queue), f)
  <2> SUFFICES ASSUME NEW i \in DOMAIN Tail(queue), NEW j \in DOMAIN Tail(queue),
                      Tail(queue)[i].caller = f, Tail(queue)[j].caller = f
               PROVE  i = j
    BY DEF HoldsOnce
  <2>1. i + 1 = j + 1
    BY <1>2 DEF HoldsOnce
  <2> QED
    BY <1>2, <2>1
<1> QED
  BY <1>1, <1>2, <1>3, <1>4, <1>5 DEF Holds, HoldsOnce

-----------------------------------------------------------------------------
(* Types. *)

\* The types hold at first ...
LEMMA TypesInit == Init => TypesInv
<1> SUFFICES ASSUME Init PROVE TypesInv
  OBVIOUS
<1>1. /\ <<>> \in Seq(Events) /\ <<>> \in Seq(Call)
  OBVIOUS
<1>2. \A w \in Workers : workerPc[w] = "none"
  BY DEF Init
<1>3. \A f \in Fibers : pc[f] = "idle"
  BY DEF Init, Callers
<1>4. /\ done \in [Callers -> BOOLEAN] /\ event \in [Callers -> Events \cup {NoEvent}]
      /\ signaled \in [Events -> BOOLEAN] /\ call \in [Workers -> Call \cup {NoCall}]
  BY DEF Init
<1>5. /\ pc \in [Callers -> {"idle", "ensure", "pushSerial", "pushPool", "kick", "notify",
                            "inline", "loop", "block", "reset", "release", "posted"}]
      /\ workerPc \in [Workers -> {"none", "top", "checked", "parked", "empty", "wait",
                                  "run", "signal", "finish", "exited"}]
  BY DEF Init
<1> QED
  BY <1>1, <1>2, <1>3, <1>4, <1>5 DEF Init, TypesInv

\* ... and every step keeps them: a worker that runs has a call, a fiber with a request an
\* event.
LEMMA TypesStep == TypesInv /\ [Next]_vars => TypesInv'
<1> SUFFICES ASSUME TypesInv, [Next]_vars PROVE TypesInv'
  OBVIOUS
<1> USE IoAssumption DEF TypesInv, At, Goto, WorkerTo, Callers, Workers, callerVars,
                         eventVars, serialVars, poolVars, workerVars, shutVars
<1> UNCHANGED workload
  BY DEF Next, vars
<1>1. ASSUME NEW k \in Callers, NEW class \in Classes, Request(k, class) PROVE TypesInv'
  <2>1. class \in {"ensure", "pushPool"}
    BY DEF Classes
  <2>2. idleEvents # <<>> => /\ idleEvents[Len(idleEvents)] \in Events
                            /\ SubSeq(idleEvents, 1, Len(idleEvents) - 1) \in Seq(Events)
    BY DEF TypesInv
  <2> QED
    BY <1>1, <2>1, <2>2, ZenonT(60) DEF Request
<1>2. ASSUME NEW k \in Callers, NEW class \in Classes, Post(k, class) PROVE TypesInv'
  BY <1>2 DEF Post, Classes
<1>3. ASSUME NEW k \in Callers, CallerStep(k) PROVE TypesInv'
  <2>1. CASE EnsureIoWorker(k)
    BY <2>1 DEF EnsureIoWorker
  <2>2. CASE PushSerial(k)
    <3>1. CallOf(k) \in Call
      BY DEF CallOf, Call
    <3>2. Append(ioQueue, CallOf(k)) \in Seq(Call)
      BY <3>1, Appended
    <3> QED
      BY <2>2, <3>2 DEF PushSerial
  <2>3. CASE Kick(k)
    BY <2>3 DEF Kick, Kicks, Posted
  <2>4. CASE PushPool(k)
    <3>1. CallOf(k) \in Call
      BY DEF CallOf, Call
    <3>2. Append(poolQueue, CallOf(k)) \in Seq(Call)
      BY <3>1, Appended
    <3> QED
      BY <2>4, <3>2, ZenonT(60) DEF PushPool, Grows, Refused, PoolThreads
  <2>5. CASE NotifyOne(k)
    BY <2>5 DEF NotifyOne, Notifies, Posted, Parked
  <2>6. CASE RunInline(k)
    BY <2>6 DEF RunInline, Posted
  <2>7. CASE CheckDone(k)
    BY <2>7 DEF CheckDone, Completed
  <2>8. CASE TakeSignal(k)
    BY <2>8 DEF TakeSignal
  <2>9. CASE ResetEvent(k)
    BY <2>9 DEF ResetEvent
  <2>10. CASE ReleaseIoEvent(k)
    BY <2>10 DEF ReleaseIoEvent
  <2> QED BY <1>3, <2>1, <2>2, <2>3, <2>4, <2>5, <2>6, <2>7, <2>8, <2>9, <2>10 DEF CallerStep
<1>4. ASSUME NEW k \in Callers, WaitAgain(k) \/ PostAgain(k) PROVE TypesInv'
  <2>1. CASE WaitAgain(k)
    BY <2>1 DEF WaitAgain
  <2>2. CASE PostAgain(k)
    BY <2>2 DEF PostAgain
  <2> QED
    BY <1>4, <2>1, <2>2
<1>5. ASSUME NEW f \in Fibers, StopFiber(f) PROVE TypesInv'
  BY <1>5 DEF StopFiber
<1>6. ASSUME NEW w \in PoolWorkers, PoolStep(w) \/ SpuriousWake(w) PROVE TypesInv'
  <2>1. CASE PoolTop(w)
    BY <2>1 DEF PoolTop
  <2>2. CASE PoolTake(w)
    <3>1. poolQueue # <<>> => Head(poolQueue) \in Call /\ Tail(poolQueue) \in Seq(Call)
      BY Taken
    <3> QED
      BY <2>2, <3>1, ZenonT(60) DEF PoolTake
  <2>3. CASE Finish(w)
    BY <2>3 DEF Finish, BusyAfter
  <2>4. CASE SpuriousWake(w)
    BY <2>4 DEF SpuriousWake, Parked
  <2> QED BY <1>6, <2>1, <2>2, <2>3, <2>4 DEF PoolStep
<1>7. ASSUME NEW w \in Workers, WorkerStep(w) PROVE TypesInv'
  <2>1. CASE Run(w)
    BY <2>1 DEF Run, Call
  <2>2. CASE Signal(w)
    BY <2>2 DEF Signal, Call
  <2> QED BY <1>7, <2>1, <2>2 DEF WorkerStep
<1>8. ASSUME SerialStep PROVE TypesInv'
  <2>1. CASE SerialTop
    BY <2>1 DEF SerialTop
  <2>2. CASE SerialTake
    <3>1. ioQueue # <<>> => Head(ioQueue) \in Call /\ Tail(ioQueue) \in Seq(Call)
      BY Taken
    <3> QED
      BY <2>2, <3>1, ZenonT(60) DEF SerialTake
  <2>3. CASE SerialWait
    BY <2>3 DEF SerialWait
  <2>4. CASE SerialWake
    BY <2>4 DEF SerialWake
  <2> QED BY <1>8, <2>1, <2>2, <2>3, <2>4 DEF SerialStep
<1>9. ASSUME ShutdownStep \/ BeginShutdown PROVE TypesInv'
  <2>1. CASE SetIoEvent
    BY <2>1 DEF SetIoEvent, ShutTo
  <2>2. CASE NotifyAll
    BY <2>2 DEF NotifyAll, ShutTo, Parked
  <2>3. CASE JoinDispatch
    BY <2>3 DEF JoinDispatch, ShutTo
  <2>4. CASE CloseOnce
    BY <2>4 DEF CloseOnce, ShutTo
  <2>5. CASE JoinSerial
    BY <2>5 DEF JoinSerial, ShutTo
  <2>6. CASE JoinPool
    BY <2>6 DEF JoinPool, ShutTo, PoolThreads
  <2>7. CASE DropQueued
    BY <2>7 DEF DropQueued, ShutTo
  <2>8. CASE BeginShutdown
    BY <2>8 DEF BeginShutdown, ShutTo
  <2> QED BY <1>9, <2>1, <2>2, <2>3, <2>4, <2>5, <2>6, <2>7, <2>8 DEF ShutdownStep
<1>10. CASE UNCHANGED vars
  BY <1>10 DEF vars, steps
<1> HIDE DEF TypesInv, At, Goto, WorkerTo, Callers, Workers, callerVars, eventVars,
             serialVars, poolVars, workerVars, shutVars
<1> QED
  BY <1>1, <1>2, <1>3, <1>4, <1>5, <1>6, <1>7, <1>8, <1>9, <1>10 DEF Next, Step

-----------------------------------------------------------------------------
(* The frame. *)

\* No call is out at first ...
LEMMA FrameInit == Init => FrameInv
  BY DEF Init, FrameInv, FrameOf, InOnePlace, Out, InSerial, InPool, RunBy, Holds, HoldsOnce,
         Callers,
         Workers

\* ... and a step takes a call along from place to place, or ends it and only then sets done.
LEMMA FrameStep == TypesInv /\ FrameInv /\ [Next]_vars => FrameInv'
<1> SUFFICES ASSUME TypesInv, FrameInv, [Next]_vars PROVE FrameInv'
  OBVIOUS
<1> USE IoAssumption DEF TypesInv, FrameInv, FrameOf, InOnePlace, Out, InSerial, InPool,
                         RunBy, At, Goto, WorkerTo, Callers, Workers, callerVars, eventVars,
                         serialVars, poolVars, workerVars, shutVars
<1>1. ASSUME NEW k \in Callers, NEW class \in Classes, Request(k, class) PROVE FrameInv'
  BY <1>1 DEF Request, Classes
<1>2. ASSUME NEW k \in Callers, NEW class \in Classes, Post(k, class) PROVE FrameInv'
  BY <1>2 DEF Post, Classes
<1>3. ASSUME NEW k \in Callers, CallerStep(k) PROVE FrameInv'
  <2>1. CASE EnsureIoWorker(k)
    BY <2>1 DEF EnsureIoWorker
  <2>2. CASE PushSerial(k)
    <3>1. CallOf(k) \in Call /\ CallOf(k).caller = k
      BY DEF CallOf, Call
    <3>2. CASE Refused
      BY <2>2, <3>2 DEF PushSerial, Refused
    <3>3. CASE ~Refused
      <4>1. /\ ioQueue' = Append(ioQueue, CallOf(k))
            /\ UNCHANGED <<done, poolQueue, call>>
            /\ pc[k] = "pushSerial"
            /\ pc' = [pc EXCEPT ![k] = "kick"]
            /\ \A w \in Workers : workerPc'[w] = "run" <=> workerPc[w] = "run"
        BY <2>2, <3>3 DEF PushSerial, Refused
      <4> SUFFICES ASSUME NEW f \in Fibers PROVE FrameOf(f)'
        OBVIOUS
      <4> HoldsOnce(ioQueue, f)
        OBVIOUS
      <4>2. /\ Holds(ioQueue', f) <=> Holds(ioQueue, f) \/ f = k
            /\ ~Holds(ioQueue, f) \/ f # k => HoldsOnce(ioQueue', f)
        BY <3>1, <4>1, CallAdded
      <4>3. \A w \in Workers : RunBy(f, w)' <=> RunBy(f, w)
        BY <4>1
      <4>4. f = k => ~Out(f) /\ ~done[f]
        BY <4>1
      <4>5. pc'[f] = IF f = k THEN "kick" ELSE pc[f]
        BY <4>1
      <4>6. FrameOf(f)
            /\ UNCHANGED <<done, poolQueue>>
        BY <4>1
      <4> HIDE DEF RunBy, FrameInv, TypesInv
      <4> QED
        BY <4>2, <4>3, <4>4, <4>5, <4>6
    <3> QED
      BY <2>2, <3>2, <3>3 DEF PushSerial, Refused
  <2>3. CASE Kick(k)
    BY <2>3 DEF Kick, Kicks, Posted
  <2>4. CASE PushPool(k)
    <3>1. CallOf(k) \in Call /\ CallOf(k).caller = k
      BY DEF CallOf, Call
    <3>2. CASE Refused
      BY <2>4, <3>2 DEF PushPool, Grows, Refused, PoolThreads, Refused
    <3>3. CASE ~Refused
      <4>1. /\ poolQueue' = Append(poolQueue, CallOf(k))
            /\ UNCHANGED <<done, ioQueue, call>>
            /\ pc[k] = "pushPool"
            /\ pc' = [pc EXCEPT ![k] = "notify"]
            /\ \A w \in Workers : workerPc'[w] = "run" <=> workerPc[w] = "run"
        BY <2>4, <3>3 DEF PushPool, Grows, Refused, PoolThreads, Refused
      <4> SUFFICES ASSUME NEW f \in Fibers PROVE FrameOf(f)'
        OBVIOUS
      <4> HoldsOnce(poolQueue, f)
        OBVIOUS
      <4>2. /\ Holds(poolQueue', f) <=> Holds(poolQueue, f) \/ f = k
            /\ ~Holds(poolQueue, f) \/ f # k => HoldsOnce(poolQueue', f)
        BY <3>1, <4>1, CallAdded
      <4>3. \A w \in Workers : RunBy(f, w)' <=> RunBy(f, w)
        BY <4>1
      <4>4. f = k => ~Out(f) /\ ~done[f]
        BY <4>1
      <4>5. pc'[f] = IF f = k THEN "notify" ELSE pc[f]
        BY <4>1
      <4>6. FrameOf(f)
            /\ UNCHANGED <<done, ioQueue>>
        BY <4>1
      <4> HIDE DEF RunBy, FrameInv, TypesInv
      <4> QED
        BY <4>2, <4>3, <4>4, <4>5, <4>6
    <3> QED
      BY <2>4, <3>2, <3>3 DEF PushPool, Grows, Refused, PoolThreads, Refused
  <2>5. CASE NotifyOne(k)
    BY <2>5 DEF NotifyOne, Notifies, Posted, Parked
  <2>6. CASE RunInline(k)
    BY <2>6 DEF RunInline, Posted
  <2>7. CASE CheckDone(k)
    BY <2>7 DEF CheckDone, Completed
  <2>8. CASE TakeSignal(k)
    BY <2>8 DEF TakeSignal
  <2>9. CASE ResetEvent(k)
    BY <2>9 DEF ResetEvent
  <2>10. CASE ReleaseIoEvent(k)
    BY <2>10 DEF ReleaseIoEvent
  <2> QED BY <1>3, <2>1, <2>2, <2>3, <2>4, <2>5, <2>6, <2>7, <2>8, <2>9, <2>10 DEF CallerStep
<1>4. ASSUME NEW k \in Callers, WaitAgain(k) \/ PostAgain(k) PROVE FrameInv'
  BY <1>4 DEF WaitAgain, PostAgain
<1>5. ASSUME NEW f \in Fibers, StopFiber(f) PROVE FrameInv'
  BY <1>5 DEF StopFiber
<1>6. ASSUME NEW w \in PoolWorkers, PoolStep(w) \/ SpuriousWake(w) PROVE FrameInv'
  <2>1. CASE PoolTop(w)
    BY <2>1 DEF PoolTop
  <2>2. CASE PoolTake(w)
    <3>1. CASE poolQueue = <<>>
      BY <2>2, <3>1 DEF PoolTake
    <3>2. CASE poolQueue # <<>>
      <4>1. /\ poolQueue' = Tail(poolQueue) /\ UNCHANGED <<pc, done, ioQueue>>
            /\ call' = [call EXCEPT ![w] = Head(poolQueue)]
            /\ workerPc' = [workerPc EXCEPT ![w] = "run"]
        BY <2>2, <3>2 DEF PoolTake
      <4> SUFFICES ASSUME NEW f \in Fibers PROVE FrameOf(f)'
        OBVIOUS
      <4> HoldsOnce(poolQueue, f)
        OBVIOUS
      <4>2. /\ Holds(poolQueue, f) <=> Holds(poolQueue', f) \/ Head(poolQueue).caller = f
            /\ Head(poolQueue).caller = f => ~Holds(poolQueue', f)
            /\ HoldsOnce(poolQueue', f)
        BY <3>2, <4>1, CallTaken
      <4>3. \A v \in Workers :
              RunBy(f, v)' <=> IF v = w THEN Head(poolQueue).caller = f ELSE RunBy(f, v)
        BY <4>1
      <4>4. FrameOf(f) /\ UNCHANGED <<pc, done, ioQueue>>
        BY <4>1
      <4> HIDE DEF RunBy, FrameInv, TypesInv
      <4> QED
        BY <4>2, <4>3, <4>4
    <3> QED
      BY <3>1, <3>2
  <2>3. CASE Finish(w)
    BY <2>3 DEF Finish, BusyAfter
  <2>4. CASE SpuriousWake(w)
    BY <2>4 DEF SpuriousWake, Parked
  <2> QED BY <1>6, <2>1, <2>2, <2>3, <2>4 DEF PoolStep
<1>7. ASSUME NEW w \in Workers, WorkerStep(w) PROVE FrameInv'
  <2>1. CASE Run(w)
    BY <2>1 DEF Run, Call
  <2>2. CASE Signal(w)
    BY <2>2 DEF Signal, Call
  <2> QED BY <1>7, <2>1, <2>2 DEF WorkerStep
<1>8. ASSUME SerialStep PROVE FrameInv'
  <2>1. CASE SerialTop
    BY <2>1 DEF SerialTop
  <2>2. CASE SerialTake
    <3>1. CASE ioQueue = <<>>
      BY <2>2, <3>1 DEF SerialTake
    <3>2. CASE ioQueue # <<>>
      <4>1. /\ ioQueue' = Tail(ioQueue) /\ UNCHANGED <<pc, done, poolQueue>>
            /\ call' = [call EXCEPT ![Serial] = Head(ioQueue)]
            /\ workerPc' = [workerPc EXCEPT ![Serial] = "run"]
        BY <2>2, <3>2 DEF SerialTake
      <4> SUFFICES ASSUME NEW f \in Fibers PROVE FrameOf(f)'
        OBVIOUS
      <4> HoldsOnce(ioQueue, f)
        OBVIOUS
      <4>2. /\ Holds(ioQueue, f) <=> Holds(ioQueue', f) \/ Head(ioQueue).caller = f
            /\ Head(ioQueue).caller = f => ~Holds(ioQueue', f)
            /\ HoldsOnce(ioQueue', f)
        BY <3>2, <4>1, CallTaken
      <4>3. \A v \in Workers :
              RunBy(f, v)' <=> IF v = Serial THEN Head(ioQueue).caller = f ELSE RunBy(f, v)
        BY <4>1
      <4>4. FrameOf(f) /\ UNCHANGED <<pc, done, poolQueue>>
        BY <4>1
      <4> HIDE DEF RunBy, FrameInv, TypesInv
      <4> QED
        BY <4>2, <4>3, <4>4
    <3> QED
      BY <3>1, <3>2
  <2>3. CASE SerialWait
    BY <2>3 DEF SerialWait
  <2>4. CASE SerialWake
    BY <2>4 DEF SerialWake
  <2> QED BY <1>8, <2>1, <2>2, <2>3, <2>4 DEF SerialStep
<1>9. ASSUME ShutdownStep \/ BeginShutdown PROVE FrameInv'
  <2>1. CASE SetIoEvent
    BY <2>1 DEF SetIoEvent, ShutTo
  <2>2. CASE NotifyAll
    <3>1. \A w \in Workers : workerPc'[w] = "run" <=> workerPc[w] = "run"
      BY <2>2 DEF NotifyAll, Parked
    <3>2. UNCHANGED <<pc, done, ioQueue, poolQueue, call>>
      BY <2>2 DEF NotifyAll
    <3>3. \A f \in Fibers, w \in Workers : RunBy(f, w)' <=> RunBy(f, w)
      BY <3>1, <3>2
    <3> HIDE DEF RunBy, TypesInv
    <3> QED
      BY <3>2, <3>3
  <2>3. CASE JoinDispatch
    BY <2>3 DEF JoinDispatch, ShutTo
  <2>4. CASE CloseOnce
    BY <2>4 DEF CloseOnce, ShutTo
  <2>5. CASE JoinSerial
    BY <2>5 DEF JoinSerial, ShutTo
  <2>6. CASE JoinPool
    BY <2>6 DEF JoinPool, ShutTo, PoolThreads
  <2>7. CASE DropQueued
    BY <2>7 DEF DropQueued, ShutTo, Holds, HoldsOnce
  <2>8. CASE BeginShutdown
    BY <2>8 DEF BeginShutdown, ShutTo
  <2> QED BY <1>9, <2>1, <2>2, <2>3, <2>4, <2>5, <2>6, <2>7, <2>8 DEF ShutdownStep
<1>10. CASE UNCHANGED vars
  BY <1>10 DEF vars, steps
<1> HIDE DEF TypesInv, FrameInv, FrameOf, InOnePlace, Out, InSerial, InPool, RunBy, At, Goto,
             WorkerTo, Callers, Workers, callerVars, eventVars, serialVars, poolVars,
             workerVars, shutVars
<1> QED
  BY <1>1, <1>2, <1>3, <1>4, <1>5, <1>6, <1>7, <1>8, <1>9, <1>10 DEF Next, Step

-----------------------------------------------------------------------------
(* Shutdown. *)

\* Nobody has begun Shutdown at first ...
LEMMA ShutInit == Init => ShutInv
  BY DEF Init, ShutInv

\* ... and what one of its joins saw, no later step undoes.
LEMMA ShutStep == TypesInv /\ ShutInv /\ [Next]_vars => ShutInv'
<1> SUFFICES ASSUME TypesInv, ShutInv, [Next]_vars PROVE ShutInv'
  OBVIOUS
<1> USE IoAssumption DEF TypesInv, ShutInv, At, Goto, WorkerTo, Callers, Workers, callerVars,
                         eventVars, serialVars, poolVars, workerVars, shutVars
<1>1. ASSUME NEW k \in Callers, NEW class \in Classes, Request(k, class) PROVE ShutInv'
  BY <1>1 DEF Request, Classes
<1>2. ASSUME NEW k \in Callers, NEW class \in Classes, Post(k, class) PROVE ShutInv'
  BY <1>2 DEF Post, Classes
<1>3. ASSUME NEW k \in Callers, CallerStep(k) PROVE ShutInv'
  <2>1. CASE EnsureIoWorker(k)
    BY <2>1 DEF EnsureIoWorker
  <2>2. CASE PushSerial(k)
    BY <2>2 DEF PushSerial, CallOf, Call
  <2>3. CASE Kick(k)
    BY <2>3 DEF Kick, Kicks, Posted
  <2>4. CASE PushPool(k)
    BY <2>4 DEF PushPool, CallOf, Call, Grows, Refused, PoolThreads, PoolLockFree
  <2>5. CASE NotifyOne(k)
    BY <2>5 DEF NotifyOne, Notifies, Posted, Parked
  <2>6. CASE RunInline(k)
    BY <2>6 DEF RunInline, Posted
  <2>7. CASE CheckDone(k)
    BY <2>7 DEF CheckDone, Completed
  <2>8. CASE TakeSignal(k)
    BY <2>8 DEF TakeSignal
  <2>9. CASE ResetEvent(k)
    BY <2>9 DEF ResetEvent
  <2>10. CASE ReleaseIoEvent(k)
    BY <2>10 DEF ReleaseIoEvent
  <2> QED BY <1>3, <2>1, <2>2, <2>3, <2>4, <2>5, <2>6, <2>7, <2>8, <2>9, <2>10 DEF CallerStep
<1>4. ASSUME NEW k \in Callers, WaitAgain(k) \/ PostAgain(k) PROVE ShutInv'
  BY <1>4 DEF WaitAgain, PostAgain
<1>5. ASSUME NEW f \in Fibers, StopFiber(f) PROVE ShutInv'
  BY <1>5 DEF StopFiber
<1>6. ASSUME NEW w \in PoolWorkers, PoolStep(w) \/ SpuriousWake(w) PROVE ShutInv'
  <2>1. CASE PoolTop(w)
    BY <2>1 DEF PoolTop
  <2>2. CASE PoolTake(w)
    BY <2>2 DEF PoolTake
  <2>3. CASE Finish(w)
    BY <2>3 DEF Finish, BusyAfter
  <2>4. CASE SpuriousWake(w)
    BY <2>4 DEF SpuriousWake, Parked
  <2> QED BY <1>6, <2>1, <2>2, <2>3, <2>4 DEF PoolStep
<1>7. ASSUME NEW w \in Workers, WorkerStep(w) PROVE ShutInv'
  <2>1. CASE Run(w)
    BY <2>1 DEF Run, Call
  <2>2. CASE Signal(w)
    BY <2>2 DEF Signal, Call
  <2> QED BY <1>7, <2>1, <2>2 DEF WorkerStep
<1>8. ASSUME SerialStep PROVE ShutInv'
  <2>1. CASE SerialTop
    BY <2>1 DEF SerialTop
  <2>2. CASE SerialTake
    BY <2>2 DEF SerialTake
  <2>3. CASE SerialWait
    BY <2>3 DEF SerialWait
  <2>4. CASE SerialWake
    BY <2>4 DEF SerialWake
  <2> QED BY <1>8, <2>1, <2>2, <2>3, <2>4 DEF SerialStep
<1>9. ASSUME ShutdownStep \/ BeginShutdown PROVE ShutInv'
  <2>1. CASE SetIoEvent
    BY <2>1 DEF SetIoEvent, ShutTo
  <2>2. CASE NotifyAll
    <3>1. Serial \notin Parked /\ \A w \in Parked : workerPc[w] = "parked"
      BY DEF Parked
    <3> QED
      BY <2>2, <3>1 DEF NotifyAll, ShutTo
  <2>3. CASE JoinDispatch
    BY <2>3 DEF JoinDispatch, ShutTo
  <2>4. CASE CloseOnce
    BY <2>4 DEF CloseOnce, ShutTo
  <2>5. CASE JoinSerial
    BY <2>5 DEF JoinSerial, ShutTo
  <2>6. CASE JoinPool
    BY <2>6 DEF JoinPool, ShutTo, PoolThreads
  <2>7. CASE DropQueued
    BY <2>7 DEF DropQueued, ShutTo
  <2>8. CASE BeginShutdown
    BY <2>8 DEF BeginShutdown, ShutTo
  <2> QED BY <1>9, <2>1, <2>2, <2>3, <2>4, <2>5, <2>6, <2>7, <2>8 DEF ShutdownStep
<1>10. CASE UNCHANGED vars
  BY <1>10 DEF vars, steps
<1> HIDE DEF TypesInv, ShutInv, At, Goto, WorkerTo, Callers, Workers, callerVars, eventVars,
             serialVars, poolVars, workerVars, shutVars
<1> QED
  BY <1>1, <1>2, <1>3, <1>4, <1>5, <1>6, <1>7, <1>8, <1>9, <1>10 DEF Next, Step

-----------------------------------------------------------------------------
(* How many. *)

In(S, f, states) == {x \in S : f[x] \in states}
Busy == In(PoolWorkers, workerPc, {"run", "signal", "finish"})

CountInv == poolBusy = Cardinality(Busy) /\ PoolCoversCalls /\ QueuedCallsAreTold

\* One worker, or one caller, goes from one place to another.
LEMMA OneMoves ==
  ASSUME NEW S, IsFiniteSet(S), NEW f, S \subseteq DOMAIN f, NEW x \in S,
         NEW states, NEW g, g = [f EXCEPT ![x] = g[x]]
  PROVE  Cardinality(In(S, g, states)) =
           Cardinality(In(S, f, states)) + (IF g[x] \in states THEN 1 ELSE 0)
                                         - (IF f[x] \in states THEN 1 ELSE 0)
<1> DEFINE Rest == {y \in S \ {x} : f[y] \in states}
<1>1. IsFiniteSet(Rest) /\ Cardinality(Rest) \in Nat
  BY FS_Subset, FS_CardinalityType
<1>2. In(S, f, states) = IF f[x] \in states THEN Rest \cup {x} ELSE Rest
  BY DEF In
<1>3. In(S, g, states) = IF g[x] \in states THEN Rest \cup {x} ELSE Rest
  BY DEF In
<1>4. Cardinality(Rest \cup {x}) = Cardinality(Rest) + 1
  BY <1>1, FS_AddElement
<1> HIDE DEF Rest
<1> QED
  BY <1>1, <1>2, <1>3, <1>4

\* Every count is a natural number.
LEMMA CountsAreNat ==
  /\ IsFiniteSet(Callers)
  /\ \A states, f : /\ Cardinality(In(PoolWorkers, f, states)) \in Nat
                    /\ Cardinality(In(Callers, f, states)) \in Nat
<1>1. IsFiniteSet(Callers)
  BY IoAssumption, FS_Union DEF Callers
<1> QED
  BY <1>1, IoAssumption, FS_Subset, FS_CardinalityType DEF In

Started == {"top", "checked", "parked", "empty", "wait", "run", "signal", "finish", "exited"}

\* The sets that the invariant counts.
CountedSets ==
  /\ PoolThreads = In(PoolWorkers, workerPc, Started)
  /\ Awake = In(PoolWorkers, workerPc, {"top", "checked"})
  /\ Notifying = In(Callers, pc, {"notify"})
\* In this state and the next, the sets are of the form OneMoves speaks of.
LEMMA SetsAreCounted == (TypesInv => CountedSets) /\ (TypesInv' => CountedSets')
<1>1. ASSUME TypesInv PROVE CountedSets
  BY <1>1 DEF TypesInv, CountedSets, PoolThreads, Awake, Notifying, In, Started, Workers
<1>2. ASSUME TypesInv' PROVE CountedSets'
  BY <1>2 DEF TypesInv, CountedSets, PoolThreads, Awake, Notifying, In, Started, Workers
<1> QED
  BY <1>1, <1>2

\* An empty pool covers its empty queue ...
LEMMA CountInit == Init => CountInv
<1> SUFFICES ASSUME Init PROVE CountInv
  OBVIOUS
<1>1. Busy = {} /\ PoolThreads = {} /\ Parked = {}
  BY DEF Init, Busy, In, PoolThreads, Parked, Workers
<1>2. poolBusy = 0 /\ Len(poolQueue) = 0
  BY DEF Init
<1> QED
  BY <1>1, <1>2, FS_EmptySet DEF CountInv, PoolCoversCalls, QueuedCallsAreTold

\* A step that touches neither the pool's workers nor its queue.
LEMMA CountUntouched ==
  ASSUME TypesInv, CountInv, UNCHANGED poolVars, shuttingDown => shuttingDown',
         \A w \in PoolWorkers : workerPc'[w] = workerPc[w],
         \A k \in Callers : pc'[k] = "notify" <=> pc[k] = "notify"
  PROVE  CountInv'
<1>1. /\ Busy' = Busy /\ PoolThreads' = PoolThreads /\ Awake' = Awake
      /\ Notifying' = Notifying /\ Parked' = Parked
  BY DEF Busy, In, PoolThreads, Awake, Notifying, Parked
<1> QED
  BY <1>1 DEF CountInv, PoolCoversCalls, QueuedCallsAreTold, poolVars

\* What a step of one worker of the pool does to the counts.
MovedBy(w) ==
  /\ Cardinality(Busy') = Cardinality(Busy)
       + (IF workerPc'[w] \in {"run", "signal", "finish"} THEN 1 ELSE 0)
       - (IF workerPc[w] \in {"run", "signal", "finish"} THEN 1 ELSE 0)
  /\ Cardinality(Awake') = Cardinality(Awake)
       + (IF workerPc'[w] \in {"top", "checked"} THEN 1 ELSE 0)
       - (IF workerPc[w] \in {"top", "checked"} THEN 1 ELSE 0)
  /\ Cardinality(PoolThreads') = Cardinality(PoolThreads)
       + (IF workerPc[w] = "none" THEN 1 ELSE 0)
  /\ PoolThreads = PoolWorkers => PoolThreads' = PoolWorkers
  /\ Parked' = IF workerPc'[w] = "parked" THEN Parked \cup {w} ELSE Parked \ {w}
LEMMA WorkerMoves ==
  ASSUME TypesInv, TypesInv', NEW w \in PoolWorkers,
         workerPc' = [workerPc EXCEPT ![w] = workerPc'[w]], workerPc'[w] \in Started
  PROVE  MovedBy(w)
<1>1. /\ DOMAIN workerPc = Workers /\ PoolWorkers \subseteq Workers
      /\ workerPc[w] \in Started \cup {"none"} /\ IsFiniteSet(PoolWorkers)
  BY IoAssumption DEF TypesInv, Workers, Started
<1>2. \A states :
        Cardinality(In(PoolWorkers, workerPc', states)) =
          Cardinality(In(PoolWorkers, workerPc, states))
            + (IF workerPc'[w] \in states THEN 1 ELSE 0)
            - (IF workerPc[w] \in states THEN 1 ELSE 0)
  <2> SUFFICES ASSUME NEW states
               PROVE  Cardinality(In(PoolWorkers, workerPc', states)) =
                        Cardinality(In(PoolWorkers, workerPc, states))
                          + (IF workerPc'[w] \in states THEN 1 ELSE 0)
                          - (IF workerPc[w] \in states THEN 1 ELSE 0)
    OBVIOUS
  <2>1. PoolWorkers \subseteq DOMAIN workerPc /\ IsFiniteSet(PoolWorkers)
    BY <1>1
  <2>3. ASSUME NEW f, f = workerPc, NEW g, g = workerPc'
        PROVE  Cardinality(In(PoolWorkers, g, states)) =
                 Cardinality(In(PoolWorkers, f, states))
                   + (IF g[w] \in states THEN 1 ELSE 0)
                   - (IF f[w] \in states THEN 1 ELSE 0)
    <3>1. PoolWorkers \subseteq DOMAIN f /\ g = [f EXCEPT ![w] = g[w]]
      BY <2>1, <2>3
    <3> HIDE <2>3
    <3> QED
      BY <2>1, <3>1, OneMoves
  <2> QED
    BY <2>3
<1>3. "none" \notin Started
  BY DEF Started
<1>4. PoolThreads = PoolWorkers => PoolThreads' = PoolWorkers
  BY <1>1, <1>3 DEF PoolThreads
<1>5. Parked' = IF workerPc'[w] = "parked" THEN Parked \cup {w} ELSE Parked \ {w}
  BY <1>1 DEF Parked
<1>6. Cardinality(PoolThreads') = Cardinality(PoolThreads)
              + (IF workerPc[w] = "none" THEN 1 ELSE 0)
  <2>1. PoolThreads = In(PoolWorkers, workerPc, Started)
    BY SetsAreCounted DEF CountedSets
  <2>2. PoolThreads' = In(PoolWorkers, workerPc', Started)
    BY SetsAreCounted DEF CountedSets
  <2>3. Cardinality(PoolThreads) \in Nat
    BY <2>1, CountsAreNat
  <2>4. Cardinality(PoolThreads') =
          Cardinality(PoolThreads) + 1 - (IF workerPc[w] \in Started THEN 1 ELSE 0)
    BY <2>1, <2>2, <1>2
  <2> QED
    BY <2>3, <2>4, <1>1, <1>3
<1>7. CountedSets /\ CountedSets'
  BY SetsAreCounted
<1> QED
  BY <1>2, <1>4, <1>5, <1>6, <1>7, CountsAreNat DEF Busy, CountedSets, MovedBy

\* What a step of one caller does to them.
LEMMA CallerMoves ==
  ASSUME TypesInv, TypesInv', NEW k \in Callers, pc' = [pc EXCEPT ![k] = pc'[k]]
  PROVE  /\ Cardinality(Notifying') = Cardinality(Notifying)
              + (IF pc'[k] = "notify" THEN 1 ELSE 0) - (IF pc[k] = "notify" THEN 1 ELSE 0)
         /\ Cardinality(Notifying) \in Nat
<1>1. Callers \subseteq DOMAIN pc /\ IsFiniteSet(Callers)
  BY CountsAreNat DEF TypesInv
<1>3. ASSUME NEW f, f = pc, NEW g, g = pc'
      PROVE  Cardinality(In(Callers, g, {"notify"})) =
               Cardinality(In(Callers, f, {"notify"}))
                 + (IF g[k] \in {"notify"} THEN 1 ELSE 0)
                 - (IF f[k] \in {"notify"} THEN 1 ELSE 0)
  <2>1. Callers \subseteq DOMAIN f /\ g = [f EXCEPT ![k] = g[k]]
    BY <1>1, <1>3
  <2> HIDE <1>3
  <2> QED
    BY <1>1, <2>1, OneMoves
<1>4. CountedSets /\ CountedSets'
  BY SetsAreCounted
<1> QED
  BY <1>3, <1>4, CountsAreNat DEF CountedSets

\* ... and every step keeps a worker, or a notify, for every queued call.
LEMMA CountStep == TypesInv /\ TypesInv' /\ CountInv /\ ShutInv /\ [Next]_vars => CountInv'
<1> SUFFICES ASSUME TypesInv, TypesInv', CountInv, ShutInv, [Next]_vars PROVE CountInv'
  OBVIOUS
<1> USE DEF Goto, WorkerTo, callerVars, eventVars, serialVars, poolVars, workerVars,
            shutVars
<1> DEFINE PoolAlone == UNCHANGED <<poolVars, workerPc>>
<1> DEFINE Quiet == /\ UNCHANGED poolVars /\ (shuttingDown => shuttingDown')
                    /\ \A w \in PoolWorkers : workerPc'[w] = workerPc[w]
                    /\ \A k \in Callers : pc'[k] = "notify" <=> pc[k] = "notify"
<1>0. Quiet => CountInv'
  BY CountUntouched
<1>t. /\ pc \in [Callers -> {"idle", "ensure", "pushSerial", "pushPool", "kick", "notify",
                         "inline", "loop", "block", "reset", "release", "posted"}]
      /\ DOMAIN workerPc = Workers /\ PoolWorkers \subseteq Workers
      /\ Serial \in Workers \ PoolWorkers /\ Len(poolQueue) \in Nat
      /\ poolQueue \in Seq(Call) /\ shuttingDown \in BOOLEAN
      /\ workerPc \in [Workers -> Started \cup {"none"}]
  BY IoAssumption DEF TypesInv, Workers, Started
<1>c. /\ poolBusy = Cardinality(Busy) /\ PoolCoversCalls /\ QueuedCallsAreTold
      /\ Cardinality(Busy) \in Nat /\ Cardinality(Awake) \in Nat
      /\ Cardinality(PoolThreads) \in Nat /\ Cardinality(Notifying) \in Nat
  BY SetsAreCounted, CountsAreNat DEF CountInv, CountedSets, Busy
<1>1. ASSUME NEW k \in Callers, NEW class \in Classes, Request(k, class) \/ Post(k, class)
      PROVE  CountInv'
  <2>1. class # "notify"
    BY DEF Classes
  <2> QED
    BY <1>0, <1>1, <1>t, <2>1 DEF Request, Post, At
<1>2. ASSUME NEW k \in Callers, CallerStep(k) PROVE CountInv'
  <2>1. CASE \/ EnsureIoWorker(k) \/ PushSerial(k) \/ Kick(k) \/ RunInline(k)
             \/ CheckDone(k) \/ TakeSignal(k) \/ ResetEvent(k) \/ ReleaseIoEvent(k)
    BY <1>0, <2>1, <1>t
       DEF EnsureIoWorker, PushSerial, Kick, RunInline, Posted, CheckDone, TakeSignal,
           ResetEvent, ReleaseIoEvent, At
  <2>2. CASE PushPool(k)
    <3>1. CASE Refused
      BY <1>0, <2>2, <3>1, <1>t DEF PushPool, At
    <3>2. CASE ~Refused
      <4>1. /\ Len(poolQueue') = Len(poolQueue) + 1 /\ poolBusy' = poolBusy
            /\ pc' = [pc EXCEPT ![k] = "notify"] /\ pc[k] = "pushPool"
            /\ ~shuttingDown /\ ~shuttingDown'
        <5>1. CallOf(k) \in Call
          BY DEF CallOf, Call, TypesInv
        <5> QED
          BY <2>2, <3>2, <5>1, <1>t, Appended DEF PushPool, At, Refused
      <4>2. Cardinality(Notifying') = Cardinality(Notifying) + 1
        <5>1. pc' = [pc EXCEPT ![k] = pc'[k]] /\ pc'[k] = "notify"
          BY <4>1, <1>t
        <5>2. Cardinality(Notifying') = Cardinality(Notifying)
                + (IF pc'[k] = "notify" THEN 1 ELSE 0) - (IF pc[k] = "notify" THEN 1 ELSE 0)
          BY <5>1, CallerMoves
        <5> QED
          BY <1>c, <4>1, <5>1, <5>2
      <4>3. CASE UNCHANGED workerPc /\ ~(Grows /\ PoolThreads # PoolWorkers)
        <5>1. /\ Busy' = Busy /\ Awake' = Awake /\ PoolThreads' = PoolThreads
              /\ Parked' = Parked
          BY <4>3 DEF Busy, In, Awake, PoolThreads, Parked
        <5> QED
          BY <1>c, <4>1, <4>2, <4>3, <5>1
             DEF CountInv, PoolCoversCalls, QueuedCallsAreTold, Grows
      <4>4. CASE \E w \in PoolWorkers \ PoolThreads : workerPc' = [workerPc EXCEPT ![w] = "top"]
        <5>1. PICK w \in PoolWorkers : /\ workerPc' = [workerPc EXCEPT ![w] = "top"]
                                       /\ workerPc[w] = "none"
          BY <4>4 DEF PoolThreads
        <5>2. /\ Cardinality(Busy') = Cardinality(Busy)
              /\ Cardinality(Awake') = Cardinality(Awake) + 1
              /\ Cardinality(PoolThreads') = Cardinality(PoolThreads) + 1
              /\ PoolThreads = PoolWorkers => PoolThreads' = PoolWorkers
              /\ Parked' = Parked \ {w}
          <6>1. workerPc' = [workerPc EXCEPT ![w] = workerPc'[w]] /\ workerPc'[w] = "top"
            BY <5>1, <1>t
          <6>2. workerPc'[w] \in Started
            BY <6>1 DEF Started
          <6> HIDE <5>1
          <6>3. MovedBy(w)
            BY <6>1, <6>2, WorkerMoves
          <6> QED
            BY <1>c, <5>1, <6>1, <6>3 DEF MovedBy
        <5> QED
          BY <1>c, <4>1, <4>2, <5>2 DEF CountInv, PoolCoversCalls, QueuedCallsAreTold
      <4> QED
        BY <2>2, <3>2, <4>3, <4>4 DEF PushPool
    <3> QED
      BY <3>1, <3>2
  <2>3. CASE NotifyOne(k)
    <3>1. /\ UNCHANGED <<poolQueue, poolBusy, shuttingDown>> /\ pc[k] = "notify"
          /\ pc' = [pc EXCEPT ![k] = pc'[k]] /\ pc'[k] # "notify"
      <4>1. /\ pc[k] = "notify" /\ UNCHANGED <<poolQueue, poolBusy, shuttingDown>>
            /\ pc' = [pc EXCEPT ![k] = IF k \in Fibers THEN "loop" ELSE "posted"]
        BY <2>3 DEF NotifyOne, Posted, At
      <4> QED
        BY <4>1, <1>t
    <3>2. Cardinality(Notifying') = Cardinality(Notifying) - 1
      BY <3>1, CallerMoves
    <3>3. CASE Parked = {}
      <4>1. UNCHANGED workerPc
        BY <2>3, <3>3 DEF NotifyOne
      <4>2. /\ Busy' = Busy /\ PoolThreads' = PoolThreads /\ Parked' = Parked
        BY <4>1 DEF Busy, In, PoolThreads, Parked
      <4> QED
        BY <1>c, <3>1, <3>3, <4>2 DEF CountInv, PoolCoversCalls, QueuedCallsAreTold
    <3>4. CASE Parked # {}
      <4>1. PICK w \in PoolWorkers : /\ workerPc' = [workerPc EXCEPT ![w] = "top"]
                                     /\ workerPc[w] = "parked"
        BY <2>3, <3>4 DEF NotifyOne, Notifies, Parked
      <4>2. /\ Cardinality(Busy') = Cardinality(Busy)
            /\ Cardinality(Awake') = Cardinality(Awake) + 1
            /\ Cardinality(PoolThreads') = Cardinality(PoolThreads)
            /\ PoolThreads = PoolWorkers => PoolThreads' = PoolWorkers
            /\ Parked' = Parked \ {w}
        <5>1. workerPc' = [workerPc EXCEPT ![w] = workerPc'[w]] /\ workerPc'[w] = "top"
          BY <4>1, <1>t
        <5>2. workerPc'[w] \in Started
          BY <5>1 DEF Started
        <5>3. MovedBy(w)
          BY <5>1, <5>2, WorkerMoves
        <5> QED
          BY <1>c, <4>1, <5>1, <5>3 DEF MovedBy
      <4> QED
        BY <1>c, <3>1, <3>2, <3>4, <4>2, <1>t
           DEF CountInv, PoolCoversCalls, QueuedCallsAreTold
    <3> QED
      BY <3>3, <3>4
  <2> QED
    BY <1>2, <2>1, <2>2, <2>3 DEF CallerStep
<1>3. ASSUME NEW k \in Callers, WaitAgain(k) \/ PostAgain(k) PROVE CountInv'
  BY <1>0, <1>3, <1>t DEF WaitAgain, PostAgain, At
<1>4. ASSUME NEW f \in Fibers, StopFiber(f) PROVE CountInv'
  BY <1>0, <1>4, <1>t DEF StopFiber
<1>5. ASSUME NEW w \in PoolWorkers, PoolStep(w) \/ SpuriousWake(w) \/ WorkerStep(w)
      PROVE  CountInv'
  <2>1. UNCHANGED <<pc, shuttingDown>>
    BY <1>5 DEF PoolStep, PoolTop, PoolTake, Finish, SpuriousWake, WorkerStep, Run, Signal
  <2>2. Notifying' = Notifying
    BY <2>1 DEF Notifying
  <2>3. /\ workerPc' = [workerPc EXCEPT ![w] = workerPc'[w]] /\ workerPc'[w] \in Started
        => MovedBy(w)
    BY WorkerMoves
  <2> USE <1>c, <2>1, <2>2 DEF CountInv, PoolCoversCalls, QueuedCallsAreTold
  <2>4. CASE PoolTop(w)
    <3>1. /\ workerPc' = [workerPc EXCEPT ![w] = workerPc'[w]] /\ workerPc[w] = "top"
          /\ workerPc'[w] = IF shuttingDown THEN "exited" ELSE "checked"
          /\ UNCHANGED <<poolQueue, poolBusy>>
      BY <2>4, <1>t DEF PoolTop
    <3> QED
      BY <2>3, <3>1 DEF Started, MovedBy
  <2>5. CASE PoolTake(w)
    <3>1. CASE poolQueue = <<>>
      <4>1. /\ workerPc' = [workerPc EXCEPT ![w] = workerPc'[w]]
            /\ workerPc'[w] = "parked" /\ workerPc[w] = "checked"
            /\ UNCHANGED <<poolQueue, poolBusy>> /\ Len(poolQueue) = 0
        BY <2>5, <3>1, <1>t DEF PoolTake
      <4>2. Cardinality(Awake') \in Nat
        BY SetsAreCounted, CountsAreNat DEF CountedSets
      <4> QED
        BY <2>3, <4>1, <4>2 DEF Started, MovedBy
    <3>2. CASE poolQueue # <<>>
      <4>1. /\ workerPc' = [workerPc EXCEPT ![w] = workerPc'[w]]
            /\ workerPc'[w] = "run" /\ workerPc[w] = "checked"
            /\ poolBusy' = poolBusy + 1 /\ poolQueue' = Tail(poolQueue)
        BY <2>5, <3>2, <1>t DEF PoolTake
      <4>2. Len(poolQueue') = Len(poolQueue) - 1
        BY <1>t, <3>2, <4>1, Taken
      <4>3. MovedBy(w)
        BY <2>3, <4>1 DEF Started
      <4>4. /\ Cardinality(Busy') = Cardinality(Busy) + 1
            /\ Cardinality(Awake') = Cardinality(Awake) - 1
            /\ Cardinality(PoolThreads') = Cardinality(PoolThreads)
            /\ PoolThreads = PoolWorkers => PoolThreads' = PoolWorkers
            /\ Parked = {} => Parked' = {}
        BY <4>1, <4>3 DEF MovedBy
      <4>5. poolBusy' = Cardinality(Busy')
        BY <4>1, <4>4
      <4>6. poolBusy' = poolBusy + 1
        BY <4>1
      <4> HIDE <4>1
      <4>7. PoolCoversCalls'
        BY <4>2, <4>4, <4>6, <1>t
      <4>8. QueuedCallsAreTold'
        BY <4>2, <4>4, <1>t
      <4> QED
        BY <4>5, <4>7, <4>8
    <3> QED
      BY <3>1, <3>2
  <2>6. CASE Finish(w)
    <3>1. /\ workerPc' = [workerPc EXCEPT ![w] = workerPc'[w]] /\ workerPc[w] = "finish"
          /\ workerPc'[w] = IF shuttingDown THEN "exited" ELSE "checked"
          /\ UNCHANGED poolQueue /\ poolBusy' = poolBusy - 1
      BY <2>6, <1>t DEF Finish, BusyAfter
    <3> QED
      BY <2>3, <3>1, <1>t DEF Started, MovedBy
  <2>7. CASE SpuriousWake(w)
    <3>1. /\ workerPc' = [workerPc EXCEPT ![w] = workerPc'[w]]
          /\ workerPc'[w] = "top" /\ workerPc[w] = "parked"
          /\ UNCHANGED <<poolQueue, poolBusy>>
      BY <2>7, <1>t DEF SpuriousWake, Parked
    <3> QED
      BY <2>3, <3>1, <1>t DEF Started, MovedBy
  <2>8. CASE WorkerStep(w)
    <3>1. /\ workerPc' = [workerPc EXCEPT ![w] = workerPc'[w]]
          /\ workerPc[w] \in {"run", "signal"} /\ workerPc'[w] \in {"signal", "finish"}
          /\ UNCHANGED <<poolQueue, poolBusy>>
      BY <2>8, <1>t DEF WorkerStep, Run, Signal
    <3> QED
      BY <2>3, <3>1, <1>t DEF Started, MovedBy
  <2> QED
    BY <1>5, <2>4, <2>5, <2>6, <2>7, <2>8 DEF PoolStep
<1>6. ASSUME SerialStep \/ WorkerStep(Serial) PROVE CountInv'
  BY <1>0, <1>6, <1>t
     DEF SerialStep, SerialTop, SerialTake, SerialWait, SerialWake, WorkerStep, Run, Signal
<1>7. ASSUME ShutdownStep \/ BeginShutdown PROVE CountInv'
  <2>1. CASE \/ SetIoEvent \/ JoinDispatch \/ CloseOnce \/ JoinSerial \/ JoinPool
             \/ BeginShutdown
    BY <1>0, <2>1, <1>t
       DEF SetIoEvent, JoinDispatch, CloseOnce, JoinSerial, JoinPool, BeginShutdown
  <2>2. CASE NotifyAll
    <3>1. /\ UNCHANGED <<poolQueue, poolBusy>> /\ shuttingDown'
      BY <2>2 DEF NotifyAll, ShutTo, ShutInv
    <3>2. \A w \in PoolWorkers :
            workerPc'[w] = IF workerPc[w] = "parked" THEN "top" ELSE workerPc[w]
      BY <2>2, <1>t DEF NotifyAll, Parked
    <3>3. Busy' = Busy /\ PoolThreads' = PoolThreads
      BY <3>2 DEF Busy, In, PoolThreads
    <3> QED
      BY <1>c, <3>1, <3>3 DEF CountInv, PoolCoversCalls, QueuedCallsAreTold
  <2>3. CASE DropQueued
    <3>1. /\ poolQueue' = <<>> /\ UNCHANGED <<poolBusy, workerPc, shuttingDown>>
          /\ shuttingDown /\ Len(poolQueue') = 0
      BY <2>3 DEF DropQueued, ShutTo, ShutInv
    <3>2. Busy' = Busy /\ PoolThreads' = PoolThreads
      BY <3>1 DEF Busy, In, PoolThreads
    <3> QED
      BY <1>c, <1>t, <3>1, <3>2 DEF CountInv, PoolCoversCalls, QueuedCallsAreTold
  <2> QED
    BY <1>7, <2>1, <2>2, <2>3 DEF ShutdownStep
<1>8. CASE UNCHANGED vars
  BY <1>0, <1>8 DEF vars, steps
<1> QED
  BY <1>1, <1>2, <1>3, <1>4, <1>5, <1>6, <1>7, <1>8 DEF Next, Step, Workers

-----------------------------------------------------------------------------
(* The theorems. *)

IInv == TypesInv /\ FrameInv /\ ShutInv /\ CountInv

\* The invariant is inductive.
LEMMA IInvAlways == Spec => []IInv
<1>1. Init => IInv
  BY TypesInit, FrameInit, ShutInit, CountInit DEF IInv
<1>2. IInv /\ [Next]_vars => IInv'
  BY TypesStep, FrameStep, ShutStep, CountStep DEF IInv
<1> QED
  BY <1>1, <1>2, PTL DEF Spec

\* io_pool_busy_ never exceeds the number of workers.
LEMMA IInvTypes == IInv => TypeOK
<1> SUFFICES ASSUME IInv PROVE TypeOK
  OBVIOUS
<1>1. poolBusy \in 0..Cardinality(PoolWorkers)
  <2>1. Busy \subseteq PoolWorkers
    BY DEF Busy, In
  <2>2. Cardinality(Busy) <= Cardinality(PoolWorkers) /\ Cardinality(Busy) \in Nat
    BY <2>1, IoAssumption, FS_Subset, FS_CardinalityType
  <2>3. Cardinality(PoolWorkers) \in Nat
    BY IoAssumption, FS_CardinalityType
  <2> QED
    BY <2>2, <2>3 DEF IInv, CountInv
<1> QED
  BY <1>1 DEF IInv, TypesInv, TypeOK

\* fn and the store of done write into a frame of RunBlockingIo that has not been left,
\* for any number of callers, workers and events (kernel_state.cc, RunBlockingIo).
THEOREM CallsHaveTheirFrame == Spec => []FrameOutlivesCall
<1>1. IInv => FrameOutlivesCall
  BY DEF IInv, FrameInv, FrameOf, Out, InSerial, InPool, Holds, RunBy, FrameOutlivesCall
<1> QED
  BY <1>1, IInvAlways, PTL

\* The pool has a worker for every call until it is full, every queued call is told to a
\* worker, no count leaves its range, and no worker or call is left when Shutdown returns,
\* for any number of pool workers (guest_scheduler.cc, EnqueuePoolCall, IoPoolWorkerLoop,
\* Shutdown).
THEOREM PoolSuffices == Spec => []WorkersSuffice
<1>1. IInv => PoolCoversCalls /\ QueuedCallsAreTold
  BY DEF IInv, CountInv
<1>2. IInv => NothingAfterShutdown
  BY DEF IInv, ShutInv, NothingAfterShutdown, Workers
<1> QED
  BY <1>1, <1>2, IInvTypes, IInvAlways, PTL DEF WorkersSuffice

-----------------------------------------------------------------------------
(***************************************************************************)
(* The requests of a file, for any threads, workers and bound.             *)
(*                                                                         *)
(* The list is in the order of posting and holds exactly the requests that *)
(* are posted, every request that started was posted before them, and a    *)
(* runner is asked for, queued or at work in one place.                    *)
(***************************************************************************)
Begun(r) == pStatus[r] \in {"running", "done"}
InFile(r) == \E i \in DOMAIN pPosted : pPosted[i] = r

FileList ==
  /\ \A i, j \in DOMAIN pPosted : i < j => pPosted[i] < pPosted[j]
  /\ \A r \in File!Requests : /\ pStatus[r] = "posted" <=> InFile(r)
                              /\ pStatus[r] = "none" <=> r > pPosts
FileIssuers ==
  \A r \in File!Requests :
    /\ r <= pPosts <=> pIssuer[r] \in Issuers
    /\ pStatus[r] = "cancelling" => pPc[pIssuer[r]] = "cancel"
FileOrder ==
  \A q, r \in File!Requests :
    /\ Begun(q) /\ pStatus[r] = "posted" => q < r
    /\ pStatus[q] = "done" /\ pStatus[r] = "running" => q < r

\* Where the one runner of the file is.
AtWork(x) == pRunPc[x] # "idle"
Asked == \E t \in Issuers : pPc[t] = "post"
OneRunner ==
  /\ \A t, u \in Issuers : pPc[t] = "post" /\ pPc[u] = "post" => t = u
  /\ \A x, y \in File!Runners : AtWork(x) /\ AtWork(y) => x = y
  /\ Asked => pHostCalls = 0
  /\ Asked \/ pHostCalls > 0 => \A x \in File!Runners : ~AtWork(x)
  /\ Asked \/ pHostCalls > 0 \/ (\E x \in File!Runners : AtWork(x)) => pPostedRunning
\* What it runs.
RunnersRequest ==
  /\ \A x \in File!Runners :
       pRunPc[x] = "run" => /\ pCurrent[x] \in File!Requests
                            /\ pStatus[pCurrent[x]] = "running"
                            /\ pRunningThread = pIssuer[pCurrent[x]]
  /\ \A r \in File!Requests :
       pStatus[r] = "running" =>
         \E x \in File!Runners : pRunPc[x] = "run" /\ pCurrent[x] = r

FileInv ==
  File!TypeOK /\ FileList /\ FileIssuers /\ FileOrder /\ OneRunner /\ RunnersRequest

\* A set of numbers has a least one.
LEMMA LeastNumber ==
  ASSUME NEW T \in SUBSET Nat, T # {}
  PROVE  \E i \in T : \A j \in T : ~(j < i)
<1> DEFINE R == OpToRel(<, Nat)
<1>1. IsWellFoundedOn(R, Nat)
  BY NatLessThanWellFounded, Zenon
<1>2. R = {ss \in Nat \X Nat : ss[1] < ss[2]}
  BY Zenon DEF OpToRel
<1> HIDE DEF R
<1>3. PICK i \in T : \A j \in T : ~(<<j, i>> \in R)
  BY <1>1, WFMin, Zenon
<1> QED
  BY <1>2, <1>3

\* Each element of a set of indices has its rank, and each rank its element.
LEMMA Ranks ==
  ASSUME NEW n \in Nat, NEW K \in SUBSET (1..n)
  PROVE  LET Upto(i) == {j \in K : j <= i}
         IN  /\ Cardinality(K) \in Nat
             /\ \A i \in K : Cardinality(Upto(i)) \in 1..Cardinality(K)
             /\ \A i, j \in K : Cardinality(Upto(i)) < Cardinality(Upto(j)) => i < j
             /\ \A i, j \in K : Cardinality(Upto(i)) = Cardinality(Upto(j)) => i = j
             /\ \A k \in 1..Cardinality(K) : \E i \in K : Cardinality(Upto(i)) = k
<1> DEFINE Upto(i) == {j \in K : j <= i}
           C(i) == Cardinality(Upto(i))
<1>0. \A i \in K : i \in Nat /\ i >= 1 /\ i <= n
  OBVIOUS
<1>1. IsFiniteSet(1..n)
  BY FS_Interval
<1>2. IsFiniteSet(K) /\ Cardinality(K) \in Nat
  BY <1>1, FS_Subset, FS_CardinalityType
<1>3. \A i \in Int : /\ IsFiniteSet(Upto(i)) /\ C(i) \in Nat /\ C(i) <= Cardinality(K)
  BY <1>2, FS_Subset, FS_CardinalityType
<1>4. ASSUME NEW i \in Int, NEW j \in Int, i <= j
      PROVE  C(i) <= C(j) /\ (C(i) = C(j) => Upto(i) = Upto(j))
  <2>1. Upto(i) \subseteq Upto(j)
    <3>1. ASSUME NEW x \in K, x <= i PROVE x <= j
      <4>1. x \in Int
        BY <1>0
      <4> QED
        BY <1>4, <3>1, <4>1
    <3> QED
      BY <3>1, Zenon
  <2> QED
    BY <1>3, <2>1, FS_Subset
<1>5. \A i \in K : i \in Upto(i) /\ i \in Int
  BY <1>0
<1>6. ASSUME NEW i \in K PROVE C(i) \in 1..Cardinality(K)
  <2>1. Upto(i) # {} /\ IsFiniteSet(Upto(i))
    BY <1>3, <1>5
  <2>2. C(i) # 0
    BY <2>1, FS_EmptySet
  <2> QED
    BY <1>2, <1>3, <1>5, <2>2
<1>7. ASSUME NEW i \in K, NEW j \in K, C(i) < C(j) PROVE i < j
  <2> SUFFICES ASSUME j <= i PROVE FALSE
    BY <1>5
  <2>1. C(j) <= C(i) /\ C(i) \in Nat /\ C(j) \in Nat
    BY <1>3, <1>4, <1>5
  <2> HIDE DEF C
  <2> QED
    BY <1>7, <2>1
<1>8. ASSUME NEW i \in K, NEW j \in K, C(i) = C(j), i < j PROVE FALSE
  <2>1. Upto(i) = Upto(j)
    BY <1>0, <1>4, <1>5, <1>8
  <2>2. j \in Upto(j) /\ ~(j \in Upto(i))
    BY <1>0, <1>8
  <2> QED
    BY <2>1, <2>2
<1>9. ASSUME NEW k \in 1..Cardinality(K) PROVE \E i \in K : C(i) = k
  <2> DEFINE T == {i \in 1..n : C(i) >= k}
  <2>1. K = Upto(n)
    BY <1>0
  <2>2. n \in T
    <3>1. C(n) = Cardinality(K)
      BY <2>1
    <3>2. n # 0
      <4> SUFFICES ASSUME n = 0 PROVE FALSE
        OBVIOUS
      <4>1. K = {}
        OBVIOUS
      <4> QED
        BY <4>1, FS_EmptySet
    <3> QED
      BY <1>2, <3>1, <3>2
  <2>3. PICK i \in T : \A j \in T : ~(j < i)
    <3>1. T \in SUBSET Nat
      OBVIOUS
    <3>2. T # {}
      BY <2>2
    <3> HIDE DEF T
    <3> QED
      BY <3>1, <3>2, LeastNumber
  <2>4. C(i - 1) < k /\ i \in 1..n /\ C(i) >= k
    <3>1. CASE i = 1
      <4>1. \A j \in K : ~(j <= 0)
        BY <1>0
      <4>2. Upto(0) = {}
        BY <4>1, Zenon
      <4>3. C(0) = 0 /\ i - 1 = 0 /\ i \in 1..n /\ C(i) >= k
        BY <2>3, <3>1, <4>2, FS_EmptySet
      <4> HIDE DEF C, Upto
      <4> QED
        BY <4>3
    <3>2. CASE i # 1
      <4>1. i \in 1..n /\ C(i) >= k
        BY <2>3
      <4>2. i - 1 \in 1..n /\ i - 1 \in Int /\ i - 1 < i
        BY <3>2, <4>1
      <4>3. C(i - 1) \in Nat
        BY <1>3, <4>2
      <4>4. ~(i - 1 \in T)
        BY <2>3, <4>2, Zenon
      <4> HIDE DEF C
      <4> QED
        BY <4>1, <4>2, <4>3, <4>4
    <3> QED
      BY <3>1, <3>2
  <2>10. i \in Int /\ i - 1 \in Int /\ ~(i <= i - 1)
    BY <2>4
  <2>11. ASSUME NEW j \in K PROVE j <= i <=> j = i \/ j <= i - 1
    <3>1. j \in Int
      BY <1>0
    <3> QED
      BY <2>10, <3>1
  <2>5. Upto(i) = IF i \in K THEN Upto(i - 1) \cup {i} ELSE Upto(i - 1)
    <3>1. CASE i \in K
      BY <2>11, <3>1, Zenon
    <3>2. CASE i \notin K
      BY <2>11, <3>2, Zenon
    <3> QED
      BY <3>1, <3>2
  <2>6. i \notin Upto(i - 1) /\ IsFiniteSet(Upto(i - 1))
    BY <1>3, <2>10
  <2>7. Cardinality(Upto(i - 1) \cup {i}) = C(i - 1) + 1
    BY <2>6, FS_AddElement
  <2>8. C(i) = IF i \in K THEN C(i - 1) + 1 ELSE C(i - 1)
    BY <2>5, <2>7
  <2>9. C(i - 1) \in Nat
    BY <1>3, <2>10
  <2> HIDE DEF C, Upto
  <2> QED
    BY <2>4, <2>8, <2>9
<1> HIDE DEF C
<1>10. \A i, j \in K : C(i) = C(j) => i = j
  BY <1>5, <1>8
<1>11. /\ \A i \in K : C(i) \in 1..Cardinality(K)
       /\ \A i, j \in K : C(i) < C(j) => i < j
       /\ \A k \in 1..Cardinality(K) : \E i \in K : C(i) = k
  BY <1>6, <1>7, <1>9
<1> QED
  BY <1>2, <1>10, <1>11 DEF C

\* The instance counts as the library does.
LEMMA FileCounts == \A S : File!Cardinality(S) = Cardinality(S)
  BY DEF File!Cardinality, Cardinality

\* The elements of s at the indices K, in their order: a sequence that holds these and
\* no other.
LEMMA Kept ==
  ASSUME NEW S, NEW s \in Seq(S), NEW K \in SUBSET DOMAIN s
  PROVE  LET w == File!At(s, K)
         IN  /\ w \in Seq(S)
             /\ \A k, l \in DOMAIN w :
                  k < l => \E i, j \in DOMAIN s : i < j /\ w[k] = s[i] /\ w[l] = s[j]
             /\ \A k \in DOMAIN w : \E i \in K : w[k] = s[i]
             /\ \A i \in K : \E k \in DOMAIN w : w[k] = s[i]
<1> DEFINE Upto(i) == {j \in K : j <= i}
           C(i) == File!Cardinality(Upto(i))
           Nth(k) == CHOOSE i \in K : C(i) = k
           n == File!Cardinality(K)
           w == [k \in 1..n |-> s[Nth(k)]]
<1>1. Len(s) \in Nat /\ DOMAIN s = 1..Len(s) /\ \A i \in DOMAIN s : s[i] \in S
  OBVIOUS
<1>2. /\ n \in Nat
      /\ \A i \in K : C(i) \in 1..n
      /\ \A i, j \in K : C(i) < C(j) => i < j
      /\ \A i, j \in K : C(i) = C(j) => i = j
      /\ \A k \in 1..n : \E i \in K : C(i) = k
  <2>1. n = Cardinality(K) /\ \A i : C(i) = Cardinality(Upto(i))
    BY FileCounts
  <2>2. /\ Cardinality(K) \in Nat
        /\ \A i \in K : Cardinality(Upto(i)) \in 1..Cardinality(K)
        /\ \A i, j \in K : Cardinality(Upto(i)) < Cardinality(Upto(j)) => i < j
        /\ \A i, j \in K : Cardinality(Upto(i)) = Cardinality(Upto(j)) => i = j
        /\ \A k \in 1..Cardinality(K) : \E i \in K : Cardinality(Upto(i)) = k
    BY <1>1, Ranks
  <2> HIDE DEF C, n, Upto
  <2> QED
    BY <2>1, <2>2
<1>3. File!At(s, K) = w
  BY Zenon DEF File!At
<1> HIDE DEF C, n
<1>4. \A k \in 1..n : Nth(k) \in K /\ C(Nth(k)) = k
  BY <1>2, Zenon
<1>5. \A i \in K : Nth(C(i)) = i
  BY <1>2, <1>4
<1> HIDE DEF Nth
<1>6. w \in Seq(S)
  BY <1>1, <1>2, <1>4
<1>7. DOMAIN w = 1..n /\ \A k \in DOMAIN w : w[k] = s[Nth(k)]
  OBVIOUS
<1> HIDE DEF w
<1>8. ASSUME NEW k \in DOMAIN w, NEW l \in DOMAIN w, k < l
      PROVE  \E i, j \in DOMAIN s : i < j /\ w[k] = s[i] /\ w[l] = s[j]
  <2>1. Nth(k) < Nth(l) /\ Nth(k) \in K /\ Nth(l) \in K
    BY <1>2, <1>4, <1>7, <1>8
  <2> QED
    BY <1>7, <2>1
<1>9. \A k \in DOMAIN w : \E i \in K : w[k] = s[i]
  BY <1>4, <1>7
<1>10. \A i \in K : \E k \in DOMAIN w : w[k] = s[i]
  BY <1>2, <1>5, <1>7
<1> QED
  BY <1>3, <1>6, <1>8, <1>9, <1>10

\* CancelPostedIo leaves the other threads' requests, in their order.
LEMMA Left ==
  ASSUME NEW t, pPosted \in Seq(File!Requests)
  PROVE  LET w == File!Without(t)
         IN  /\ w \in Seq(File!Requests)
             /\ \A k, l \in DOMAIN w :
                  k < l => \E i, j \in DOMAIN pPosted :
                             i < j /\ w[k] = pPosted[i] /\ w[l] = pPosted[j]
             /\ \A k \in DOMAIN w :
                  \E i \in DOMAIN pPosted : pIssuer[pPosted[i]] # t /\ w[k] = pPosted[i]
             /\ \A i \in DOMAIN pPosted :
                  pIssuer[pPosted[i]] # t => \E k \in DOMAIN w : w[k] = pPosted[i]
<1> DEFINE K == {i \in DOMAIN pPosted : pIssuer[pPosted[i]] # t}
           w == File!At(pPosted, K)
<1>1. File!Without(t) = w
  BY Zenon DEF File!Without
<1>2. /\ K \in SUBSET DOMAIN pPosted
      /\ \A i \in K : i \in DOMAIN pPosted /\ pIssuer[pPosted[i]] # t
      /\ \A i \in DOMAIN pPosted : pIssuer[pPosted[i]] # t => i \in K
  OBVIOUS
<1> HIDE DEF K
<1>3. /\ w \in Seq(File!Requests)
      /\ \A k, l \in DOMAIN w :
           k < l => \E i, j \in DOMAIN pPosted :
                      i < j /\ w[k] = pPosted[i] /\ w[l] = pPosted[j]
      /\ \A k \in DOMAIN w : \E i \in K : w[k] = pPosted[i]
      /\ \A i \in K : \E k \in DOMAIN w : w[k] = pPosted[i]
  BY <1>2, Kept, Zenon
<1> HIDE DEF w
<1>4. \A k \in DOMAIN w : \E i \in DOMAIN pPosted : pIssuer[pPosted[i]] # t /\ w[k] = pPosted[i]
  BY <1>2, <1>3, Zenon
<1>5. \A i \in DOMAIN pPosted : pIssuer[pPosted[i]] # t => \E k \in DOMAIN w : w[k] = pPosted[i]
  BY <1>2, <1>3, Zenon
<1> QED
  BY <1>1, <1>3, <1>4, <1>5


\* PostIo puts a new last request on the list, and asks for a runner when there is none.
LEMMA PostIoFile ==
  ASSUME FileInv, NEW t \in Issuers, File!PostIo(t)
  PROVE  FileInv'
<1>0. /\ MaxPosts \in Nat /\ NoCall \notin Issuers
      /\ File!Requests = 1..MaxPosts /\ t \in File!Runners
  BY FileOK DEF File!PostedAssumption, File!Requests, File!Runners
<1>1. /\ pPosts \in 0..MaxPosts /\ pPosts < MaxPosts /\ pPosts' = pPosts + 1
      /\ pPosts + 1 \in File!Requests
      /\ pIssuer' = [pIssuer EXCEPT ![pPosts + 1] = t]
      /\ pStatus' = [pStatus EXCEPT ![pPosts + 1] = "posted"]
      /\ pPosted' = Append(pPosted, pPosts + 1)
      /\ pPc[t] = "idle"
      /\ UNCHANGED <<pRunningThread, pHostCalls, pRunPc, pCurrent, pShuttingDown>>
      /\ pIssuer \in [File!Requests -> Issuers \cup {NoCall}]
      /\ pStatus \in [File!Requests -> {"none", "posted", "running", "done", "cancelling",
                                        "cancelled"}]
      /\ pPosted \in Seq(File!Requests)
      /\ pPc \in [Issuers -> {"idle", "post", "cancel", "cancelled", "polling"}]
  BY <1>0 DEF FileInv, File!TypeOK, File!PostIo, File!Free
<1>2. /\ \A r \in File!Requests :
           r # pPosts + 1 => pStatus'[r] = pStatus[r] /\ pIssuer'[r] = pIssuer[r]
      /\ pStatus'[pPosts + 1] = "posted" /\ pIssuer'[pPosts + 1] = t
  BY <1>1
<1>3. \/ /\ pPostedRunning /\ UNCHANGED <<pPostedRunning, pPc>>
      \/ /\ ~pPostedRunning /\ pPostedRunning' = TRUE /\ pPc' = [pPc EXCEPT ![t] = "post"]
  BY DEF File!PostIo, File!HasRunner, File!Goto, FileInv, File!TypeOK
<1>4. /\ pPosted' \in Seq(File!Requests) /\ DOMAIN pPosted' = 1..Len(pPosted) + 1
      /\ DOMAIN pPosted = 1..Len(pPosted) /\ Len(pPosted) \in Nat
      /\ \A i \in DOMAIN pPosted : pPosted'[i] = pPosted[i] /\ pPosted[i] \in File!Requests
      /\ pPosted'[Len(pPosted) + 1] = pPosts + 1
  BY <1>1, Appended
<1>5. File!TypeOK'
  <2>1. pPostedRunning' \in BOOLEAN
    BY <1>3 DEF FileInv, File!TypeOK
  <2>2. pPc' \in [Issuers -> {"idle", "post", "cancel", "cancelled", "polling"}]
    BY <1>1, <1>3
  <2> QED
    BY <1>0, <1>1, <1>4, <2>1, <2>2 DEF FileInv, File!TypeOK
<1>6. FileList'
  <2>1. \A i \in DOMAIN pPosted : pPosted[i] < pPosts + 1
    BY <1>0, <1>1, <1>4 DEF FileInv, FileList, InFile
  <2>2. \A i, j \in DOMAIN pPosted' : i < j => pPosted'[i] < pPosted'[j]
    BY <1>4, <2>1 DEF FileInv, FileList
  <2>3. \A r \in File!Requests : InFile(r)' <=> InFile(r) \/ r = pPosts + 1
    BY <1>4 DEF InFile
  <2>4. \A r \in File!Requests : /\ pStatus'[r] = "posted" <=> InFile(r)'
                                 /\ pStatus'[r] = "none" <=> r > pPosts'
    BY <1>0, <1>1, <1>2, <2>3 DEF FileInv, FileList
  <2> QED
    BY <2>2, <2>4 DEF FileList
<1>7. FileIssuers'
  <2>1. ASSUME NEW r \in File!Requests, pStatus'[r] = "cancelling"
        PROVE  pPc'[pIssuer'[r]] = "cancel"
    <3>1. r # pPosts + 1 /\ pStatus[r] = "cancelling" /\ pIssuer'[r] = pIssuer[r]
      BY <1>2, <2>1
    <3>2. pIssuer[r] \in Issuers /\ pPc[pIssuer[r]] = "cancel"
      BY <1>0, <1>1, <3>1 DEF FileInv, FileIssuers, FileList
    <3> QED
      BY <1>1, <1>3, <3>1, <3>2
  <2>2. \A r \in File!Requests : r <= pPosts' <=> pIssuer'[r] \in Issuers
    BY <1>0, <1>1, <1>2 DEF FileInv, FileIssuers
  <2> QED
    BY <2>1, <2>2 DEF FileIssuers
<1>8. FileOrder'
  BY <1>0, <1>1, <1>2 DEF FileInv, FileOrder, FileList, Begun
<1>9. OneRunner'
  <2>1. CASE UNCHANGED <<pPostedRunning, pPc>>
    BY <1>1, <2>1 DEF FileInv, OneRunner, AtWork, Asked
  <2>2. CASE ~pPostedRunning /\ pPostedRunning' = TRUE /\ pPc' = [pPc EXCEPT ![t] = "post"]
    <3>1. ~Asked /\ ~(pHostCalls > 0) /\ \A x \in File!Runners : ~AtWork(x)
      BY <2>2, Zenon DEF FileInv, OneRunner
    <3>2. pHostCalls' = 0 /\ \A x \in File!Runners : ~AtWork(x)'
      BY <1>1, <3>1 DEF FileInv, File!TypeOK, AtWork
    <3>3. \A u \in Issuers : pPc'[u] = "post" => u = t
      BY <1>1, <2>2, <3>1 DEF Asked
    <3> QED
      BY <2>2, <3>2, <3>3 DEF OneRunner, Asked
  <2> QED
    BY <1>3, <2>1, <2>2
<1>10. RunnersRequest'
  BY <1>0, <1>1, <1>2 DEF FileInv, FileList, RunnersRequest
<1> QED
  BY <1>5, <1>6, <1>7, <1>8, <1>9, <1>10 DEF FileInv

\* A step that leaves the requests, what the runners do with them and who is in
\* NtCancelIoFile leaves what is said of the list.
LEMMA ListLeft ==
  ASSUME FileInv, UNCHANGED <<pPosts, pIssuer, pStatus, pPosted, pRunningThread, pCurrent>>,
         \A t \in Issuers : pPc[t] = "cancel" => pPc'[t] = "cancel",
         \A x \in File!Runners : pRunPc[x] = "run" <=> pRunPc'[x] = "run"
  PROVE  FileList' /\ FileIssuers' /\ FileOrder' /\ RunnersRequest'
<1>1. FileList'
  BY DEF FileInv, FileList, InFile
<1>2. FileIssuers'
  <2>1. \A r \in File!Requests : pStatus[r] = "cancelling" => pIssuer[r] \in Issuers
    BY FileOK DEF FileInv, FileIssuers, FileList, File!TypeOK, File!Requests,
         File!PostedAssumption
  <2> QED
    BY <2>1 DEF FileInv, FileIssuers
<1>3. FileOrder'
  BY DEF FileInv, FileOrder, Begun
<1>4. RunnersRequest'
  BY DEF FileInv, RunnersRequest
<1> QED
  BY <1>1, <1>2, <1>3, <1>4

\* PostHostCall hands the runner the thread asked for to the workers, or is it itself.
LEMMA PostHostCallFile ==
  ASSUME FileInv, NEW t \in Issuers, File!PostHostCall(t)
  PROVE  FileInv'
<1>1. /\ pPc[t] = "post" /\ pPc' = [pPc EXCEPT ![t] = "idle"]
      /\ pPc \in [Issuers -> {"idle", "post", "cancel", "cancelled", "polling"}]
      /\ pRunPc \in [File!Runners -> {"idle", "top", "run", "relock"}]
      /\ t \in File!Runners
      /\ UNCHANGED <<pPosts, pIssuer, pStatus, pPosted, pPostedRunning, pRunningThread,
                     pCurrent, pShuttingDown>>
  BY DEF FileInv, File!TypeOK, File!PostHostCall, File!Goto, File!Runners
<1>2. /\ Asked /\ pHostCalls = 0 /\ \A x \in File!Runners : ~AtWork(x)
      /\ \A u \in Issuers : pPc[u] = "post" => u = t
  BY <1>1 DEF FileInv, OneRunner, Asked
<1>3. pPostedRunning
  BY <1>2, Zenon DEF FileInv, OneRunner
<1>4. \/ pRunPc' = [pRunPc EXCEPT ![t] = "top"] /\ pHostCalls' = 0
      \/ pHostCalls' = 1 /\ pRunPc' = pRunPc
  BY <1>2 DEF File!PostHostCall, File!RunTo
<1>5. File!TypeOK'
  BY <1>1, <1>4 DEF FileInv, File!TypeOK
<1>6. FileList' /\ FileIssuers' /\ FileOrder' /\ RunnersRequest'
  <2>1. \A u \in Issuers : pPc[u] = "cancel" => pPc'[u] = "cancel"
    BY <1>1
  <2>2. \A x \in File!Runners : pRunPc[x] = "run" <=> pRunPc'[x] = "run"
    BY <1>1, <1>2, <1>4 DEF AtWork
  <2> QED
    BY <1>1, <2>1, <2>2, ListLeft
<1>7. OneRunner'
  <2>1. \A u \in Issuers : pPc'[u] # "post"
    BY <1>1, <1>2
  <2>2. \/ pHostCalls' = 0
        \/ \A x \in File!Runners : ~AtWork(x)'
    BY <1>2, <1>4 DEF AtWork
  <2>3. \A x, y \in File!Runners : AtWork(x)' /\ AtWork(y)' => x = y
    BY <1>1, <1>2, <1>4 DEF AtWork
  <2>4. pPostedRunning'
    BY <1>1, <1>3, Zenon
  <2> QED
    BY <2>1, <2>2, <2>3, <2>4 DEF OneRunner, Asked
<1> QED
  BY <1>5, <1>6, <1>7 DEF FileInv

\* A worker takes the call.
LEMMA WorkerTakesFile ==
  ASSUME FileInv, NEW w \in FileWorkers, File!WorkerTakes(w)
  PROVE  FileInv'
<1>1. /\ pHostCalls = 1 /\ pHostCalls' = 0
      /\ pRunPc[w] = "idle" /\ pRunPc' = [pRunPc EXCEPT ![w] = "top"]
      /\ pRunPc \in [File!Runners -> {"idle", "top", "run", "relock"}]
      /\ w \in File!Runners
      /\ UNCHANGED <<pPosts, pIssuer, pStatus, pPosted, pPostedRunning, pRunningThread,
                     pPc, pCurrent, pShuttingDown>>
  BY DEF FileInv, File!TypeOK, File!WorkerTakes, File!RunTo, File!Runners
<1>2. ~Asked /\ \A x \in File!Runners : ~AtWork(x)
  BY <1>1 DEF FileInv, OneRunner
<1>3. pPostedRunning
  <2>1. pHostCalls > 0
    BY <1>1
  <2> QED
    BY <2>1, Zenon DEF FileInv, OneRunner
<1>4. File!TypeOK'
  BY <1>1 DEF FileInv, File!TypeOK
<1>5. FileList' /\ FileIssuers' /\ FileOrder' /\ RunnersRequest'
  <2>1. \A x \in File!Runners : pRunPc[x] = "run" <=> pRunPc'[x] = "run"
    BY <1>1
  <2> QED
    BY <1>1, <2>1, ListLeft
<1>6. OneRunner'
  <2>1. ~Asked' /\ \A u \in Issuers : pPc'[u] # "post"
    BY <1>1, <1>2 DEF Asked
  <2>2. \A x, y \in File!Runners : AtWork(x)' /\ AtWork(y)' => x = y
    BY <1>1, <1>2 DEF AtWork
  <2>3. pPostedRunning'
    BY <1>1, <1>3, Zenon
  <2> QED
    BY <1>1, <2>1, <2>2, <2>3 DEF OneRunner
<1> QED
  BY <1>4, <1>5, <1>6 DEF FileInv

\* Shutdown begins, and drops the call no worker took.
LEMMA ShutdownFile ==
  ASSUME FileInv, File!BeginShutdown \/ File!DropCalls
  PROVE  FileInv'
<1>1. /\ pHostCalls' = pHostCalls \/ pHostCalls' = 0
      /\ pShuttingDown' \in BOOLEAN
      /\ UNCHANGED <<pPosts, pIssuer, pStatus, pPosted, pPostedRunning, pRunningThread,
                     pPc, pRunPc, pCurrent>>
  BY DEF FileInv, File!TypeOK, File!BeginShutdown, File!DropCalls
<1>2. File!TypeOK'
  BY <1>1 DEF FileInv, File!TypeOK
<1>3. FileList' /\ FileIssuers' /\ FileOrder' /\ RunnersRequest'
  BY <1>1, ListLeft
<1>4. OneRunner'
  <2>1. pHostCalls' > 0 => pHostCalls > 0
    BY <1>1
  <2>2. pHostCalls = 0 => pHostCalls' = 0
    BY <1>1
  <2> QED
    BY <1>1, <2>1, <2>2, ZenonT(30) DEF FileInv, OneRunner, Asked, AtWork
<1> QED
  BY <1>2, <1>3, <1>4 DEF FileInv

\* A step that leaves the runners and who asks for one leaves what is said of them.
LEMMA RunnersLeft ==
  ASSUME FileInv, UNCHANGED <<pPostedRunning, pHostCalls, pRunPc>>,
         \A t \in Issuers : pPc'[t] = "post" <=> pPc[t] = "post"
  PROVE  OneRunner'
BY ZenonT(30) DEF FileInv, OneRunner, Asked, AtWork

\* CancelPostedIo takes the thread's requests off the list.
LEMMA CancelPostedIoFile ==
  ASSUME FileInv, NEW t \in Issuers, File!CancelPostedIo(t)
  PROVE  FileInv'
<1> DEFINE cut(r) == pStatus[r] = "posted" /\ pIssuer[r] = t
<1>1. /\ pPc[t] = "idle" /\ pPc' = [pPc EXCEPT ![t] = "cancel"]
      /\ pPc \in [Issuers -> {"idle", "post", "cancel", "cancelled", "polling"}]
      /\ pStatus \in [File!Requests -> {"none", "posted", "running", "done", "cancelling",
                                        "cancelled"}]
      /\ pStatus' = [r \in File!Requests |-> IF cut(r) THEN "cancelling" ELSE pStatus[r]]
      /\ pPosted' = File!Without(t) /\ pPosted \in Seq(File!Requests)
      /\ UNCHANGED <<pPosts, pIssuer, pPostedRunning, pRunningThread, pHostCalls, pRunPc,
                     pCurrent, pShuttingDown>>
  BY DEF FileInv, File!TypeOK, File!CancelPostedIo, File!Goto, File!Free
<1>2. \A r \in File!Requests : pStatus'[r] = IF cut(r) THEN "cancelling" ELSE pStatus[r]
  BY <1>1
<1>3. /\ pPosted' \in Seq(File!Requests)
      /\ \A k, l \in DOMAIN pPosted' :
           k < l => \E i, j \in DOMAIN pPosted :
                      i < j /\ pPosted'[k] = pPosted[i] /\ pPosted'[l] = pPosted[j]
      /\ \A k \in DOMAIN pPosted' :
           \E i \in DOMAIN pPosted : pIssuer[pPosted[i]] # t /\ pPosted'[k] = pPosted[i]
      /\ \A i \in DOMAIN pPosted :
           pIssuer[pPosted[i]] # t => \E k \in DOMAIN pPosted' : pPosted'[k] = pPosted[i]
  BY <1>1, Left
<1>4. File!TypeOK'
  <2>1. pStatus' \in [File!Requests -> {"none", "posted", "running", "done", "cancelling",
                                        "cancelled"}]
    BY <1>1
  <2>2. pPc' \in [Issuers -> {"idle", "post", "cancel", "cancelled", "polling"}]
    BY <1>1
  <2> QED
    BY <1>1, <1>3, <2>1, <2>2 DEF FileInv, File!TypeOK
<1>5. FileList'
  <2>1. \A k, l \in DOMAIN pPosted' : k < l => pPosted'[k] < pPosted'[l]
    BY <1>3 DEF FileInv, FileList
  <2>2. \A r \in File!Requests : InFile(r)' <=> InFile(r) /\ pIssuer[r] # t
    BY <1>3 DEF InFile
  <2>3. \A r \in File!Requests : /\ pStatus'[r] = "posted" <=> InFile(r)'
                                 /\ pStatus'[r] = "none" <=> r > pPosts'
    BY <1>1, <1>2, <2>2 DEF FileInv, FileList
  <2> QED
    BY <2>1, <2>3 DEF FileList
<1>6. FileIssuers'
  <2>1. ASSUME NEW r \in File!Requests, pStatus'[r] = "cancelling"
        PROVE  pPc'[pIssuer'[r]] = "cancel"
    <3>1. CASE cut(r)
      BY <1>1, <3>1
    <3>2. CASE ~cut(r)
      <4>1. pPc[pIssuer[r]] = "cancel"
        BY <1>2, <2>1, <3>2 DEF FileInv, FileIssuers
      <4>2. r <= pPosts
        BY <1>2, <2>1, <3>2, FileOK
        DEF FileInv, FileList, File!TypeOK, File!Requests, File!PostedAssumption
      <4>3. pIssuer[r] \in Issuers
        BY <4>2 DEF FileInv, FileIssuers
      <4> QED
        BY <1>1, <4>1, <4>3
    <3> QED
      BY <3>1, <3>2
  <2>2. \A r \in File!Requests : r <= pPosts' <=> pIssuer'[r] \in Issuers
    BY <1>1 DEF FileInv, FileIssuers
  <2> QED
    BY <2>1, <2>2 DEF FileIssuers
<1>7. FileOrder'
  <2>1. \A r \in File!Requests : /\ Begun(r)' => Begun(r)
                                 /\ \A s \in {"posted", "done", "running"} :
                                      pStatus'[r] = s => pStatus[r] = s
    BY <1>2 DEF Begun
  <2> QED
    BY <2>1 DEF FileInv, FileOrder
<1>8. OneRunner'
  <2>1. \A u \in Issuers : pPc'[u] = "post" <=> pPc[u] = "post"
    BY <1>1
  <2> QED
    BY <1>1, <2>1, RunnersLeft
<1>9. RunnersRequest'
  BY <1>1, <1>2 DEF FileInv, RunnersRequest
<1> QED
  BY <1>4, <1>5, <1>6, <1>7, <1>8, <1>9 DEF FileInv

\* CompleteCancelled completes what the thread took off.
LEMMA CompleteCancelledFile ==
  ASSUME FileInv, NEW t \in Issuers, File!CompleteCancelled(t)
  PROVE  FileInv'
<1> DEFINE over(r) == pStatus[r] = "cancelling" /\ pIssuer[r] = t
<1>1. /\ pPc[t] = "cancel" /\ pPc' = [pPc EXCEPT ![t] = "polling"]
      /\ pPc \in [Issuers -> {"idle", "post", "cancel", "cancelled", "polling"}]
      /\ pStatus \in [File!Requests -> {"none", "posted", "running", "done", "cancelling",
                                        "cancelled"}]
      /\ pStatus' = [r \in File!Requests |-> IF over(r) THEN "cancelled" ELSE pStatus[r]]
      /\ UNCHANGED <<pPosts, pIssuer, pPosted, pPostedRunning, pRunningThread, pHostCalls,
                     pRunPc, pCurrent, pShuttingDown>>
  BY DEF FileInv, File!TypeOK, File!CompleteCancelled, File!Goto
<1>2. \A r \in File!Requests : pStatus'[r] = IF over(r) THEN "cancelled" ELSE pStatus[r]
  BY <1>1
<1>3. File!TypeOK'
  <2>1. pStatus' \in [File!Requests -> {"none", "posted", "running", "done", "cancelling",
                                        "cancelled"}]
    BY <1>1
  <2>2. pPc' \in [Issuers -> {"idle", "post", "cancel", "cancelled", "polling"}]
    BY <1>1
  <2> QED
    BY <1>1, <2>1, <2>2 DEF FileInv, File!TypeOK
<1>4. FileList'
  BY <1>1, <1>2 DEF FileInv, FileList, InFile
<1>5. FileIssuers'
  <2>1. ASSUME NEW r \in File!Requests, pStatus'[r] = "cancelling"
        PROVE  pPc'[pIssuer'[r]] = "cancel"
    <3>1. pStatus[r] = "cancelling" /\ pIssuer[r] # t
      BY <1>2, <2>1
    <3>2. pPc[pIssuer[r]] = "cancel"
      BY <3>1 DEF FileInv, FileIssuers
    <3>3. r <= pPosts
      BY <3>1, FileOK
      DEF FileInv, FileList, File!TypeOK, File!Requests, File!PostedAssumption
    <3>4. pIssuer[r] \in Issuers
      BY <3>3 DEF FileInv, FileIssuers
    <3> QED
      BY <1>1, <3>1, <3>2, <3>4
  <2>2. \A r \in File!Requests : r <= pPosts' <=> pIssuer'[r] \in Issuers
    BY <1>1 DEF FileInv, FileIssuers
  <2> QED
    BY <2>1, <2>2 DEF FileIssuers
<1>6. FileOrder'
  <2>1. \A r \in File!Requests : /\ Begun(r)' => Begun(r)
                                 /\ \A s \in {"posted", "done", "running"} :
                                      pStatus'[r] = s => pStatus[r] = s
    BY <1>2 DEF Begun
  <2> QED
    BY <2>1 DEF FileInv, FileOrder
<1>7. OneRunner'
  <2>1. \A u \in Issuers : pPc'[u] = "post" <=> pPc[u] = "post"
    BY <1>1
  <2> QED
    BY <1>1, <2>1, RunnersLeft
<1>8. RunnersRequest'
  BY <1>1, <1>2 DEF FileInv, RunnersRequest
<1> QED
  BY <1>3, <1>4, <1>5, <1>6, <1>7, <1>8 DEF FileInv

\* The loop of NtCancelIoFile ends.
LEMMA CancelReturnsFile ==
  ASSUME FileInv, NEW t \in Issuers, File!CancelReturns(t)
  PROVE  FileInv'
<1>1. /\ pPc[t] = "polling" /\ pPc' = [pPc EXCEPT ![t] = "idle"]
      /\ pPc \in [Issuers -> {"idle", "post", "cancel", "cancelled", "polling"}]
      /\ UNCHANGED <<pPosts, pIssuer, pStatus, pPosted, pPostedRunning, pRunningThread,
                     pHostCalls, pRunPc, pCurrent, pShuttingDown>>
  BY DEF FileInv, File!TypeOK, File!CancelReturns, File!Goto
<1>2. /\ \A u \in Issuers : pPc[u] = "cancel" => pPc'[u] = "cancel"
      /\ \A u \in Issuers : pPc'[u] = "post" <=> pPc[u] = "post"
  BY <1>1
<1>3. File!TypeOK'
  BY <1>1 DEF FileInv, File!TypeOK
<1>4. FileList' /\ FileIssuers' /\ FileOrder' /\ RunnersRequest'
  BY <1>1, <1>2, ListLeft
<1>5. OneRunner'
  BY <1>1, <1>2, RunnersLeft
<1> QED
  BY <1>3, <1>4, <1>5 DEF FileInv

\* The request a runner runs is done.
LEMMA CompleteFile ==
  ASSUME FileInv, NEW x \in File!Runners, File!Complete(x)
  PROVE  FileInv'
<1> DEFINE r0 == pCurrent[x]
<1>1. /\ pRunPc[x] = "run" /\ pRunPc' = [pRunPc EXCEPT ![x] = "relock"]
      /\ pRunPc \in [File!Runners -> {"idle", "top", "run", "relock"}]
      /\ pStatus \in [File!Requests -> {"none", "posted", "running", "done", "cancelling",
                                        "cancelled"}]
      /\ pStatus' = [pStatus EXCEPT ![r0] = "done"]
      /\ r0 \in File!Requests /\ pStatus[r0] = "running"
      /\ UNCHANGED <<pPosts, pIssuer, pPosted, pPostedRunning, pRunningThread, pHostCalls,
                     pPc, pCurrent, pShuttingDown>>
  BY DEF FileInv, RunnersRequest, File!TypeOK, File!Complete, File!RunTo
<1>2. \A r \in File!Requests : r # r0 => pStatus'[r] = pStatus[r] /\ pStatus[r] # "running"
  <2>1. \A y \in File!Runners : pRunPc[y] = "run" => y = x
    BY <1>1 DEF FileInv, OneRunner, AtWork
  <2> QED
    BY <1>1, <2>1 DEF FileInv, RunnersRequest
<1>3. pStatus'[r0] = "done"
  BY <1>1
<1>4. File!TypeOK'
  BY <1>1 DEF FileInv, File!TypeOK
<1> HIDE DEF r0
<1>5. FileList'
  BY <1>1, <1>2, <1>3 DEF FileInv, FileList, InFile
<1>6. FileIssuers'
  BY <1>1, <1>2, <1>3 DEF FileInv, FileIssuers
<1>7. FileOrder'
  <2>1. \A r \in File!Requests : /\ Begun(r)' => Begun(r)
                                 /\ pStatus'[r] = "posted" => pStatus[r] = "posted"
                                 /\ pStatus'[r] # "running"
    BY <1>1, <1>2, <1>3 DEF Begun
  <2> QED
    BY <2>1 DEF FileInv, FileOrder
<1>8. OneRunner'
  <2>1. \A y \in File!Runners : AtWork(y)' <=> AtWork(y)
    BY <1>1 DEF AtWork
  <2>2. Asked' <=> Asked
    BY <1>1 DEF Asked
  <2> QED
    BY <1>1, <2>1, <2>2, ZenonT(30) DEF FileInv, OneRunner
<1>9. RunnersRequest'
  <2>1. \A y \in File!Runners : pRunPc'[y] # "run"
    BY <1>1 DEF FileInv, OneRunner, AtWork
  <2>2. \A r \in File!Requests : pStatus'[r] # "running"
    BY <1>2, <1>3
  <2> QED
    BY <2>1, <2>2 DEF RunnersRequest
<1> QED
  BY <1>4, <1>5, <1>6, <1>7, <1>8, <1>9 DEF FileInv

\* A runner that finds the list empty ends.
LEMMA RunnerEndsFile ==
  ASSUME FileInv, NEW x \in File!Runners, File!RunPostedIo(x), pPosted = <<>>
  PROVE  FileInv'
<1>1. /\ pRunPc[x] \in {"top", "relock"} /\ pRunPc' = [pRunPc EXCEPT ![x] = "idle"]
      /\ pRunPc \in [File!Runners -> {"idle", "top", "run", "relock"}]
      /\ pPostedRunning' = FALSE
      /\ pRunningThread' \in Issuers \cup {NoCall}
      /\ pCurrent' = [pCurrent EXCEPT ![x] = 0]
      /\ pCurrent \in [File!Runners -> 0..MaxPosts]
      /\ UNCHANGED <<pPosts, pIssuer, pStatus, pPosted, pHostCalls, pPc, pShuttingDown>>
  BY DEF FileInv, File!TypeOK, File!RunPostedIo, File!RunTo, File!RunnerEnds
<1>2. AtWork(x) /\ \A y \in File!Runners : AtWork(y) => y = x
  BY <1>1 DEF FileInv, OneRunner, AtWork
<1>3. File!TypeOK'
  <2>1. pCurrent' \in [File!Runners -> 0..MaxPosts]
    BY <1>1, FileOK DEF File!PostedAssumption
  <2>2. pRunPc' \in [File!Runners -> {"idle", "top", "run", "relock"}]
    BY <1>1
  <2> QED
    BY <1>1, <2>1, <2>2 DEF FileInv, File!TypeOK
<1>4. FileList' /\ FileIssuers' /\ FileOrder'
  BY <1>1 DEF FileInv, FileList, InFile, FileIssuers, FileOrder, Begun
<1>5. OneRunner'
  <2>1. \A y \in File!Runners : ~AtWork(y)'
    BY <1>1, <1>2 DEF AtWork
  <2>2. ~Asked /\ ~(pHostCalls > 0)
    BY <1>2 DEF FileInv, OneRunner
  <2>3. ~Asked' /\ ~(pHostCalls' > 0)
    BY <1>1, <2>2 DEF Asked
  <2> QED
    BY <2>1, <2>3 DEF OneRunner, Asked
<1>6. RunnersRequest'
  <2>1. \A y \in File!Runners : pRunPc[y] # "run" /\ pRunPc'[y] # "run"
    BY <1>1, <1>2 DEF AtWork
  <2> QED
    BY <1>1, <2>1 DEF FileInv, RunnersRequest
<1> QED
  BY <1>3, <1>4, <1>5, <1>6 DEF FileInv

\* A runner takes the first request of the list.
LEMMA RunnerTakesFile ==
  ASSUME FileInv, NEW x \in File!Runners, File!RunPostedIo(x), pPosted # <<>>
  PROVE  FileInv'
<1> DEFINE r0 == Head(pPosted)
<1>1. /\ pPosted \in Seq(File!Requests)
      /\ pStatus \in [File!Requests -> {"none", "posted", "running", "done", "cancelling",
                                        "cancelled"}]
      /\ pIssuer \in [File!Requests -> Issuers \cup {NoCall}]
      /\ pRunPc \in [File!Runners -> {"idle", "top", "run", "relock"}]
      /\ pCurrent \in [File!Runners -> 0..MaxPosts]
      /\ MaxPosts \in Nat /\ File!Requests = 1..MaxPosts
  BY FileOK DEF FileInv, File!TypeOK, File!Requests, File!PostedAssumption
<1>2. /\ Tail(pPosted) \in Seq(File!Requests) /\ r0 = pPosted[1] /\ r0 \in File!Requests
      /\ 1 \in DOMAIN pPosted /\ DOMAIN pPosted = 1..Len(pPosted)
      /\ Len(pPosted) \in Nat \ {0} /\ DOMAIN Tail(pPosted) = 1..Len(pPosted) - 1
      /\ \A i \in 1..Len(pPosted) - 1 : Tail(pPosted)[i] = pPosted[i + 1]
  BY <1>1, Taken
<1>3. /\ pRunPc[x] \in {"top", "relock"} /\ pRunPc' = [pRunPc EXCEPT ![x] = "run"]
      /\ pCurrent' = [pCurrent EXCEPT ![x] = r0] /\ pRunningThread' = pIssuer[r0]
      /\ pStatus' = [pStatus EXCEPT ![r0] = "running"] /\ pPosted' = Tail(pPosted)
      /\ UNCHANGED <<pPosts, pIssuer, pPostedRunning, pHostCalls, pPc, pShuttingDown>>
  BY DEF File!RunPostedIo, File!RunTo, File!StillRunning
<1> HIDE DEF r0
<1>4. /\ pStatus'[r0] = "running" /\ pCurrent'[x] = r0 /\ pRunPc'[x] = "run"
      /\ \A r \in File!Requests : r # r0 => pStatus'[r] = pStatus[r]
  BY <1>1, <1>2, <1>3
<1>5. AtWork(x) /\ \A y \in File!Runners : AtWork(y) => y = x
  BY <1>3 DEF FileInv, OneRunner, AtWork
<1>6. \A r \in File!Requests : pStatus[r] # "running"
  BY <1>3, <1>5 DEF FileInv, RunnersRequest, AtWork
<1>7. pStatus[r0] = "posted" /\ r0 <= pPosts
  <2>1. pStatus[r0] = "posted"
    BY <1>2 DEF FileInv, FileList, InFile
  <2> QED
    BY <1>1, <1>2, <2>1 DEF FileInv, FileList, File!TypeOK
<1>8. \A r \in File!Requests : pStatus[r] = "posted" /\ r # r0 => r0 < r
  <2> SUFFICES ASSUME NEW r \in File!Requests, pStatus[r] = "posted", r # r0
               PROVE  r0 < r
    OBVIOUS
  <2>1. PICK i \in DOMAIN pPosted : pPosted[i] = r
    BY DEF FileInv, FileList, InFile
  <2>2. 1 < i
    BY <1>2, <2>1
  <2> QED
    BY <1>2, <2>1, <2>2 DEF FileInv, FileList
<1>9. File!TypeOK'
  <2>1. pIssuer[r0] \in Issuers \cup {NoCall}
    BY <1>1, <1>2
  <2>2. pStatus' \in [File!Requests -> {"none", "posted", "running", "done", "cancelling",
                                        "cancelled"}]
    BY <1>1, <1>3
  <2>3. pRunPc' \in [File!Runners -> {"idle", "top", "run", "relock"}]
    BY <1>1, <1>3
  <2>4. pCurrent' \in [File!Runners -> 0..MaxPosts]
    BY <1>1, <1>2, <1>3
  <2> QED
    BY <1>2, <1>3, <2>1, <2>2, <2>3, <2>4 DEF FileInv, File!TypeOK
<1>10. FileList'
  <2>1. \A i \in DOMAIN pPosted' :
          i \in Nat /\ i + 1 \in DOMAIN pPosted /\ i + 1 # 1 /\ pPosted'[i] = pPosted[i + 1]
    BY <1>2, <1>3
  <2>2. ASSUME NEW i \in DOMAIN pPosted', NEW j \in DOMAIN pPosted', i < j
        PROVE  pPosted'[i] < pPosted'[j]
    <3>1. i + 1 < j + 1
      BY <2>1, <2>2
    <3> QED
      BY <2>1, <3>1 DEF FileInv, FileList
  <2>3. \A r \in File!Requests : InFile(r)' <=> InFile(r) /\ r # r0
    <3>1. ASSUME NEW r \in File!Requests, InFile(r)' PROVE InFile(r) /\ r # r0
      <4>1. PICK i \in DOMAIN pPosted' : pPosted'[i] = r
        BY <3>1 DEF InFile
      <4>2. i + 1 \in DOMAIN pPosted /\ 1 < i + 1 /\ pPosted[i + 1] = r
        BY <2>1, <4>1
      <4>3. r0 < r
        BY <1>2, <4>2 DEF FileInv, FileList
      <4> QED
        BY <1>1, <1>2, <4>2, <4>3 DEF InFile
    <3>2. ASSUME NEW r \in File!Requests, InFile(r), r # r0 PROVE InFile(r)'
      <4>1. PICK i \in DOMAIN pPosted : pPosted[i] = r
        BY <3>2 DEF InFile
      <4>2. i - 1 \in DOMAIN pPosted' /\ (i - 1) + 1 = i
        BY <1>2, <1>3, <3>2, <4>1
      <4> QED
        BY <2>1, <4>1, <4>2 DEF InFile
    <3> QED
      BY <3>1, <3>2
  <2>4. \A r \in File!Requests : /\ pStatus'[r] = "posted" <=> InFile(r)'
                                 /\ pStatus'[r] = "none" <=> r > pPosts'
    <3>1. \A r \in File!Requests : /\ pStatus[r] = "posted" <=> InFile(r)
                                   /\ pStatus[r] = "none" <=> r > pPosts
      BY DEF FileInv, FileList
    <3> QED
      BY <1>3, <1>4, <1>7, <2>3, <3>1
  <2> QED
    BY <2>2, <2>4 DEF FileList
<1>11. FileIssuers'
  BY <1>3, <1>4 DEF FileInv, FileIssuers
<1>12. FileOrder'
  <2>1. ASSUME NEW q \in File!Requests, NEW r \in File!Requests, Begun(q)',
               pStatus'[r] = "posted"
        PROVE  q < r
    <3>1. pStatus[r] = "posted" /\ r # r0
      BY <1>4, <2>1
    <3>2. q = r0 \/ Begun(q)
      BY <1>4, <2>1 DEF Begun
    <3> QED
      BY <1>8, <3>1, <3>2 DEF FileInv, FileOrder
  <2>2. ASSUME NEW q \in File!Requests, NEW r \in File!Requests, pStatus'[q] = "done",
               pStatus'[r] = "running"
        PROVE  q < r
    <3>1. r = r0 /\ Begun(q)
      BY <1>4, <1>6, <2>2 DEF Begun
    <3> QED
      BY <1>7, <3>1 DEF FileInv, FileOrder
  <2> QED
    BY <2>1, <2>2 DEF FileOrder
<1>13. OneRunner'
  <2>1. \A y \in File!Runners : AtWork(y)' <=> AtWork(y)
    BY <1>1, <1>3 DEF AtWork
  <2>2. Asked' <=> Asked
    BY <1>3 DEF Asked
  <2> QED
    BY <1>3, <2>1, <2>2, ZenonT(30) DEF FileInv, OneRunner
<1>14. RunnersRequest'
  <2>1. \A y \in File!Runners : pRunPc'[y] = "run" => y = x
    BY <1>1, <1>3, <1>5 DEF AtWork
  <2>2. \A r \in File!Requests : pStatus'[r] = "running" => r = r0
    BY <1>4, <1>6
  <2> QED
    BY <1>2, <1>3, <1>4, <2>1, <2>2 DEF RunnersRequest
<1> QED
  BY <1>9, <1>10, <1>11, <1>12, <1>13, <1>14 DEF FileInv

\* FileInv holds at first.
LEMMA FileInitially ==
  ASSUME File!Init
  PROVE  FileInv
<1>1. MaxPosts \in Nat /\ NoCall \notin Issuers
  BY FileOK DEF File!PostedAssumption
<1>2. File!TypeOK
  <2>1. pPosts \in 0..MaxPosts /\ pCurrent \in [File!Runners -> 0..MaxPosts]
    BY <1>1 DEF File!Init
  <2>2. pPosted \in Seq(File!Requests) /\ pHostCalls \in 0..1
    BY DEF File!Init
  <2> QED
    BY <2>1, <2>2 DEF File!Init, File!TypeOK
<1>3. FileList /\ FileIssuers /\ FileOrder /\ RunnersRequest
  BY <1>1 DEF File!Init, File!Requests, FileList, InFile, FileIssuers, FileOrder, Begun,
              RunnersRequest
<1>4. OneRunner
  BY DEF File!Init, OneRunner, AtWork, Asked
<1> QED
  BY <1>2, <1>3, <1>4 DEF FileInv

\* Every step of the file, and of the calls, keeps FileInv.
LEMMA FileKept ==
  ASSUME FileInv, [MCNext]_<<model, vars, pVars>>
  PROVE  FileInv'
<1>1. CASE File!Next
  <2>1. ASSUME NEW t \in Issuers, File!PostIo(t) PROVE FileInv'
    BY <2>1, PostIoFile
  <2>2. ASSUME NEW t \in Issuers, File!CancelPostedIo(t) PROVE FileInv'
    BY <2>2, CancelPostedIoFile
  <2>3. ASSUME NEW t \in Issuers, File!ThreadStep(t) PROVE FileInv'
    BY <2>3, PostHostCallFile, CompleteCancelledFile, CancelReturnsFile DEF File!ThreadStep
  <2>4. ASSUME NEW w \in FileWorkers, File!WorkerTakes(w) PROVE FileInv'
    BY <2>4, WorkerTakesFile
  <2>5. ASSUME NEW x \in File!Runners, File!RunnerStep(x) PROVE FileInv'
    BY <2>5, RunnerEndsFile, RunnerTakesFile, CompleteFile DEF File!RunnerStep
  <2> QED
    BY <1>1, <2>1, <2>2, <2>3, <2>4, <2>5, ShutdownFile DEF File!Next
<1>2. CASE UNCHANGED pVars
  <2>1. UNCHANGED <<pPosts, pIssuer, pStatus, pPosted, pPostedRunning, pRunningThread,
                    pHostCalls, pPc, pRunPc, pCurrent, pShuttingDown>>
    BY <1>2 DEF pVars
  <2> QED
    BY <2>1 DEF FileInv, File!TypeOK, FileList, InFile, FileIssuers, FileOrder, Begun,
                OneRunner, AtWork, Asked, RunnersRequest
<1> QED
  BY <1>1, <1>2 DEF MCNext

\* A request that began has every earlier one completed or cancelled.
LEMMA InOrder ==
  ASSUME FileInv
  PROVE  File!RunsInOrder
<1> SUFFICES ASSUME NEW i \in File!Requests, NEW j \in File!Requests, i < j, Begun(j)
             PROVE  pStatus[i] \in {"done", "cancelling", "cancelled"}
  BY Zenon DEF File!RunsInOrder, Begun
<1>1. /\ MaxPosts \in Nat /\ File!Requests = 1..MaxPosts /\ pPosts \in 0..MaxPosts
      /\ pStatus \in [File!Requests -> {"none", "posted", "running", "done", "cancelling",
                                        "cancelled"}]
  BY FileOK DEF FileInv, File!TypeOK, File!Requests, File!PostedAssumption
<1>2. pStatus[i] # "none"
  <2>1. j <= pPosts
    BY <1>1 DEF FileInv, FileList, Begun
  <2> QED
    BY <1>1, <2>1 DEF FileInv, FileList
<1>3. pStatus[i] # "posted"
  BY <1>1 DEF FileInv, FileOrder
<1>4. ASSUME pStatus[i] = "running" PROVE FALSE
  <2>1. pStatus[j] # "done"
    BY <1>1, <1>4 DEF FileInv, FileOrder
  <2>2. pStatus[j] = "running"
    BY <2>1 DEF Begun
  <2>3. i = j
    BY <1>4, <2>2 DEF FileInv, RunnersRequest, OneRunner, AtWork
  <2> QED
    BY <1>1, <2>3
<1> QED
  BY <1>1, <1>2, <1>3, <1>4

\* A cancellation returns by CancelReturns, and then none of its requests is left.
LEMMA Cancelled ==
  ASSUME FileInv, [MCNext]_<<model, vars, pVars>>, NEW t \in Issuers,
         pPc[t] = "polling", pPc'[t] = "idle", NEW r \in File!Requests, pIssuer[r] = t
  PROVE  pStatus[r] \in {"done", "cancelled"}
<1>1. pPc \in [Issuers -> {"idle", "post", "cancel", "cancelled", "polling"}]
  BY DEF FileInv, File!TypeOK
<1>2. File!CancelReturns(t)
  <2>1. File!Next
    BY DEF MCNext, pVars
  <2>2. /\ ~\E w \in FileWorkers : File!WorkerTakes(w)
        /\ ~\E x \in File!Runners : File!RunnerStep(x)
    BY DEF File!WorkerTakes, File!RunnerStep, File!RunPostedIo, File!Complete
  <2>3. ~File!BeginShutdown /\ ~File!DropCalls
    BY DEF File!BeginShutdown, File!DropCalls
  <2>4. PICK u \in Issuers : File!PostIo(u) \/ File!CancelPostedIo(u) \/ File!ThreadStep(u)
    BY <2>1, <2>2, <2>3 DEF File!Next
  <2>5. ~File!PostIo(u) /\ ~File!CancelPostedIo(u)
    BY <1>1 DEF File!PostIo, File!CancelPostedIo, File!Goto, File!Free
  <2>6. ~File!PostHostCall(u) /\ ~File!CompleteCancelled(u)
    BY <1>1 DEF File!PostHostCall, File!CompleteCancelled, File!Goto
  <2>7. File!CancelReturns(u)
    BY <2>4, <2>5, <2>6 DEF File!ThreadStep
  <2>8. u = t
    BY <1>1, <2>7 DEF File!CancelReturns, File!Goto
  <2> QED
    BY <2>7, <2>8
<1>3. pRunningThread # t /\ ~\E i \in DOMAIN pPosted : pIssuer[pPosted[i]] = t
  BY <1>2 DEF File!CancelReturns, File!HasPostedIo
<1>4. /\ MaxPosts \in Nat /\ File!Requests = 1..MaxPosts /\ pPosts \in 0..MaxPosts
      /\ pStatus \in [File!Requests -> {"none", "posted", "running", "done", "cancelling",
                                        "cancelled"}]
  BY FileOK DEF FileInv, File!TypeOK, File!Requests, File!PostedAssumption
<1>5. pStatus[r] # "none"
  <2>1. r <= pPosts
    BY DEF FileInv, FileIssuers
  <2> QED
    BY <1>4, <2>1 DEF FileInv, FileList
<1>6. pStatus[r] # "posted"
  BY <1>3 DEF FileInv, FileList, InFile
<1>7. pStatus[r] # "running"
  BY <1>3 DEF FileInv, RunnersRequest
<1>8. pStatus[r] # "cancelling"
  BY DEF FileInv, FileIssuers
<1> QED
  BY <1>4, <1>5, <1>6, <1>7, <1>8

\* For any threads, workers and requests: those of a file run one at a time in the order
\* of PostIo, whoever runs them, and NtCancelIoFile returns only when none of the caller's
\* can complete any more.
THEOREM FileRunsInOrder == MCSpec => RequestsInOrder
<1>1. MCInit => FileInv
  BY FileInitially DEF MCInit
<1>2. FileInv /\ [MCNext]_<<model, vars, pVars>> => FileInv'
  BY FileKept
<1>3. FileInv => File!TypeOK /\ File!RunsInOrder
  BY InOrder DEF FileInv
<1>4. FileInv /\ [MCNext]_<<model, vars, pVars>> =>
        [\A t \in Issuers : pPc[t] = "polling" /\ pPc'[t] = "idle" =>
           \A r \in File!Requests : pIssuer[r] = t =>
             pStatus[r] \in {"done", "cancelled"}]_File!vars
  BY Cancelled
<1> QED
  BY <1>1, <1>2, <1>3, <1>4, PTL DEF MCSpec, RequestsInOrder, File!CancelIsOver
=============================================================================
