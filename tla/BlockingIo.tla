------------------------------ MODULE BlockingIo ------------------------------
(***************************************************************************)
(* Blocking host calls off the dispatch threads: PostHostCall, the serial  *)
(* I/O worker and the worker pool of kernel/guest_scheduler.cc, and        *)
(* KernelState::RunBlockingIo, which waits for its call with a pooled      *)
(* completion event.                                                       *)
(*                                                                         *)
(* A call of a fiber refers to the fiber's stack frame; a call of a host   *)
(* thread is posted and forgotten, as XFile::PostIo does.  Each caller has *)
(* one call outstanding.  A worker between its look at shutting_down_ and  *)
(* its wait, "checked", holds io_pool_lock_.                               *)
(***************************************************************************)
EXTENDS Naturals, Sequences, FiniteSets

CONSTANTS
  Fibers,       \* guest fibers in RunBlockingIo
  Hosts,        \* host threads in PostHostCall
  PoolWorkers,  \* kMaxIoPoolThreads of them
  Serial,       \* the one worker of kSerial calls
  Events,       \* completion events, as many as are ever in use
  Workloads,    \* sets of "serial" and "pool" calls and "shutdown"
  NoCall, NoEvent

Callers == Fibers \cup Hosts
Workers == PoolWorkers \cup {Serial}

ASSUME IoAssumption ==
  /\ IsFiniteSet(Fibers) /\ IsFiniteSet(Hosts)
  /\ IsFiniteSet(PoolWorkers) /\ PoolWorkers # {} /\ Serial \notin PoolWorkers
  /\ Fibers \cap Hosts = {} /\ NoEvent \notin Events
  /\ NoCall \notin [caller : Callers, event : Events \cup {NoEvent}]

VARIABLES
  pc,            \* where a caller is
  done, event,   \* the frame of RunBlockingIo: its flag and its completion event
  signaled,      \* the auto-reset completion events
  idleEvents,    \* idle_io_events_
  ioQueue, ioEvent, ioOnce,             \* the serial worker's queue, event and once flag
  poolQueue, poolBusy,                  \* io_pool_queue_ and io_pool_busy_
  workerPc, call,                       \* where a worker is, and the call it runs
  shuttingDown, shutPc,
  stopped,       \* fibers whose dispatch thread has left its loop
  workload       \* bound: what happens in this behaviour, one of Workloads

callerVars == <<pc, done, event>>
eventVars == <<signaled, idleEvents>>
serialVars == <<ioQueue, ioEvent, ioOnce>>
poolVars == <<poolQueue, poolBusy>>
workerVars == <<workerPc, call>>
shutVars == <<shuttingDown, shutPc, stopped>>
steps == <<callerVars, eventVars, serialVars, poolVars, workerVars, shutVars>>
vars == <<steps, workload>>

Call == [caller : Callers, event : Events \cup {NoEvent}]

TypeOK ==
  /\ pc \in [Callers -> {"idle", "ensure", "pushSerial", "pushPool", "kick", "notify",
                         "inline", "loop", "block", "reset", "release", "posted"}]
  /\ done \in [Callers -> BOOLEAN] /\ event \in [Callers -> Events \cup {NoEvent}]
  /\ signaled \in [Events -> BOOLEAN] /\ idleEvents \in Seq(Events)
  /\ ioQueue \in Seq(Call) /\ ioEvent \in BOOLEAN
  /\ ioOnce \in {"open", "started", "closed"}
  /\ poolQueue \in Seq(Call) /\ poolBusy \in 0..Cardinality(PoolWorkers)
  /\ workerPc \in [Workers -> {"none", "top", "checked", "parked", "empty", "wait",
                               "run", "signal", "finish", "exited"}]
  /\ call \in [Workers -> Call \cup {NoCall}]
  /\ shuttingDown \in BOOLEAN /\ stopped \subseteq Fibers
  /\ shutPc \in {"idle", "event", "notify", "dispatch", "once", "serial", "pool", "drop",
                 "end"}
  /\ workload \in Workloads

Init ==
  /\ pc = [k \in Callers |-> "idle"] /\ done = [k \in Callers |-> TRUE]
  /\ event = [k \in Callers |-> NoEvent]
  /\ signaled = [e \in Events |-> FALSE] /\ idleEvents = <<>>
  /\ ioQueue = <<>> /\ ioEvent = FALSE /\ ioOnce = "open"
  /\ poolQueue = <<>> /\ poolBusy = 0
  /\ workerPc = [w \in Workers |-> "none"] /\ call = [w \in Workers |-> NoCall]
  /\ shuttingDown = FALSE /\ shutPc = "idle" /\ stopped = {}
  /\ workload \in Workloads

-----------------------------------------------------------------------------
At(k, step) == pc[k] = step /\ k \notin stopped
Goto(k, step) == pc' = [pc EXCEPT ![k] = step]
WorkerTo(w, step) == workerPc' = [workerPc EXCEPT ![w] = step]

PoolThreads == {w \in PoolWorkers : workerPc[w] # "none"}
PoolLockFree == \A w \in PoolWorkers : workerPc[w] # "checked"
CallOf(k) == [caller |-> k, event |-> event[k]]

\* Where a caller goes once its call is queued.
Posted(k) == Goto(k, IF k \in Fibers THEN "loop" ELSE "posted")

-----------------------------------------------------------------------------
(* The callers. *)

\* AcquireIoEvent: the event that was returned last, or a new one.
Request(f, class) ==
  /\ f \in Fibers /\ At(f, "idle")
  /\ IF idleEvents # <<>>
     THEN /\ event' = [event EXCEPT ![f] = idleEvents[Len(idleEvents)]]
          /\ idleEvents' = SubSeq(idleEvents, 1, Len(idleEvents) - 1)
     ELSE /\ \E e \in Events \ {event[g] : g \in Fibers} :
               event' = [event EXCEPT ![f] = e]
          /\ UNCHANGED idleEvents
  /\ done' = [done EXCEPT ![f] = FALSE]
  /\ Goto(f, class)
  /\ UNCHANGED <<signaled, serialVars, poolVars, workerVars, shutVars>>

Post(h, class) ==
  /\ h \in Hosts /\ At(h, "idle")
  /\ done' = [done EXCEPT ![h] = FALSE]
  /\ Goto(h, class)
  /\ UNCHANGED <<event, eventVars, serialVars, poolVars, workerVars, shutVars>>

\* EnsureIoWorker, through call_once.
EnsureIoWorker(k) ==
  /\ At(k, "ensure")
  /\ IF ioOnce = "open" THEN ioOnce' = "started" /\ WorkerTo(Serial, "top")
                        ELSE UNCHANGED <<ioOnce, workerPc>>
  /\ Goto(k, "pushSerial")
  /\ UNCHANGED <<done, event, eventVars, ioQueue, ioEvent, poolVars, call, shutVars>>

\* EnqueueBlockingCall under io_lock_, then the worker's event.
PushSerial(k) ==
  /\ At(k, "pushSerial")
  /\ IF shuttingDown THEN Goto(k, "inline") /\ UNCHANGED ioQueue
                     ELSE Goto(k, "kick") /\ ioQueue' = Append(ioQueue, CallOf(k))
  /\ UNCHANGED <<done, event, eventVars, ioEvent, ioOnce, poolVars, workerVars, shutVars>>

KicksWaiting == workerPc[Serial] = "wait"  \* a bug: only a worker that waits is told
Kicks == TRUE
Kick(k) ==
  /\ At(k, "kick")
  /\ ioEvent' = (ioEvent \/ Kicks) /\ Posted(k)
  /\ UNCHANGED <<done, event, eventVars, ioQueue, ioOnce, poolVars, workerVars, shutVars>>

\* EnqueuePoolCall under io_pool_lock_: the pool grows unless it has a worker for every
\* call it holds.
GrowsByBusy == poolBusy + 1 > Cardinality(PoolThreads)   \* a bug: queued calls not counted
Grows == poolBusy + Len(poolQueue) + 1 > Cardinality(PoolThreads)
RefusedNever == FALSE                      \* a bug: the pool takes calls after shutdown
Refused == shuttingDown
PushPool(k) ==
  /\ At(k, "pushPool") /\ PoolLockFree
  /\ IF Refused
     THEN Goto(k, "inline") /\ UNCHANGED <<poolQueue, workerPc>>
     ELSE /\ Goto(k, "notify") /\ poolQueue' = Append(poolQueue, CallOf(k))
          /\ IF Grows /\ PoolThreads # PoolWorkers
             THEN \E w \in PoolWorkers \ PoolThreads : WorkerTo(w, "top")
             ELSE UNCHANGED workerPc
  /\ UNCHANGED <<done, event, eventVars, serialVars, poolBusy, call, shutVars>>

\* io_pool_cv_.notify_one(), after the lock is released.
Parked == {w \in PoolWorkers : workerPc[w] = "parked"}
NotifyIfFirst == Len(poolQueue) <= 1       \* a bug: only the first queued call notifies
Notifies == TRUE
NotifyOne(k) ==
  /\ At(k, "notify")
  /\ IF Parked # {} /\ Notifies THEN \E w \in Parked : WorkerTo(w, "top")
                                ELSE UNCHANGED workerPc
  /\ Posted(k)
  /\ UNCHANGED <<done, event, eventVars, serialVars, poolVars, call, shutVars>>

\* PostHostCall runs a refused call itself.
RunInline(k) ==
  /\ At(k, "inline")
  /\ done' = [done EXCEPT ![k] = TRUE]
  /\ signaled' = [e \in Events |-> e = event[k] \/ signaled[e]]
  /\ Posted(k)
  /\ UNCHANGED <<event, idleEvents, serialVars, poolVars, workerVars, shutVars>>

\* RunBlockingIo: only done ends the loop.
CompletedAnyhow(f) == done[f] \/ signaled[event[f]]      \* a bug: any signal ends it
Completed(f) == done[f]
CheckDone(f) ==
  /\ f \in Fibers /\ At(f, "loop")
  /\ Goto(f, IF Completed(f) THEN "reset" ELSE "block")
  /\ UNCHANGED <<done, event, eventVars, serialVars, poolVars, workerVars, shutVars>>

TakeSignal(f) ==
  /\ f \in Fibers /\ At(f, "block") /\ signaled[event[f]]
  /\ signaled' = [signaled EXCEPT ![event[f]] = FALSE]
  /\ Goto(f, "loop")
  /\ UNCHANGED <<done, event, idleEvents, serialVars, poolVars, workerVars, shutVars>>

\* The wait ends by an APC, or polls again.
WaitAgain(f) ==
  /\ f \in Fibers /\ At(f, "block")
  /\ Goto(f, "loop")
  /\ UNCHANGED <<done, event, eventVars, serialVars, poolVars, workerVars, shutVars>>

\* ReleaseIoEvent.
ResetEvent(f) ==
  /\ f \in Fibers /\ At(f, "reset")
  /\ signaled' = [signaled EXCEPT ![event[f]] = FALSE]
  /\ Goto(f, "release")
  /\ UNCHANGED <<done, event, idleEvents, serialVars, poolVars, workerVars, shutVars>>

ReleaseIoEvent(f) ==
  /\ f \in Fibers /\ At(f, "release")
  /\ idleEvents' = Append(idleEvents, event[f])
  /\ event' = [event EXCEPT ![f] = NoEvent]
  /\ Goto(f, "idle")
  /\ UNCHANGED <<done, signaled, serialVars, poolVars, workerVars, shutVars>>

\* A host thread may post again once its last call was run or dropped.
PostAgain(h) ==
  /\ h \in Hosts /\ At(h, "posted") /\ done[h]
  /\ Goto(h, "idle")
  /\ UNCHANGED <<done, event, eventVars, serialVars, poolVars, workerVars, shutVars>>

-----------------------------------------------------------------------------
(* The workers. *)

SerialTop ==
  /\ workerPc[Serial] = "top"
  /\ WorkerTo(Serial, IF shuttingDown THEN "exited" ELSE "checked")
  /\ UNCHANGED <<callerVars, eventVars, serialVars, poolVars, call, shutVars>>

SerialTake ==
  /\ workerPc[Serial] = "checked"
  /\ IF ioQueue = <<>>
     THEN WorkerTo(Serial, "empty") /\ UNCHANGED <<ioQueue, call>>
     ELSE /\ WorkerTo(Serial, "run")
          /\ call' = [call EXCEPT ![Serial] = Head(ioQueue)] /\ ioQueue' = Tail(ioQueue)
  /\ UNCHANGED <<callerVars, eventVars, ioEvent, ioOnce, poolVars, shutVars>>

SerialWait ==
  /\ workerPc[Serial] = "empty"
  /\ WorkerTo(Serial, "wait")
  /\ UNCHANGED <<callerVars, eventVars, serialVars, poolVars, call, shutVars>>

SerialWake ==
  /\ workerPc[Serial] = "wait" /\ ioEvent
  /\ ioEvent' = FALSE /\ WorkerTo(Serial, "top")
  /\ UNCHANGED <<callerVars, eventVars, ioQueue, ioOnce, poolVars, call, shutVars>>

\* The loop condition of IoPoolWorkerLoop, which holds the lock ...
PoolTop(w) ==
  /\ workerPc[w] = "top" /\ PoolLockFree
  /\ WorkerTo(w, IF shuttingDown THEN "exited" ELSE "checked")
  /\ UNCHANGED <<callerVars, eventVars, serialVars, poolVars, call, shutVars>>

\* ... and waits, or takes a call and unlocks.
PoolTake(w) ==
  /\ workerPc[w] = "checked"
  /\ IF poolQueue = <<>>
     THEN WorkerTo(w, "parked") /\ UNCHANGED <<poolVars, call>>
     ELSE /\ WorkerTo(w, "run") /\ poolBusy' = poolBusy + 1
          /\ call' = [call EXCEPT ![w] = Head(poolQueue)]
          /\ poolQueue' = Tail(poolQueue)
  /\ UNCHANGED <<callerVars, eventVars, serialVars, shutVars>>

\* A condition variable may wake a waiter that nobody notified.
SpuriousWake(w) ==
  /\ w \in Parked
  /\ WorkerTo(w, "top")
  /\ UNCHANGED <<callerVars, eventVars, serialVars, poolVars, call, shutVars>>

\* The call: fn and the store of done, which refer to the caller's frame; then the
\* event, which the call keeps alive itself.
Run(w) ==
  /\ workerPc[w] = "run"
  /\ done' = [done EXCEPT ![call[w].caller] = TRUE]
  /\ WorkerTo(w, "signal")
  /\ UNCHANGED <<pc, event, eventVars, serialVars, poolVars, call, shutVars>>

Signal(w) ==
  /\ workerPc[w] = "signal"
  /\ signaled' = [e \in Events |-> e = call[w].event \/ signaled[e]]
  /\ WorkerTo(w, IF w = Serial THEN "top" ELSE "finish")
  /\ call' = [call EXCEPT ![w] = NoCall]
  /\ UNCHANGED <<callerVars, idleEvents, serialVars, poolVars, shutVars>>

\* A pool worker locks again and goes round its loop.
BusyAfterKept == poolBusy                  \* a bug: a finished call still counts
BusyAfter == poolBusy - 1
Finish(w) ==
  /\ workerPc[w] = "finish" /\ PoolLockFree
  /\ poolBusy' = BusyAfter
  /\ WorkerTo(w, IF shuttingDown THEN "exited" ELSE "checked")
  /\ UNCHANGED <<callerVars, eventVars, serialVars, poolQueue, call, shutVars>>

-----------------------------------------------------------------------------
(* Shutdown. *)

ShutTo(from, to) == shutPc = from /\ shutPc' = to

BeginShutdown ==
  /\ "shutdown" \in workload /\ ShutTo("idle", "event")
  /\ shuttingDown' = TRUE
  /\ UNCHANGED <<callerVars, eventVars, serialVars, poolVars, workerVars, stopped>>

SetIoEvent ==
  /\ ShutTo("event", "notify")
  /\ ioEvent' = (ioEvent \/ ioOnce = "started")
  /\ UNCHANGED <<callerVars, eventVars, ioQueue, ioOnce, poolVars, workerVars,
                 shuttingDown, stopped>>

NotifyBare == TRUE                         \* a bug: notify_all without the lock
NotifyLocked == PoolLockFree
NotifyAll ==
  /\ ShutTo("notify", "dispatch") /\ NotifyLocked
  /\ workerPc' = [w \in Workers |-> IF w \in Parked THEN "top" ELSE workerPc[w]]
  /\ UNCHANGED <<callerVars, eventVars, serialVars, poolVars, call, shuttingDown,
                 stopped>>

\* A dispatch thread leaves its loop when the fiber on it yields or waits; its fibers stay
\* where they are.
StopFiber(f) ==
  /\ shuttingDown /\ f \notin stopped /\ pc[f] \in {"idle", "block"}
  /\ stopped' = stopped \cup {f}
  /\ UNCHANGED <<callerVars, eventVars, serialVars, poolVars, workerVars, shuttingDown,
                 shutPc>>

JoinDispatch ==
  /\ ShutTo("dispatch", "once") /\ stopped = Fibers
  /\ UNCHANGED <<callerVars, eventVars, serialVars, poolVars, workerVars, shuttingDown,
                 stopped>>

CloseOnce ==
  /\ ShutTo("once", "serial")
  /\ ioOnce' = IF ioOnce = "open" THEN "closed" ELSE ioOnce
  /\ UNCHANGED <<callerVars, eventVars, ioQueue, ioEvent, poolVars, workerVars,
                 shuttingDown, stopped>>

JoinSerial ==
  /\ ShutTo("serial", "pool")
  /\ workerPc[Serial] \in {"none", "exited"}
  /\ UNCHANGED <<callerVars, eventVars, serialVars, poolVars, workerVars, shuttingDown,
                 stopped>>

JoinPool ==
  /\ ShutTo("pool", "drop")
  /\ \A w \in PoolThreads : workerPc[w] = "exited"
  /\ UNCHANGED <<callerVars, eventVars, serialVars, poolVars, workerVars, shuttingDown,
                 stopped>>

\* The calls no worker is left to run are deleted.
DropQueued ==
  /\ ShutTo("drop", "end") /\ PoolLockFree
  /\ ioQueue' = <<>> /\ poolQueue' = <<>>
  /\ UNCHANGED <<callerVars, eventVars, ioEvent, ioOnce, poolBusy, workerVars,
                 shuttingDown, stopped>>

-----------------------------------------------------------------------------
CallerStep(k) ==
  \/ EnsureIoWorker(k) \/ PushSerial(k) \/ Kick(k) \/ PushPool(k) \/ NotifyOne(k)
  \/ RunInline(k) \/ CheckDone(k) \/ TakeSignal(k) \/ ResetEvent(k)
  \/ ReleaseIoEvent(k)

PoolStep(w) == PoolTop(w) \/ PoolTake(w) \/ Finish(w)
SerialStep == SerialTop \/ SerialTake \/ SerialWait \/ SerialWake
WorkerStep(w) == Run(w) \/ Signal(w)
ShutdownStep ==
  \/ SetIoEvent \/ NotifyAll \/ JoinDispatch \/ CloseOnce \/ JoinSerial \/ JoinPool
  \/ DropQueued

\* A kSerial call starts with EnsureIoWorker, a kConcurrent one with the pool's queue.
Classes == {"ensure" : x \in workload \cap {"serial"}} \cup {"pushPool" : x \in workload \cap {"pool"}}

Step ==
  \/ \E k \in Callers :
       \/ \E class \in Classes : Request(k, class) \/ Post(k, class)
       \/ CallerStep(k) \/ WaitAgain(k) \/ PostAgain(k)
  \/ \E f \in Fibers : StopFiber(f)
  \/ \E w \in PoolWorkers : PoolStep(w) \/ SpuriousWake(w)
  \/ \E w \in Workers : WorkerStep(w)
  \/ SerialStep \/ ShutdownStep \/ BeginShutdown

Next == Step /\ UNCHANGED workload

Spec == Init /\ [][Next]_vars

-----------------------------------------------------------------------------
\* A call that is queued or running belongs to a caller that still waits for it: fn
\* writes into the frame of RunBlockingIo, which must not be left before.
FrameOutlivesCall ==
  \A f \in Fibers :
    (\/ \E i \in DOMAIN ioQueue : ioQueue[i].caller = f
     \/ \E i \in DOMAIN poolQueue : poolQueue[i].caller = f
     \/ \E w \in Workers : workerPc[w] = "run" /\ call[w].caller = f)
      => ~done[f] /\ pc[f] \in {"kick", "notify", "loop", "block"}

\* A kConcurrent call waits only behind calls that fill the whole pool: as long as the
\* pool may grow, it has a worker for every call.
PoolCoversCalls ==
  \/ poolBusy + Len(poolQueue) <= Cardinality(PoolThreads)
  \/ PoolThreads = PoolWorkers

\* No worker sleeps beside a queued call: unless none is parked, a worker that is awake,
\* or a notify on its way, is there for every queued call.
Awake == {w \in PoolWorkers : workerPc[w] \in {"top", "checked"}}
Notifying == {k \in Callers : pc[k] = "notify"}
QueuedCallsAreTold ==
  Parked = {} \/ shuttingDown \/
    Len(poolQueue) <= Cardinality(Awake) + Cardinality(Notifying)

\* Once Shutdown is over, no worker runs and no call is queued, although host threads
\* go on posting.
NothingAfterShutdown ==
  shutPc = "end" =>
    /\ ioQueue = <<>> /\ poolQueue = <<>>
    /\ \A w \in Workers : workerPc[w] \in {"none", "exited"}

\* A pool has a worker for every call until it is full, a queued call is told to one, and
\* none runs once Shutdown is over (guest_scheduler.cc, EnqueuePoolCall,
\* IoPoolWorkerLoop, Shutdown).
WorkersSuffice == TypeOK /\ PoolCoversCalls /\ QueuedCallsAreTold /\ NothingAfterShutdown

-----------------------------------------------------------------------------
(* Fairness: every thread runs on, locks are handed out in the end, a blocking host  *)
(* call returns, and Shutdown keeps asking the fibers to yield.  A lost wake is not  *)
(* made up for by WaitAgain or SpuriousWake.                                         *)
Fairness ==
  /\ \A k \in Callers : WF_steps(CallerStep(k))
  /\ \A w \in PoolWorkers : WF_steps(PoolStep(w))
  /\ \A w \in Workers : WF_steps(WorkerStep(w))
  /\ WF_steps(SerialStep) /\ WF_steps(ShutdownStep)
  /\ \A f \in Fibers : SF_steps(StopFiber(f))

FairSpec == Spec /\ Fairness

\* A fiber in RunBlockingIo gets out again, unless Shutdown stops it there.
RequestReturns == \A f \in Fibers : pc[f] = "loop" ~> pc[f] = "idle" \/ shuttingDown

\* Shutdown gets through its joins.
ShutdownEnds == shuttingDown ~> shutPc = "end"
=============================================================================
