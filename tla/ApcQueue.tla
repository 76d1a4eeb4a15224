------------------------------- MODULE ApcQueue --------------------------------
(***************************************************************************)
(* The queues of asynchronous procedure calls of guest threads             *)
(* (xboxkrnl_threading.cc) and the timers that own an APC (xtimer.cc).     *)
(*                                                                         *)
(* A thread has a kernel list (mode 0) and a user list (mode 1), circular  *)
(* lists through the APCs themselves, under its apc_lock: what a function  *)
(* does between taking and releasing that lock is one step here.  Freeing  *)
(* an APC, running its routines and the walk of the run-down happen        *)
(* without the lock and are steps of their own.                            *)
(*                                                                         *)
(* Four kinds of APC: "heap" ones of NtQueueApcThread, which the kernel    *)
(* frees once they run; "owned" ones of a timer, which frees them itself;  *)
(* and the guest's own kernel APCs, "special" (no normal routine) or       *)
(* "normal".  A timer's callback is one step because Disarm waits for it   *)
(* (TimerQueue).  A routine that waits alertably delivers further APCs     *)
(* from within; the model delivers them one after another.                 *)
(*                                                                         *)
(* A setting has the APCs there are and what the guest does: "exit",       *)
(* "terminate" (of another thread), "regions" and "reuse" (it sets or      *)
(* closes a timer while the thread the timer last expired for runs down    *)
(* its APCs).                                                              *)
(***************************************************************************)
EXTENDS Naturals, FiniteSets

CONSTANTS
  Threads,
  Apcs, Kind(_),   \* "heap", "owned", "special" or "normal"
  None,
  Settings         \* records of the APCs in use and of what the guest does

Modes == {0, 1}
Heads == Threads \X Modes
Nodes == Apcs \cup Heads

\* What the constants have to be.
ApcAssumption ==
  /\ \A a \in Apcs : Kind(a) \in {"heap", "owned", "special", "normal"}
  /\ None \notin Apcs \cup Threads /\ Apcs \cap Heads = {} /\ IsFiniteSet(Apcs)
  /\ \A s \in Settings : s.apcs \subseteq Apcs

VARIABLES
  flink, blink,   \* X_LIST_ENTRY of every APC and list head
  enqueued, thread,
  live,           \* the APCs whose memory is allocated
  mayQueue,       \* may_queue_apcs
  disabled,       \* apc_disable_count is not 0
  executing,      \* executing_kernel_apc
  armed, has, target,   \* a timer: set; apc_ptr_ is set; apc_thread_
  pc, list, apc, first, \* a thread in ProcessApcList or YankApcList
  chain,          \* ghost: what a run-down took and has not passed yet
  setting         \* bound: what happens in this behaviour, one of Settings

links == <<flink, blink, enqueued>>
timers == <<armed, has, target>>
walk == <<list, apc, first, chain>>
steps == <<links, thread, live, mayQueue, disabled, executing, timers, pc, walk>>
vars == <<steps, setting>>

Mode(a) == IF Kind(a) \in {"heap", "owned"} THEN 1 ELSE 0
OfKind(k) == {a \in Apcs : Kind(a) = k}

TypeOK ==
  /\ flink \in [Nodes -> Nodes] /\ blink \in [Nodes -> Nodes]
  /\ enqueued \in [Apcs -> BOOLEAN] /\ thread \in [Apcs -> Threads \cup {None}]
  /\ live \subseteq Apcs
  /\ {mayQueue, disabled, executing} \subseteq [Threads -> BOOLEAN]
  /\ armed \subseteq has /\ has \subseteq OfKind("owned")
  /\ target \in [OfKind("owned") -> Threads \cup {None}]
  /\ pc \in [Threads -> {"guest", "deliver", "taken", "rundown", "walk", "drop", "exited", "terminated"}]
  /\ list \in [Threads -> Modes]
  /\ {apc, first} \subseteq [Threads -> Apcs \cup {None}]
  /\ chain \in [Threads -> SUBSET Apcs] /\ setting \in Settings

Init ==
  /\ flink = [n \in Nodes |-> n] /\ blink = [n \in Nodes |-> n]
  /\ enqueued = [a \in Apcs |-> FALSE] /\ thread = [a \in Apcs |-> None]
  /\ live = OfKind("special") \cup OfKind("normal")
  /\ mayQueue = [t \in Threads |-> TRUE]
  /\ disabled = [t \in Threads |-> FALSE] /\ executing = [t \in Threads |-> FALSE]
  /\ armed = {} /\ has = {} /\ target = [a \in OfKind("owned") |-> None]
  /\ pc = [t \in Threads |-> "guest"] /\ list = [t \in Threads |-> 1]
  /\ apc = [t \in Threads |-> None] /\ first = [t \in Threads |-> None]
  /\ chain = [t \in Threads |-> {}] /\ setting \in Settings

Goto(t, l) == pc' = [pc EXCEPT ![t] = l]

-----------------------------------------------------------------------------
Empty(h) == flink[h] = h

\* XeRemoveEntryList.  The entry keeps its own links.
RemoveEntry(n) ==
  LET f == flink[n]  b == blink[n]
      fl == [flink EXCEPT ![b] = f]
  IN flink' = fl /\ blink' = [blink EXCEPT ![f] = b]

InsertForwardOnly(p, a) ==   \* a bug: the next entry still points past the new one
  LET f == flink[p]
  IN flink' = [flink EXCEPT ![a] = f, ![p] = a] /\ blink' = [blink EXCEPT ![a] = p]

\* XeInsertHeadList after node p.
InsertAfter(p, a) ==
  LET f == flink[p]
  IN /\ flink' = [flink EXCEPT ![a] = f, ![p] = a]
     /\ blink' = [blink EXCEPT ![a] = p, ![f] = a]

\* The entries of a list in order.
Entries(h) ==
  LET at[i \in 0..Cardinality(Apcs)] == IF i = 0 THEN flink[h] ELSE flink[at[i - 1]]
      len == CHOOSE i \in DOMAIN at : at[i] = h /\ \A j \in 0..i - 1 : at[j] # h
  IN [i \in 1..len |-> at[i - 1]]

\* Where an APC goes: a special one before the first normal one, or before the
\* last special one when there is no normal one.
PlaceAtTail(h, a) == blink[h]      \* a bug: special APCs wait like all others
Place(h, a) ==
  LET es == Entries(h)
      normals == {i \in DOMAIN es : Kind(es[i]) # "special"}
      pos == IF normals = {} THEN Cardinality(DOMAIN es)
             ELSE CHOOSE i \in normals : \A j \in normals : i <= j
  IN IF Kind(a) # "special" THEN blink[h]
     ELSE IF es = <<>> THEN h ELSE blink[es[pos]]

\* xeKeInsertQueueApc for a thread t that was initialised into the APC.
MayQueueAlways(t, a) == ~enqueued[a]    \* a bug: ignores that the thread ends
MayQueue(t, a) == mayQueue[t] /\ ~enqueued[a]

Insert(t, a) ==
  /\ InsertAfter(Place(<<t, Mode(a)>>, a), a)
  /\ enqueued' = [enqueued EXCEPT ![a] = TRUE]

\* NtQueueApcThread and XThread::EnqueueApc: an APC that cannot be queued is
\* freed again at once.
QueueApc(t, a) ==
  /\ Kind(a) = "heap" /\ a \notin live
  /\ MayQueue(t, a) /\ Insert(t, a)
  /\ live' = live \cup {a} /\ thread' = [thread EXCEPT ![a] = t]
  /\ UNCHANGED <<mayQueue, disabled, executing, timers, pc, walk>>

KernelApcsRun(t) == ~disabled[t] /\ ~executing[t]

\* KeInitializeApc and KeInsertQueueApc: one queued to the calling thread runs
\* as the lock is released.
KeInsertQueueApc(t, a, self) ==
  /\ Kind(a) \in {"special", "normal"}
  /\ MayQueue(t, a) /\ Insert(t, a)
  /\ thread' = [thread EXCEPT ![a] = t]
  /\ self => pc[t] = "guest"
  /\ IF self /\ KernelApcsRun(t)
     THEN Goto(t, "deliver") /\ list' = [list EXCEPT ![t] = 0]
          /\ executing' = [executing EXCEPT ![t] = TRUE]
     ELSE UNCHANGED <<pc, list, executing>>
  /\ UNCHANGED <<live, mayQueue, disabled, timers, apc, first, chain>>

\* xeKeRemoveQueueApc.
RemoveQueued(a) ==
  IF enqueued[a] THEN RemoveEntry(a) /\ enqueued' = [enqueued EXCEPT ![a] = FALSE]
                 ELSE UNCHANGED links

KeRemoveQueueApc(a) ==
  /\ Kind(a) \in {"special", "normal"} /\ enqueued[a]
  /\ RemoveQueued(a)
  /\ UNCHANGED <<thread, live, mayQueue, disabled, executing, timers, pc, walk>>

-----------------------------------------------------------------------------
\* A timer that calls a routine of the thread that set it.
Untouched(a) == "reuse" \in setting.ops \/ \A t \in Threads : a \notin chain[t]

RemoveApc(a) == IF target[a] = None THEN UNCHANGED links ELSE RemoveQueued(a)

\* The callback is cancelled and the APC removed before it is used again.
SetTimer(t, a) ==
  /\ Kind(a) = "owned" /\ pc[t] \in {"guest", "taken"} /\ Untouched(a)
  /\ RemoveApc(a)
  /\ has' = has \cup {a} /\ live' = live \cup (IF a \in has THEN {} ELSE {a})
  /\ target' = [target EXCEPT ![a] = t] /\ thread' = [thread EXCEPT ![a] = t]
  /\ armed' = armed \cup {a}
  /\ UNCHANGED <<mayQueue, disabled, executing, pc, walk>>

\* Expires, for the last time unless it is periodic.
Fires(a) ==
  /\ a \in armed /\ armed' \in {armed, armed \ {a}}
  /\ LET t == thread[a]
     IN IF MayQueue(t, a) THEN Insert(t, a) ELSE UNCHANGED links
  /\ UNCHANGED <<thread, live, mayQueue, disabled, executing, has, target, pc, walk>>

CancelOnly(a) ==     \* a bug: the APC of the last expiry stays queued
  /\ UNCHANGED links /\ target' = [target EXCEPT ![a] = None] /\ armed' = armed \ {a}
CancelKeepsTimer(a) ==   \* a bug: the timer still expires
  /\ RemoveApc(a) /\ target' = [target EXCEPT ![a] = None] /\ UNCHANGED armed
Cancel(a) ==
  /\ RemoveApc(a) /\ target' = [target EXCEPT ![a] = None] /\ armed' = armed \ {a}

CancelTimer(a) ==
  /\ Kind(a) = "owned" /\ target[a] # None /\ Untouched(a) /\ Cancel(a)
  /\ UNCHANGED <<thread, live, mayQueue, disabled, executing, has, pc, walk>>

\* ~XTimer.
CloseTimer(a) ==
  /\ a \in has /\ Untouched(a) /\ Cancel(a)
  /\ has' = has \ {a} /\ live' = live \ {a}
  /\ UNCHANGED <<thread, mayQueue, disabled, executing, pc, walk>>

-----------------------------------------------------------------------------
\* An alertable wait, or a point where kernel APCs run.
ProcessApcs(t, m) ==
  /\ pc[t] = "guest"
  /\ m = 0 => KernelApcsRun(t) /\ ~Empty(<<t, 0>>)
  /\ Goto(t, "deliver") /\ list' = [list EXCEPT ![t] = m]
  /\ executing' = [executing EXCEPT ![t] = @ \/ m = 0]
  /\ UNCHANGED <<links, thread, live, mayQueue, disabled, timers, apc, first, chain>>

EnterCriticalRegion(t) ==
  /\ "regions" \in setting.ops /\ pc[t] = "guest" /\ disabled' = [disabled EXCEPT ![t] = TRUE]
  /\ UNCHANGED <<links, thread, live, mayQueue, executing, timers, pc, walk>>

LeaveCriticalRegion(t) ==
  /\ pc[t] = "guest" /\ disabled[t] /\ disabled' = [disabled EXCEPT ![t] = FALSE]
  /\ LET runs == ~executing[t] /\ ~Empty(<<t, 0>>)
     IN /\ pc' = [pc EXCEPT ![t] = IF runs THEN "deliver" ELSE @]
        /\ list' = [list EXCEPT ![t] = IF runs THEN 0 ELSE @]
        /\ executing' = [executing EXCEPT ![t] = @ \/ runs]
  /\ UNCHANGED <<links, thread, live, mayQueue, timers, apc, first, chain>>

\* One turn of ProcessApcList, under the lock.
Take(t) ==
  /\ pc[t] = "deliver"
  /\ LET h == <<t, list[t]>>  a == flink[h]
     IN IF Empty(h)
        THEN /\ Goto(t, "guest") /\ executing' = [executing EXCEPT ![t] = @ /\ list[t] # 0]
             /\ UNCHANGED <<links, apc>>
        ELSE /\ RemoveEntry(a) /\ enqueued' = [enqueued EXCEPT ![a] = FALSE]
             /\ apc' = [apc EXCEPT ![t] = a] /\ Goto(t, "taken") /\ UNCHANGED executing
  /\ UNCHANGED <<thread, live, mayQueue, disabled, timers, list, first, chain>>

\* The kernel routine, which for a heap APC means to free it, and the routine.
Run(t) ==
  /\ pc[t] = "taken"
  /\ live' = live \ {a \in {apc[t]} : Kind(a) = "heap"}
  /\ apc' = [apc EXCEPT ![t] = None] /\ Goto(t, "deliver")
  /\ UNCHANGED <<links, thread, mayQueue, disabled, executing, timers, list, first, chain>>

-----------------------------------------------------------------------------
\* XThread::Exit stops new APCs without the lock, then runs the lists down.
Exit(t) ==
  /\ "exit" \in setting.ops /\ pc[t] = "guest" /\ mayQueue[t]
  /\ mayQueue' = [mayQueue EXCEPT ![t] = FALSE] /\ Goto(t, "rundown")
  /\ UNCHANGED <<links, thread, live, disabled, executing, timers, walk>>

\* YankApcList under the lock: the list loses its head, not its links.
Yanked(t, m) == {a \in Apcs : enqueued[a] /\ thread[a] = t /\ Mode(a) = m}
Yank(t, m) ==
  IF Empty(<<t, m>>) THEN UNCHANGED links
  ELSE /\ enqueued' = [a \in Apcs |-> enqueued[a] /\ a \notin Yanked(t, m)]
       /\ RemoveEntry(<<t, m>>)

YankUserApcs(t) ==
  /\ pc[t] = "rundown" /\ Yank(t, 1)
  /\ LET a == flink[<<t, 1>>]
     IN IF Empty(<<t, 1>>) THEN Goto(t, "drop") /\ UNCHANGED <<apc, first, chain>>
        ELSE /\ Goto(t, "walk") /\ apc' = [apc EXCEPT ![t] = a] /\ first' = [first EXCEPT ![t] = a]
             /\ chain' = [chain EXCEPT ![t] = Yanked(t, 1)]
  /\ UNCHANGED <<thread, live, mayQueue, disabled, executing, timers, list>>

\* The walk goes by the links in the APCs, which nothing protects any more.
FreedByRundownAll(a) == TRUE     \* a bug: frees what a timer owns
FreedByRundown(a) == Kind(a) = "heap"
Walk(t) ==
  /\ pc[t] = "walk"
  /\ LET a == apc[t]  next == flink[a]  ends == next = first[t]
     IN /\ live' = live \ {x \in {a} : FreedByRundown(x)}
        /\ chain' = [chain EXCEPT ![t] = IF ends THEN {} ELSE @ \ {a}]
        /\ apc' = [apc EXCEPT ![t] = IF ends THEN None ELSE next]
        /\ IF ends THEN Goto(t, "drop") ELSE UNCHANGED pc
  /\ UNCHANGED <<links, thread, mayQueue, disabled, executing, timers, list, first>>

YankKernelApcs(t) ==
  /\ pc[t] = "drop" /\ Yank(t, 0) /\ Goto(t, "exited")
  /\ UNCHANGED <<thread, live, mayQueue, disabled, executing, timers, walk>>

\* Another thread ends this one.  It exits at its next safepoint and nothing
\* runs its lists down.
Terminate(t) ==
  /\ "terminate" \in setting.ops /\ mayQueue[t] /\ mayQueue' = [mayQueue EXCEPT ![t] = FALSE]
  /\ UNCHANGED <<links, thread, live, disabled, executing, timers, pc, walk>>

Dies(t) ==
  /\ "terminate" \in setting.ops /\ ~mayQueue[t] /\ pc[t] \in {"guest", "taken"} /\ Goto(t, "terminated")
  /\ UNCHANGED <<links, thread, live, mayQueue, disabled, executing, timers, walk>>

Step ==
  \/ \E t \in Threads, a \in setting.apcs :
       QueueApc(t, a) \/ SetTimer(t, a) \/ \E self \in BOOLEAN : KeInsertQueueApc(t, a, self)
  \/ \E a \in setting.apcs :
       KeRemoveQueueApc(a) \/ Fires(a) \/ CancelTimer(a) \/ CloseTimer(a)
  \/ \E t \in Threads :
       \/ (\E m \in Modes : ProcessApcs(t, m)) \/ Take(t) \/ Run(t)
       \/ EnterCriticalRegion(t) \/ LeaveCriticalRegion(t)
       \/ Exit(t) \/ YankUserApcs(t) \/ Walk(t) \/ YankKernelApcs(t)
       \/ Terminate(t) \/ Dies(t)
Next == Step /\ UNCHANGED setting

Spec == Init /\ [][Next]_vars

-----------------------------------------------------------------------------
\* The nodes of a list: its head and the APCs that say they are queued to it.
Ring(t, m) == {<<t, m>>} \cup Yanked(t, m)

\* The links from the head reach those nodes and no others, none of them is short of
\* the whole ring, and they agree in both directions.
IsRing(h, nodes) ==
  /\ \A n \in nodes : flink[n] \in nodes /\ blink[flink[n]] = n
  /\ \A part \in SUBSET nodes :
       h \in part /\ (\A n \in part : flink[n] \in part) => part = nodes

\* Every list that is not run down holds exactly the APCs that say they are queued to
\* it, whatever was removed from its middle.
InUse(t, m) == pc[t] # "exited" /\ ~(pc[t] \in {"walk", "drop"} /\ m = 1)
ListsSound == \A t \in Threads, m \in Modes : InUse(t, m) => IsRing(<<t, m>>, Ring(t, m))

\* Nothing reads or frees the memory of an APC that is gone: one that is
\* queued, taken for delivery or still in the chain of a run-down.
NoUseAfterFree ==
  /\ \A a \in Apcs : enqueued[a] => a \in live
  /\ \A t \in Threads :
       /\ pc[t] = "taken" /\ Kind(apc[t]) = "heap" => apc[t] \in live /\ ~enqueued[apc[t]]
       /\ pc[t] = "walk" => apc[t] \in live /\ apc[t] \in chain[t]

\* The run-down stays among the APCs that it took off the thread's list.
RundownStays ==
  \A t \in Threads : pc[t] = "walk" => apc[t] \in chain[t] /\ apc[t] \in live

\* A thread that exited has no APC queued, and every one it was sent is freed.
RundownFreesAll ==
  \A t \in Threads, a \in Apcs :
    pc[t] = "exited" /\ thread[a] = t => ~enqueued[a] /\ (Kind(a) = "heap" => a \notin live)

\* A timer can take its APC back as long as it is queued: once its cancel has
\* returned nothing of the last expiry is left in a list.
OwnerCanRemove == \A a \in OfKind("owned") : enqueued[a] => target[a] = thread[a]

\* Special kernel APCs come before normal ones.
SpecialsFirst ==
  \A a, b \in Apcs :
    enqueued[a] /\ enqueued[b] /\ flink[a] = b /\ Kind(b) = "special" => Kind(a) = "special"
================================================================================
