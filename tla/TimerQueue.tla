------------------------------ MODULE TimerQueue -------------------------------
(***************************************************************************)
(* The host timer queue (base/threading_timer_queue.cc), the timers built  *)
(* on it (PosixCondition<Timer>, base/threading_posix.cc) and the kernel   *)
(* timers that set, cancel and close them (kernel/xtimer.cc).              *)
(*                                                                         *)
(* Setting a timer makes an item and publishes it in a ring.  The dispatch *)
(* thread moves published items to its sorted queue, runs the callbacks of *)
(* those that are due, one after another, and queues repeating ones again. *)
(* Disarm is lock free: it spins until it moves the item from idle to      *)
(* disarmed or finds it disarmed.  Everything a handler does under a lock  *)
(* without waiting is one step.                                            *)
(*                                                                         *)
(* The queue is a set, of which an item with the least due time is first,  *)
(* and a due time is what is left of it.  Claiming and publishing a slot   *)
(* of the ring is one step.                                                *)
(***************************************************************************)
EXTENDS Integers, FiniteSets

CONSTANTS
  Timers, Threads,
  Queue,                 \* the dispatch thread of the queue
  Items,                 \* as many as are alive at once
  None,
  RingSize,              \* kWaitCount
  Dues, Intervals,       \* what callers ask for; interval 0 is a single expiry
  Lag,                   \* bound: how late the dispatch thread gets at most
  Ops                    \* "close", "all" (CancelAll), "apc" (timers with a routine),
                         \* "self": a callback sets or cancels its own timer,
                         \* "again": and does so more than once

ASSUME TimerAssumption ==
  /\ Queue \notin Threads /\ None \notin Threads \cup {Queue} \cup Items \cup Timers
  /\ RingSize \in Nat \ {0} /\ Lag \in Nat /\ Dues \subseteq Nat /\ Intervals \subseteq Nat
  /\ IsFiniteSet(Items)

Actors == Threads \cup {Queue}

VARIABLES
  state, due, interval, owner,   \* of every item; owner is its userdata_
  ring, queue, later,            \* published; wait_queue_; the local wait_items
  cur, qpc, copied,              \* the dispatch thread: item, place, copy of callback_
  waitItem, callback, signal,    \* a timer: wait_item_; the item callback_ was set for
  mutex, timerLock, global,      \* who holds which lock
  alive, apc,                    \* LiveTimers(); the timers with an apc_ptr_
  pc, op, tm, todo,              \* a caller
  over                           \* ghost: timers cancelled and not set again

item == <<state, due, interval, owner>>
places == <<ring, queue, later>>
disp == <<cur, qpc, copied>>
timer == <<waitItem, callback, signal>>
locks == <<mutex, timerLock, global>>
caller == <<pc, op, tm, todo>>
vars == <<item, places, disp, timer, locks, alive, apc, caller, over>>

Held == ring \cup queue \cup later \cup ({cur} \ {None})
Free == Items \ (Held \cup {waitItem[t] : t \in Timers})

TypeOK ==
  /\ state \in [Items -> {"idle", "callback", "self", "disarmed"}]
  /\ due \in [Items -> Int] /\ interval \in [Items -> Intervals \cup {0}]
  /\ owner \in [Items -> Timers \cup {None}]
  /\ ring \subseteq Items /\ queue \subseteq Items /\ later \subseteq Items
  /\ cur \in Items \cup {None} /\ copied \in Items \cup {None}
  /\ qpc \in {"wait", "scan", "signal", "copy", "run", "done"}
  /\ waitItem \in [Timers -> Items \cup {None}]
  /\ callback \in [Timers -> Items \cup {None}]
  /\ signal \in [Timers -> BOOLEAN]
  /\ {mutex, timerLock} \subseteq [Timers -> Actors \cup {None}]
  /\ global \in Threads \cup {None} /\ alive \subseteq Timers /\ apc \subseteq Timers
  /\ pc \in [Actors -> {"idle", "global", "lock", "disarm", "alloc", "mutex", "publish"}]
  /\ op \in [Actors -> {"none", "set", "cancel", "close", "all"}]
  /\ tm \in [Actors -> Timers \cup {None}]
  /\ todo \in [Actors -> SUBSET Timers]
  /\ over \subseteq Timers
  \* Outside a callback an item is idle or disarmed, as the dispatch thread asserts.
  /\ \A i \in Items \ {cur} : state[i] \in {"idle", "disarmed"}

Init ==
  /\ state = [i \in Items |-> "disarmed"] /\ due = [i \in Items |-> 0]
  /\ interval = [i \in Items |-> 0] /\ owner = [i \in Items |-> None]
  /\ ring = {} /\ queue = {} /\ later = {}
  /\ cur = None /\ qpc = "wait" /\ copied = None
  /\ waitItem = [t \in Timers |-> None] /\ callback = [t \in Timers |-> None]
  /\ signal = [t \in Timers |-> FALSE]
  /\ mutex = [t \in Timers |-> None] /\ timerLock = [t \in Timers |-> None] /\ global = None
  /\ alive = Timers /\ apc = {}
  /\ pc = [a \in Actors |-> "idle"] /\ op = [a \in Actors |-> "none"]
  /\ tm = [a \in Actors |-> None] /\ todo = [a \in Actors |-> {}]
  /\ over = {}

Goto(a, l) == pc' = [pc EXCEPT ![a] = l]
Return(a) ==
  tm' = [tm EXCEPT ![a] = None] /\ op' = [op EXCEPT ![a] = "none"] /\ Goto(a, "idle")

-----------------------------------------------------------------------------
\* XTimer::SetTimer and Cancel under timer_lock_, ~XTimer and CancelAll under the
\* global lock; the last takes each timer's lock within it.
Call(a, o, t) ==
  /\ pc[a] = "idle"
  /\ op' = [op EXCEPT ![a] = o] /\ tm' = [tm EXCEPT ![a] = t]
  /\ UNCHANGED <<item, places, disp, timer, locks, alive, apc, todo, over>>

Use(a, o, t) ==
  /\ t \in alive /\ \A b \in Threads : op[b] = "close" => tm[b] # t
  /\ tm[Queue] # t
  /\ Call(a, o, t) /\ Goto(a, "lock")

\* The last reference is gone.
Close(a, t) ==
  /\ "close" \in Ops /\ t \in alive /\ \A b \in Threads : tm[b] = t => op[b] = "all"
  /\ Call(a, "close", t) /\ Goto(a, "global")

CancelAll(a) == "all" \in Ops /\ Call(a, "all", None) /\ Goto(a, "global")

TakeGlobal(a) ==
  /\ pc[a] = "global" /\ global = None
  /\ \/ /\ op[a] = "close" /\ global' = a
        /\ alive' = alive \ {tm[a]} /\ Goto(a, "disarm") /\ UNCHANGED <<op, tm, todo>>
     \/ \E t \in alive :
          /\ op[a] = "all" /\ global' = a
          /\ tm' = [tm EXCEPT ![a] = t] /\ todo' = [todo EXCEPT ![a] = alive \ {t}]
          /\ Goto(a, "lock") /\ UNCHANGED <<op, alive>>
     \/ op[a] = "all" /\ alive = {} /\ Return(a) /\ UNCHANGED <<global, todo, alive>>
  /\ UNCHANGED <<item, places, disp, timer, mutex, timerLock, apc, over>>

TakeAnyway(a) ==     \* a bug: two callers set a timer at once
  /\ pc[a] = "lock" /\ Goto(a, "disarm")
  /\ UNCHANGED <<item, places, disp, timer, locks, alive, apc, op, tm, todo, over>>
TakeTimerLock(a) ==
  /\ pc[a] = "lock" /\ timerLock[tm[a]] = None
  /\ timerLock' = [timerLock EXCEPT ![tm[a]] = a] /\ Goto(a, "disarm")
  /\ UNCHANGED <<item, places, disp, timer, mutex, global, alive, apc, op, tm, todo, over>>

-----------------------------------------------------------------------------
\* TimerQueueWaitItem::Disarm, on the dispatch thread from within the callback
\* or anywhere else.  A compare and exchange that fails is tried again.
DisarmRunning(a, i) ==     \* a bug: returns while the callback runs
  /\ state' = [state EXCEPT ![i] = IF @ = "callback" THEN "self" ELSE "disarmed"]
DisarmIdle(a, i) ==        \* a bug: waits for an item that is over to be idle
  state[i] = "idle" /\ state' = [state EXCEPT ![i] = "disarmed"]
DisarmItem(a, i) ==
  IF a = Queue /\ state[i] = "callback"
  THEN state' = [state EXCEPT ![i] = "self"]
  ELSE state[i] \in {"idle", "disarmed"} /\ state' = [state EXCEPT ![i] = "disarmed"]

\* The weak pointer of an item that is gone is None.
DisarmOld(a, t) ==
  IF waitItem[t] # None THEN DisarmItem(a, waitItem[t]) ELSE UNCHANGED state

Unlocked(a, t) ==
  timerLock' = [timerLock EXCEPT ![t] = IF @ = a THEN None ELSE @]

\* A first routine needs memory for an APC.
Before(a) == {"mutex"} \cup (IF "apc" \in Ops /\ a # Queue /\ tm[a] \notin apc THEN {"alloc"} ELSE {})

\* The host timer's Cancel, and what its callers do after it.
Disarm(a) ==
  /\ pc[a] = "disarm"
  /\ LET t == tm[a]
     IN /\ DisarmOld(a, t)
        /\ CASE op[a] = "set" -> (\E l \in Before(a) : Goto(a, l)) /\ UNCHANGED <<op, tm, todo, timerLock, global, over>>
             [] op[a] = "all" /\ todo[a] # {} ->
                  \E n \in todo[a] : /\ tm' = [tm EXCEPT ![a] = n] /\ Goto(a, "lock")
                                     /\ todo' = [todo EXCEPT ![a] = @ \ {n}]
                                     /\ Unlocked(a, t) /\ over' = over \cup {t} /\ UNCHANGED <<op, global>>
             [] OTHER -> /\ Return(a) /\ Unlocked(a, t) /\ over' = over \cup {t}
                         /\ global' = IF global = a THEN None ELSE global
                         /\ UNCHANGED todo
  /\ UNCHANGED <<due, interval, owner, places, disp, timer, mutex, alive, apc>>

\* SystemHeapAlloc of the timer's APC, which takes the global lock for a moment.
Alloc(a) ==
  /\ pc[a] = "alloc" /\ global = None /\ apc' = apc \cup {tm[a]}
  /\ Goto(a, "mutex")
  /\ UNCHANGED <<item, places, disp, timer, locks, alive, op, tm, todo, over>>

\* SetOnce and SetRepeating hold the timer's mutex_ until the item is published.
SetCallback(a) ==
  /\ pc[a] = "mutex" /\ mutex[tm[a]] = None
  /\ mutex' = [mutex EXCEPT ![tm[a]] = a]
  /\ signal' = [signal EXCEPT ![tm[a]] = FALSE]
  /\ \E i \in Free :
       /\ callback' = [callback EXCEPT ![tm[a]] = i]
       /\ waitItem' = [waitItem EXCEPT ![tm[a]] = i]
  /\ Goto(a, "publish")
  /\ UNCHANGED <<item, places, disp, timerLock, global, alive, apc, op, tm, todo, over>>

\* QueueTimer.  A ring that is full is waited for.
Publish(a) ==
  /\ pc[a] = "publish" /\ Cardinality(ring) < RingSize
  /\ LET t == tm[a]  i == waitItem[t]
     IN /\ ring' = ring \cup {i} /\ state' = [state EXCEPT ![i] = "idle"]
        /\ \E d \in Dues : due' = [due EXCEPT ![i] = d]
        /\ \E v \in Intervals : interval' = [interval EXCEPT ![i] = v]
        /\ owner' = [owner EXCEPT ![i] = t]
        /\ mutex' = [mutex EXCEPT ![t] = None] /\ Unlocked(a, t)
        /\ over' = over \ {t}
  /\ Return(a)
  /\ UNCHANGED <<queue, later, disp, timer, global, alive, apc, todo>>

-----------------------------------------------------------------------------
\* The dispatch thread drops an item that is over.  Unless a caller in Disarm has
\* it too it is gone: weak pointers to it expire (and the closure that was set with
\* it stays, unused).
Drop(i) ==
  LET kept == \E a \in Actors : pc[a] = "disarm" /\ waitItem[tm[a]] = i
      Without(f) == [t \in Timers |-> IF f[t] = i /\ ~kept THEN None ELSE f[t]]
  IN /\ waitItem' = Without(waitItem) /\ callback' = Without(callback)
     /\ state' = [state EXCEPT ![i] = "disarmed"] /\ due' = [due EXCEPT ![i] = 0]
     /\ interval' = [interval EXCEPT ![i] = 0] /\ owner' = [owner EXCEPT ![i] = None]

\* TimerThreadMain.  It waits for a published item or for the first due time.
IsDue(i) == due[i] <= 0
First(q) == {i \in q : \A j \in q : due[i] <= due[j]}

WokenByPublish == ring # {}     \* a bug: sleeps through the first due time
Woken == ring # {} \/ \E i \in queue : IsDue(i)
Consume ==
  /\ qpc = "wait" /\ Woken
  /\ queue' = queue \cup ring /\ ring' = {} /\ qpc' = "scan"
  /\ UNCHANGED <<item, later, cur, copied, timer, locks, alive, apc, caller, over>>

Started(i) ==
  /\ state' = [state EXCEPT ![i] = "callback"] /\ cur' = i /\ qpc' = "signal"
  /\ UNCHANGED <<due, interval, owner, waitItem, callback>>
StartAny(i) == Started(i)     \* a bug: does not look whether the item was disarmed
Start(i) ==
  \/ state[i] = "idle" /\ Started(i)
  \/ state[i] = "disarmed" /\ Drop(i) /\ UNCHANGED <<cur, qpc>>

Scan ==
  /\ qpc = "scan"
  /\ \E i \in First(queue) : IsDue(i) /\ queue' = queue \ {i} /\ Start(i)
  /\ UNCHANGED <<ring, later, copied, signal, locks, alive, apc, caller, over>>

ScanDone ==
  /\ qpc = "scan" /\ \A i \in queue : ~IsDue(i)
  /\ queue' = queue \cup later /\ later' = {} /\ qpc' = "wait"
  /\ UNCHANGED <<item, ring, cur, copied, timer, locks, alive, apc, caller, over>>

\* CompletionRoutine, the callback of every item.
Signal ==
  /\ qpc = "signal" /\ mutex[owner[cur]] = None
  /\ signal' = [signal EXCEPT ![owner[cur]] = TRUE] /\ qpc' = "copy"
  /\ UNCHANGED <<item, places, cur, copied, waitItem, callback, locks, alive, apc, caller, over>>

CopyCallback ==
  /\ qpc = "copy" /\ mutex[owner[cur]] = None
  /\ copied' = callback[owner[cur]] /\ qpc' = "run"
  /\ UNCHANGED <<item, places, cur, timer, locks, alive, apc, caller, over>>

\* The callback sets or cancels its own timer.
SelfUse(o) ==
  /\ "self" \in Ops /\ qpc = "run" /\ ("again" \in Ops \/ state[cur] = "callback")
  /\ \A b \in Threads : tm[b] # owner[cur]
  /\ Call(Queue, o, owner[cur]) /\ Goto(Queue, "disarm")

CallbackReturns ==
  /\ qpc = "run" /\ pc[Queue] = "idle" /\ qpc' = "done" /\ copied' = None
  /\ UNCHANGED <<item, places, cur, timer, locks, alive, apc, caller, over>>

\* A repeating item that did not disarm itself goes back, for its next time.
RequeueAny == interval[cur] # 0     \* a bug: one that disarmed itself as well
Requeue == interval[cur] # 0 /\ state[cur] # "self"
RearmLate(i) == UNCHANGED state     \* a bug: forgets that the callback is over
Rearm(i) == state' = [state EXCEPT ![i] = "idle"]
Finish ==
  /\ qpc = "done"
  /\ IF Requeue
     THEN /\ due' = [due EXCEPT ![cur] = @ + interval[cur]]
          /\ Rearm(cur) /\ later' = later \cup {cur}
          /\ UNCHANGED <<interval, owner, waitItem, callback>>
     ELSE Drop(cur) /\ UNCHANGED later
  /\ cur' = None /\ qpc' = "scan"
  /\ UNCHANGED <<ring, queue, copied, signal, locks, alive, apc, caller, over>>

\* Time passes.
Tick ==
  /\ Held # {} /\ \A i \in Held : due[i] > -Lag
  /\ \E i \in Held : ~IsDue(i)
  /\ due' = [i \in Items |-> IF i \in Held THEN due[i] - 1 ELSE due[i]]
  /\ UNCHANGED <<state, interval, owner, places, disp, timer, locks, alive, apc, caller, over>>

Runs(a) ==
  \/ TakeGlobal(a) \/ TakeTimerLock(a) \/ Disarm(a) \/ Alloc(a) \/ SetCallback(a)
  \/ Publish(a)

Dispatches == Consume \/ Scan \/ ScanDone \/ Signal \/ CopyCallback \/ CallbackReturns \/ Finish

Next ==
  \/ \E a \in Threads : \/ CancelAll(a) \/ \E t \in Timers : Close(a, t)
                        \/ \E t \in Timers, o \in {"set", "cancel"} : Use(a, o, t)
  \/ \E a \in Actors : Runs(a)
  \/ Dispatches \/ Tick \/ \E o \in {"set", "cancel"} : SelfUse(o)

Spec == Init /\ [][Next]_vars

\* The dispatch thread runs, callers go on once they have called, callbacks return
\* and time passes.
Fairness ==
  /\ WF_vars(Dispatches) /\ WF_vars(Tick) /\ \A a \in Actors : WF_vars(Runs(a))

-----------------------------------------------------------------------------
\* Once a timer was cancelled or closed, and until it is set again, nothing of it
\* is armed and none of its callbacks runs: what they use may be freed.
CancelIsOver == \A t \in over : \A i \in Held : owner[i] = t => state[i] = "disarmed"

\* A timer never has two items that can still expire, whoever sets it when.
OneArmed ==
  \A t \in Timers : \A i, j \in Held :
    owner[i] = t /\ owner[j] = t /\ {state[i], state[j]} \subseteq {"idle", "callback"} => i = j

\* The callback that runs is the one that was set together with the item that
\* expired, never one of a later or an earlier setting.
CallbackIsOwn == qpc = "run" => copied = cur

\* A callback that disarms its own item does not wait for itself.
SelfDisarmReturns ==
  pc[Queue] = "disarm" /\ waitItem[tm[Queue]] # None => state[waitItem[tm[Queue]]] # "self"

\* CancelAll, which holds the global lock, never waits for a timer's lock whose
\* holder waits for the global one.
GlobalLockFirst ==
  \A a, b \in Threads :
    global = a /\ pc[a] = "lock" /\ timerLock[tm[a]] = b => pc[b] # "alloc"

\* A timer that is set expires unless it is cancelled.
Expires == \A i \in Items : i \in Held /\ state[i] = "idle" ~> state[i] # "idle"

\* Disarm of a timer that expires once returns.  (One that repeats may start its
\* callback again each time before the caller looks.)
DisarmReturns ==
  \A a \in Threads :
    pc[a] = "disarm" /\ (waitItem[tm[a]] # None => interval[waitItem[tm[a]]] = 0)
      ~> pc[a] # "disarm"
================================================================================
