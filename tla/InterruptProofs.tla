---------------------------- MODULE InterruptProofs ----------------------------
(***************************************************************************)
(* A cancelled timer is over, for any number of timers, callers and items. *)
(* The lists of APCs are sound, for any number of threads and APCs.        *)
(***************************************************************************)
EXTENDS MCInterrupts, FiniteSetTheorems, NaturalsInduction, TLAPS

(***************************************************************************)
(* The host timer queue.                                                   *)
(***************************************************************************)
Armed(i) == i \in Held /\ state[i] \in {"idle", "callback"}

\* An item is in one place.
OnePlace ==
  /\ ring \cap queue = {} /\ ring \cap later = {} /\ queue \cap later = {}
  /\ cur \notin ring \cup queue \cup later

\* What the dispatch thread is at.
AtItem ==
  /\ cur # None <=> qpc \in {"signal", "copy", "run", "done"}
  /\ cur # None => state[cur] = "callback"
  /\ \A i \in Items : state[i] # "self"
  /\ pc[Queue] = "idle" /\ tm[Queue] = None

\* A caller has a timer, and the lock of the one it sets.
Setting == {"alloc", "mutex", "publish"}
HasLock ==
  \A a \in Threads :
    /\ pc[a] \in Setting \cup {"lock", "disarm"} => tm[a] \in Timers
    /\ pc[a] = "global" /\ op[a] = "close" => tm[a] \in Timers
    /\ pc[a] \in Setting => timerLock[tm[a]] = a
    /\ pc[a] = "lock" => op[a] # "close"
    /\ pc[a] = "disarm" /\ op[a] = "set" => timerLock[tm[a]] = a

\* An armed item is the one its timer points at, with its callback.
Known ==
  \A i \in Items : Armed(i) =>
    owner[i] \in Timers /\ waitItem[owner[i]] = i /\ callback[owner[i]] = i

\* Whoever sets a timer has disarmed what it was set to, and its new item is its own.
Cleared ==
  \A a \in Threads : pc[a] \in Setting => \A i \in Items : Armed(i) => owner[i] # tm[a]
NewItem ==
  \A a \in Threads : pc[a] = "publish" =>
    /\ waitItem[tm[a]] \in Items \ Held /\ callback[tm[a]] = waitItem[tm[a]]
    /\ \A t \in Timers \ {tm[a]} : waitItem[t] # waitItem[tm[a]]

Over == \A t \in over : \A i \in Items : Armed(i) => owner[i] # t

IInv ==
  /\ TypeOK /\ OnePlace /\ AtItem /\ HasLock /\ Known /\ Cleared /\ NewItem /\ Over
  /\ CallbackIsOwn

LEMMA UseSteps ==
  ASSUME IInv, "self" \notin Ops,
         NEW a \in Threads, NEW t \in Timers, NEW o \in {"set", "cancel"}, Use(a, o, t)
  PROVE  IInv'
<1>1. TypeOK'
  BY TimerAssumption, SMTT(30) DEF IInv, Actors, Armed, AtItem, HasLock, Held, NewItem, Setting,
         TypeOK, Use, Call, Goto, item, places, disp, timer, locks, caller
<1>2. OnePlace'
  BY TimerAssumption, SMTT(30) DEF IInv, Actors, Armed, AtItem, Held, NewItem, OnePlace, Setting,
         TypeOK, Use, Call, Goto, item, places, disp, timer, locks, caller
<1>3. AtItem'
  BY TimerAssumption, SMTT(30) DEF IInv, Actors, Armed, AtItem, HasLock, Held, NewItem, OnePlace,
         Setting, TypeOK, Use, Call, Goto, item, places, disp, timer, locks, caller
<1>4. HasLock'
  BY TimerAssumption, SMTT(30) DEF IInv, Actors, Armed, HasLock, Held, Setting, TypeOK, Use,
         Call, Goto, item, places, disp, timer, locks, caller
<1>5. Known'
  BY TimerAssumption, SMTT(30) DEF IInv, Actors, Armed, AtItem, Cleared, HasLock, Held, Known,
         NewItem, OnePlace, Setting, TypeOK, Use, Call, Goto, item, places, disp, timer, locks,
         caller
<1>6. Cleared'
  BY TimerAssumption, SMTT(30) DEF IInv, Actors, Armed, AtItem, Cleared, HasLock, Held, Known,
         NewItem, OnePlace, Setting, TypeOK, Use, Call, Goto, item, places, disp, timer, locks,
         caller
<1>7. NewItem'
  BY TimerAssumption, SMTT(30) DEF IInv, Actors, Armed, AtItem, HasLock, Held, Known, NewItem,
         OnePlace, Setting, TypeOK, Use, Call, Goto, item, places, disp, timer, locks, caller
<1>8. Over'
  BY TimerAssumption, SMTT(30) DEF IInv, Actors, Armed, AtItem, HasLock, Held, Known, NewItem,
         OnePlace, Over, Setting, TypeOK, Use, Call, Goto, item, places, disp, timer, locks,
         caller
<1>9. CallbackIsOwn'
  BY TimerAssumption, SMTT(30) DEF IInv, Actors, Armed, AtItem, CallbackIsOwn, Held, Known,
         Setting, TypeOK, Use, Call, Goto, item, places, disp, timer, locks, caller
<1>q. QED BY <1>1, <1>2, <1>3, <1>4, <1>5, <1>6, <1>7, <1>8, <1>9 DEF IInv

LEMMA CloseSteps ==
  ASSUME IInv, "self" \notin Ops, NEW a \in Threads, NEW t \in Timers, Close(a, t)
  PROVE  IInv'
<1>1. TypeOK'
  BY TimerAssumption, SMTT(30) DEF IInv, Actors, Armed, AtItem, HasLock, Held, NewItem, Setting,
         TypeOK, Close, Call, Goto, item, places, disp, timer, locks, caller
<1>2. OnePlace'
  BY TimerAssumption, SMTT(30) DEF IInv, Actors, Armed, AtItem, Held, NewItem, OnePlace, Setting,
         TypeOK, Close, Call, Goto, item, places, disp, timer, locks, caller
<1>3. AtItem'
  BY TimerAssumption, SMTT(30) DEF IInv, Actors, Armed, AtItem, HasLock, Held, NewItem, OnePlace,
         Setting, TypeOK, Close, Call, Goto, item, places, disp, timer, locks, caller
<1>4. HasLock'
  BY TimerAssumption, SMTT(30) DEF IInv, Actors, Armed, HasLock, Held, Setting, TypeOK, Close,
         Call, Goto, item, places, disp, timer, locks, caller
<1>5. Known'
  BY TimerAssumption, SMTT(30) DEF IInv, Actors, Armed, AtItem, Cleared, HasLock, Held, Known,
         NewItem, OnePlace, Setting, TypeOK, Close, Call, Goto, item, places, disp, timer, locks,
         caller
<1>6. Cleared'
  BY TimerAssumption, SMTT(30) DEF IInv, Actors, Armed, AtItem, Cleared, HasLock, Held, Known,
         NewItem, OnePlace, Setting, TypeOK, Close, Call, Goto, item, places, disp, timer, locks,
         caller
<1>7. NewItem'
  BY TimerAssumption, SMTT(30) DEF IInv, Actors, Armed, AtItem, HasLock, Held, Known, NewItem,
         OnePlace, Setting, TypeOK, Close, Call, Goto, item, places, disp, timer, locks, caller
<1>8. Over'
  BY TimerAssumption, SMTT(30) DEF IInv, Actors, Armed, AtItem, HasLock, Held, Known, NewItem,
         OnePlace, Over, Setting, TypeOK, Close, Call, Goto, item, places, disp, timer, locks,
         caller
<1>9. CallbackIsOwn'
  BY TimerAssumption, SMTT(30) DEF IInv, Actors, Armed, AtItem, CallbackIsOwn, Held, Known,
         Setting, TypeOK, Close, Call, Goto, item, places, disp, timer, locks, caller
<1>q. QED BY <1>1, <1>2, <1>3, <1>4, <1>5, <1>6, <1>7, <1>8, <1>9 DEF IInv

LEMMA AllSteps ==
  ASSUME IInv, "self" \notin Ops, NEW a \in Threads, CancelAll(a)
  PROVE  IInv'
<1>1. TypeOK'
  BY TimerAssumption, SMTT(30) DEF IInv, Actors, Armed, AtItem, HasLock, Held, NewItem, Setting,
         TypeOK, CancelAll, Call, Goto, item, places, disp, timer, locks, caller
<1>2. OnePlace'
  BY TimerAssumption, SMTT(30) DEF IInv, Actors, Armed, AtItem, Held, NewItem, OnePlace, Setting,
         TypeOK, CancelAll, Call, Goto, item, places, disp, timer, locks, caller
<1>3. AtItem'
  BY TimerAssumption, SMTT(30) DEF IInv, Actors, Armed, AtItem, HasLock, Held, NewItem, OnePlace,
         Setting, TypeOK, CancelAll, Call, Goto, item, places, disp, timer, locks, caller
<1>4. HasLock'
  BY TimerAssumption, SMTT(30) DEF IInv, Actors, Armed, HasLock, Held, Setting, TypeOK,
         CancelAll, Call, Goto, item, places, disp, timer, locks, caller
<1>5. Known'
  BY TimerAssumption, SMTT(30) DEF IInv, Actors, Armed, AtItem, Cleared, HasLock, Held, Known,
         NewItem, OnePlace, Setting, TypeOK, CancelAll, Call, Goto, item, places, disp, timer,
         locks, caller
<1>6. Cleared'
  BY TimerAssumption, SMTT(30) DEF IInv, Actors, Armed, AtItem, Cleared, HasLock, Held, Known,
         NewItem, OnePlace, Setting, TypeOK, CancelAll, Call, Goto, item, places, disp, timer,
         locks, caller
<1>7. NewItem'
  BY TimerAssumption, SMTT(30) DEF IInv, Actors, Armed, AtItem, HasLock, Held, Known, NewItem,
         OnePlace, Setting, TypeOK, CancelAll, Call, Goto, item, places, disp, timer, locks,
         caller
<1>8. Over'
  BY TimerAssumption, SMTT(30) DEF IInv, Actors, Armed, AtItem, HasLock, Held, Known, NewItem,
         OnePlace, Over, Setting, TypeOK, CancelAll, Call, Goto, item, places, disp, timer,
         locks, caller
<1>9. CallbackIsOwn'
  BY TimerAssumption, SMTT(30) DEF IInv, Actors, Armed, AtItem, CallbackIsOwn, Held, Known,
         Setting, TypeOK, CancelAll, Call, Goto, item, places, disp, timer, locks, caller
<1>q. QED BY <1>1, <1>2, <1>3, <1>4, <1>5, <1>6, <1>7, <1>8, <1>9 DEF IInv

LEMMA GlobalSteps ==
  ASSUME IInv, "self" \notin Ops, NEW a \in Threads, TakeGlobal(a)
  PROVE  IInv'
<1>1. TypeOK'
  BY TimerAssumption, SMTT(30) DEF IInv, Actors, Armed, AtItem, HasLock, Held, NewItem, Setting,
         TypeOK, TakeGlobal, Return, Goto, item, places, disp, timer, locks, caller
<1>2. OnePlace'
  BY TimerAssumption, SMTT(30) DEF IInv, Actors, Armed, AtItem, Held, NewItem, OnePlace, Setting,
         TypeOK, TakeGlobal, Return, Goto, item, places, disp, timer, locks, caller
<1>3. AtItem'
  BY TimerAssumption, SMTT(30) DEF IInv, Actors, Armed, AtItem, HasLock, Held, NewItem, OnePlace,
         Setting, TypeOK, TakeGlobal, Return, Goto, item, places, disp, timer, locks, caller
<1>4. HasLock'
  BY TimerAssumption, SMTT(30) DEF IInv, Actors, Armed, HasLock, Held, Setting, TypeOK,
         TakeGlobal, Return, Goto, item, places, disp, timer, locks, caller
<1>5. Known'
  BY TimerAssumption, SMTT(30) DEF IInv, Actors, Armed, AtItem, Cleared, HasLock, Held, Known,
         NewItem, OnePlace, Setting, TypeOK, TakeGlobal, Return, Goto, item, places, disp, timer,
         locks, caller
<1>6. Cleared'
  BY TimerAssumption, SMTT(30) DEF IInv, Actors, Armed, AtItem, Cleared, HasLock, Held, Known,
         NewItem, OnePlace, Setting, TypeOK, TakeGlobal, Return, Goto, item, places, disp, timer,
         locks, caller
<1>7. NewItem'
  BY TimerAssumption, SMTT(30) DEF IInv, Actors, Armed, AtItem, HasLock, Held, Known, NewItem,
         OnePlace, Setting, TypeOK, TakeGlobal, Return, Goto, item, places, disp, timer, locks,
         caller
<1>8. Over'
  BY TimerAssumption, SMTT(30) DEF IInv, Actors, Armed, AtItem, HasLock, Held, Known, NewItem,
         OnePlace, Over, Setting, TypeOK, TakeGlobal, Return, Goto, item, places, disp, timer,
         locks, caller
<1>9. CallbackIsOwn'
  BY TimerAssumption, SMTT(30) DEF IInv, Actors, Armed, AtItem, CallbackIsOwn, Held, Known,
         Setting, TypeOK, TakeGlobal, Return, Goto, item, places, disp, timer, locks, caller
<1>q. QED BY <1>1, <1>2, <1>3, <1>4, <1>5, <1>6, <1>7, <1>8, <1>9 DEF IInv

LEMMA LockSteps ==
  ASSUME IInv, "self" \notin Ops, NEW a \in Threads, TakeTimerLock(a)
  PROVE  IInv'
<1>1. TypeOK'
  BY TimerAssumption, SMTT(30) DEF IInv, Actors, Armed, AtItem, HasLock, Held, NewItem, Setting,
         TypeOK, TakeTimerLock, Goto, item, places, disp, timer, locks, caller
<1>2. OnePlace'
  BY TimerAssumption, SMTT(30) DEF IInv, Actors, Armed, AtItem, Held, NewItem, OnePlace, Setting,
         TypeOK, TakeTimerLock, Goto, item, places, disp, timer, locks, caller
<1>3. AtItem'
  BY TimerAssumption, SMTT(30) DEF IInv, Actors, Armed, AtItem, HasLock, Held, NewItem, OnePlace,
         Setting, TypeOK, TakeTimerLock, Goto, item, places, disp, timer, locks, caller
<1>4. HasLock'
  BY TimerAssumption, SMTT(30) DEF IInv, Actors, Armed, HasLock, Held, Setting, TypeOK,
         TakeTimerLock, Goto, item, places, disp, timer, locks, caller
<1>5. Known'
  BY TimerAssumption, SMTT(30) DEF IInv, Actors, Armed, AtItem, Cleared, HasLock, Held, Known,
         NewItem, OnePlace, Setting, TypeOK, TakeTimerLock, Goto, item, places, disp, timer,
         locks, caller
<1>6. Cleared'
  BY TimerAssumption, SMTT(30) DEF IInv, Actors, Armed, AtItem, Cleared, HasLock, Held, Known,
         NewItem, OnePlace, Setting, TypeOK, TakeTimerLock, Goto, item, places, disp, timer,
         locks, caller
<1>7. NewItem'
  BY TimerAssumption, SMTT(30) DEF IInv, Actors, Armed, AtItem, HasLock, Held, Known, NewItem,
         OnePlace, Setting, TypeOK, TakeTimerLock, Goto, item, places, disp, timer, locks, caller
<1>8. Over'
  BY TimerAssumption, SMTT(30) DEF IInv, Actors, Armed, AtItem, HasLock, Held, Known, NewItem,
         OnePlace, Over, Setting, TypeOK, TakeTimerLock, Goto, item, places, disp, timer, locks,
         caller
<1>9. CallbackIsOwn'
  BY TimerAssumption, SMTT(30) DEF IInv, Actors, Armed, AtItem, CallbackIsOwn, Held, Known,
         Setting, TypeOK, TakeTimerLock, Goto, item, places, disp, timer, locks, caller
<1>q. QED BY <1>1, <1>2, <1>3, <1>4, <1>5, <1>6, <1>7, <1>8, <1>9 DEF IInv

LEMMA DisarmSteps ==
  ASSUME IInv, "self" \notin Ops, NEW a \in Threads, Disarm(a)
  PROVE  IInv'
<1>1. TypeOK'
  BY TimerAssumption, SMTT(30) DEF IInv, Actors, Armed, AtItem, HasLock, Held, NewItem, Setting,
         TypeOK, Disarm, DisarmOld, DisarmItem, Before, Unlocked, Return, Goto, item, places,
         disp, timer, locks, caller
<1>2. OnePlace'
  BY TimerAssumption, SMTT(30) DEF IInv, Actors, Armed, AtItem, Held, NewItem, OnePlace, Setting,
         TypeOK, Disarm, DisarmOld, DisarmItem, Before, Unlocked, Return, Goto, item, places,
         disp, timer, locks, caller
<1>3. AtItem'
  BY TimerAssumption, SMTT(30) DEF IInv, Actors, Armed, AtItem, HasLock, Held, NewItem, OnePlace,
         Setting, TypeOK, Disarm, DisarmOld, DisarmItem, Before, Unlocked, Return, Goto, item,
         places, disp, timer, locks, caller
<1>4. HasLock'
  BY TimerAssumption, SMTT(30) DEF IInv, Actors, Armed, HasLock, Held, Setting, TypeOK, Disarm,
         DisarmOld, DisarmItem, Before, Unlocked, Return, Goto, item, places, disp, timer, locks,
         caller
<1>5. Known'
  BY TimerAssumption, SMTT(30) DEF IInv, Actors, Armed, AtItem, Cleared, HasLock, Held, Known,
         NewItem, OnePlace, Setting, TypeOK, Disarm, DisarmOld, DisarmItem, Before, Unlocked,
         Return, Goto, item, places, disp, timer, locks, caller
<1>6. Cleared'
  BY TimerAssumption, SMTT(30) DEF IInv, Actors, Armed, AtItem, Cleared, HasLock, Held, Known,
         NewItem, OnePlace, Setting, TypeOK, Disarm, DisarmOld, DisarmItem, Before, Unlocked,
         Return, Goto, item, places, disp, timer, locks, caller
<1>7. NewItem'
  BY TimerAssumption, SMTT(30) DEF IInv, Actors, Armed, AtItem, HasLock, Held, Known, NewItem,
         OnePlace, Setting, TypeOK, Disarm, DisarmOld, DisarmItem, Before, Unlocked, Return,
         Goto, item, places, disp, timer, locks, caller
<1>8. Over'
  BY TimerAssumption, SMTT(30) DEF IInv, Actors, Armed, AtItem, HasLock, Held, Known, NewItem,
         OnePlace, Over, Setting, TypeOK, Disarm, DisarmOld, DisarmItem, Before, Unlocked,
         Return, Goto, item, places, disp, timer, locks, caller
<1>9. CallbackIsOwn'
  BY TimerAssumption, SMTT(30) DEF IInv, Actors, Armed, AtItem, CallbackIsOwn, Held, Known,
         Setting, TypeOK, Disarm, DisarmOld, DisarmItem, Before, Unlocked, Return, Goto, item,
         places, disp, timer, locks, caller
<1>q. QED BY <1>1, <1>2, <1>3, <1>4, <1>5, <1>6, <1>7, <1>8, <1>9 DEF IInv

LEMMA AllocSteps ==
  ASSUME IInv, "self" \notin Ops, NEW a \in Threads, Alloc(a)
  PROVE  IInv'
<1>1. TypeOK'
  BY TimerAssumption, SMTT(30) DEF IInv, Actors, Armed, AtItem, HasLock, Held, NewItem, Setting,
         TypeOK, Alloc, Goto, item, places, disp, timer, locks, caller
<1>2. OnePlace'
  BY TimerAssumption, SMTT(30) DEF IInv, Actors, Armed, AtItem, Held, NewItem, OnePlace, Setting,
         TypeOK, Alloc, Goto, item, places, disp, timer, locks, caller
<1>3. AtItem'
  BY TimerAssumption, SMTT(30) DEF IInv, Actors, Armed, AtItem, HasLock, Held, NewItem, OnePlace,
         Setting, TypeOK, Alloc, Goto, item, places, disp, timer, locks, caller
<1>4. HasLock'
  BY TimerAssumption, SMTT(30) DEF IInv, Actors, Armed, HasLock, Held, Setting, TypeOK, Alloc,
         Goto, item, places, disp, timer, locks, caller
<1>5. Known'
  BY TimerAssumption, SMTT(30) DEF IInv, Actors, Armed, AtItem, Cleared, HasLock, Held, Known,
         NewItem, OnePlace, Setting, TypeOK, Alloc, Goto, item, places, disp, timer, locks,
         caller
<1>6. Cleared'
  BY TimerAssumption, SMTT(30) DEF IInv, Actors, Armed, AtItem, Cleared, HasLock, Held, Known,
         NewItem, OnePlace, Setting, TypeOK, Alloc, Goto, item, places, disp, timer, locks,
         caller
<1>7. NewItem'
  BY TimerAssumption, SMTT(30) DEF IInv, Actors, Armed, AtItem, HasLock, Held, Known, NewItem,
         OnePlace, Setting, TypeOK, Alloc, Goto, item, places, disp, timer, locks, caller
<1>8. Over'
  BY TimerAssumption, SMTT(30) DEF IInv, Actors, Armed, AtItem, HasLock, Held, Known, NewItem,
         OnePlace, Over, Setting, TypeOK, Alloc, Goto, item, places, disp, timer, locks, caller
<1>9. CallbackIsOwn'
  BY TimerAssumption, SMTT(30) DEF IInv, Actors, Armed, AtItem, CallbackIsOwn, Held, Known,
         Setting, TypeOK, Alloc, Goto, item, places, disp, timer, locks, caller
<1>q. QED BY <1>1, <1>2, <1>3, <1>4, <1>5, <1>6, <1>7, <1>8, <1>9 DEF IInv

LEMMA SetSteps ==
  ASSUME IInv, "self" \notin Ops, NEW a \in Threads, SetCallback(a)
  PROVE  IInv'
<1>1. TypeOK'
  BY TimerAssumption, SMTT(30) DEF IInv, Actors, Armed, AtItem, HasLock, Held, NewItem, Setting,
         TypeOK, SetCallback, Free, Goto, item, places, disp, timer, locks, caller
<1>2. OnePlace'
  BY TimerAssumption, SMTT(30) DEF IInv, Actors, Armed, AtItem, Held, NewItem, OnePlace, Setting,
         TypeOK, SetCallback, Free, Goto, item, places, disp, timer, locks, caller
<1>3. AtItem'
  BY TimerAssumption, SMTT(30) DEF IInv, Actors, Armed, AtItem, HasLock, Held, NewItem, OnePlace,
         Setting, TypeOK, SetCallback, Free, Goto, item, places, disp, timer, locks, caller
<1>4. HasLock'
  BY TimerAssumption, SMTT(30) DEF IInv, Actors, Armed, HasLock, Held, Setting, TypeOK,
         SetCallback, Free, Goto, item, places, disp, timer, locks, caller
<1>5. Known'
  BY TimerAssumption, SMTT(30) DEF IInv, Actors, Armed, AtItem, Cleared, HasLock, Held, Known,
         NewItem, OnePlace, Setting, TypeOK, SetCallback, Free, Goto, item, places, disp, timer,
         locks, caller
<1>6. Cleared'
  BY TimerAssumption, SMTT(30) DEF IInv, Actors, Armed, AtItem, Cleared, HasLock, Held, Known,
         NewItem, OnePlace, Setting, TypeOK, SetCallback, Free, Goto, item, places, disp, timer,
         locks, caller
<1>7. NewItem'
  BY TimerAssumption, SMTT(30) DEF IInv, Actors, Armed, AtItem, HasLock, Held, Known, NewItem,
         OnePlace, Setting, TypeOK, SetCallback, Free, Goto, item, places, disp, timer, locks,
         caller
<1>8. Over'
  BY TimerAssumption, SMTT(30) DEF IInv, Actors, Armed, AtItem, HasLock, Held, Known, NewItem,
         OnePlace, Over, Setting, TypeOK, SetCallback, Free, Goto, item, places, disp, timer,
         locks, caller
<1>9. CallbackIsOwn'
  BY TimerAssumption, SMTT(30) DEF IInv, Actors, Armed, AtItem, CallbackIsOwn, Held, Known,
         Setting, TypeOK, SetCallback, Free, Goto, item, places, disp, timer, locks, caller
<1>q. QED BY <1>1, <1>2, <1>3, <1>4, <1>5, <1>6, <1>7, <1>8, <1>9 DEF IInv

LEMMA PublishSteps ==
  ASSUME IInv, "self" \notin Ops, NEW a \in Threads, Publish(a)
  PROVE  IInv'
<1>1. TypeOK'
  BY TimerAssumption, SMTT(30) DEF IInv, Actors, Armed, AtItem, HasLock, Held, NewItem, Setting,
         TypeOK, Publish, Unlocked, Return, Goto, item, places, disp, timer, locks, caller
<1>2. OnePlace'
  BY TimerAssumption, SMTT(30) DEF IInv, Actors, Armed, AtItem, Held, NewItem, OnePlace, Setting,
         TypeOK, Publish, Unlocked, Return, Goto, item, places, disp, timer, locks, caller
<1>3. AtItem'
  BY TimerAssumption, SMTT(30) DEF IInv, Actors, Armed, AtItem, HasLock, Held, NewItem, OnePlace,
         Setting, TypeOK, Publish, Unlocked, Return, Goto, item, places, disp, timer, locks,
         caller
<1>4. HasLock'
  BY TimerAssumption, SMTT(30) DEF IInv, Actors, Armed, HasLock, Held, Setting, TypeOK, Publish,
         Unlocked, Return, Goto, item, places, disp, timer, locks, caller
<1>5. Known'
  BY TimerAssumption, SMTT(30) DEF IInv, Actors, Armed, AtItem, Cleared, HasLock, Held, Known,
         NewItem, OnePlace, Setting, TypeOK, Publish, Unlocked, Return, Goto, item, places, disp,
         timer, locks, caller
<1>6. Cleared'
  BY TimerAssumption, SMTT(30) DEF IInv, Actors, Armed, AtItem, Cleared, HasLock, Held, Known,
         NewItem, OnePlace, Setting, TypeOK, Publish, Unlocked, Return, Goto, item, places, disp,
         timer, locks, caller
<1>7. NewItem'
  BY TimerAssumption, SMTT(30) DEF IInv, Actors, Armed, AtItem, HasLock, Held, Known, NewItem,
         OnePlace, Setting, TypeOK, Publish, Unlocked, Return, Goto, item, places, disp, timer,
         locks, caller
<1>8. Over'
  BY TimerAssumption, SMTT(30) DEF IInv, Actors, Armed, AtItem, HasLock, Held, Known, NewItem,
         OnePlace, Over, Setting, TypeOK, Publish, Unlocked, Return, Goto, item, places, disp,
         timer, locks, caller
<1>9. CallbackIsOwn'
  BY TimerAssumption, SMTT(30) DEF IInv, Actors, Armed, AtItem, CallbackIsOwn, Held, Known,
         Setting, TypeOK, Publish, Unlocked, Return, Goto, item, places, disp, timer, locks,
         caller
<1>q. QED BY <1>1, <1>2, <1>3, <1>4, <1>5, <1>6, <1>7, <1>8, <1>9 DEF IInv

LEMMA ConsumeSteps ==
  ASSUME IInv, "self" \notin Ops, Consume
  PROVE  IInv'
<1>1. TypeOK'
  BY TimerAssumption, SMTT(30) DEF IInv, Actors, Armed, AtItem, HasLock, Held, NewItem, Setting,
         TypeOK, Consume, item, places, disp, timer, locks, caller
<1>2. OnePlace'
  BY TimerAssumption, SMTT(30) DEF IInv, Actors, Armed, AtItem, Held, NewItem, OnePlace, Setting,
         TypeOK, Consume, item, places, disp, timer, locks, caller
<1>3. AtItem'
  BY TimerAssumption, SMTT(30) DEF IInv, Actors, Armed, AtItem, HasLock, Held, NewItem, OnePlace,
         Setting, TypeOK, Consume, item, places, disp, timer, locks, caller
<1>4. HasLock'
  BY TimerAssumption, SMTT(30) DEF IInv, Actors, Armed, HasLock, Held, Setting, TypeOK, Consume,
         item, places, disp, timer, locks, caller
<1>5. Known'
  BY TimerAssumption, SMTT(30) DEF IInv, Actors, Armed, AtItem, Cleared, HasLock, Held, Known,
         NewItem, OnePlace, Setting, TypeOK, Consume, item, places, disp, timer, locks, caller
<1>6. Cleared'
  BY TimerAssumption, SMTT(30) DEF IInv, Actors, Armed, AtItem, Cleared, HasLock, Held, Known,
         NewItem, OnePlace, Setting, TypeOK, Consume, item, places, disp, timer, locks, caller
<1>7. NewItem'
  BY TimerAssumption, SMTT(30) DEF IInv, Actors, Armed, AtItem, HasLock, Held, Known, NewItem,
         OnePlace, Setting, TypeOK, Consume, item, places, disp, timer, locks, caller
<1>8. Over'
  BY TimerAssumption, SMTT(30) DEF IInv, Actors, Armed, AtItem, HasLock, Held, Known, NewItem,
         OnePlace, Over, Setting, TypeOK, Consume, item, places, disp, timer, locks, caller
<1>9. CallbackIsOwn'
  BY TimerAssumption, SMTT(30) DEF IInv, Actors, Armed, AtItem, CallbackIsOwn, Held, Known,
         Setting, TypeOK, Consume, item, places, disp, timer, locks, caller
<1>q. QED BY <1>1, <1>2, <1>3, <1>4, <1>5, <1>6, <1>7, <1>8, <1>9 DEF IInv

LEMMA ScanSteps ==
  ASSUME IInv, "self" \notin Ops, Scan
  PROVE  IInv'
<1>1. TypeOK'
  BY TimerAssumption, SMTT(30) DEF IInv, Actors, Armed, AtItem, HasLock, Held, NewItem, Setting,
         TypeOK, Scan, Start, Started, Drop, First, item, places, disp, timer, locks, caller
<1>2. OnePlace'
  BY TimerAssumption, SMTT(30) DEF IInv, Actors, Armed, AtItem, Held, NewItem, OnePlace, Setting,
         TypeOK, Scan, Start, Started, Drop, First, item, places, disp, timer, locks, caller
<1>3. AtItem'
  BY TimerAssumption, SMTT(30) DEF IInv, Actors, Armed, AtItem, HasLock, Held, NewItem, OnePlace,
         Setting, TypeOK, Scan, Start, Started, Drop, First, item, places, disp, timer, locks,
         caller
<1>4. HasLock'
  BY TimerAssumption, SMTT(30) DEF IInv, Actors, Armed, HasLock, Held, Setting, TypeOK, Scan,
         Start, Started, Drop, First, item, places, disp, timer, locks, caller
<1>5. Known'
  BY TimerAssumption, SMTT(30) DEF IInv, Actors, Armed, AtItem, Cleared, HasLock, Held, Known,
         NewItem, OnePlace, Setting, TypeOK, Scan, Start, Started, Drop, First, item, places,
         disp, timer, locks, caller
<1>6. Cleared'
  BY TimerAssumption, SMTT(30) DEF IInv, Actors, Armed, AtItem, Cleared, HasLock, Held, Known,
         NewItem, OnePlace, Setting, TypeOK, Scan, Start, Started, Drop, First, item, places,
         disp, timer, locks, caller
<1>7. NewItem'
  BY TimerAssumption, SMTT(30) DEF IInv, Actors, Armed, AtItem, HasLock, Held, Known, NewItem,
         OnePlace, Setting, TypeOK, Scan, Start, Started, Drop, First, item, places, disp, timer,
         locks, caller
<1>8. Over'
  BY TimerAssumption, SMTT(30) DEF IInv, Actors, Armed, AtItem, HasLock, Held, Known, NewItem,
         OnePlace, Over, Setting, TypeOK, Scan, Start, Started, Drop, First, item, places, disp,
         timer, locks, caller
<1>9. CallbackIsOwn'
  BY TimerAssumption, SMTT(30) DEF IInv, Actors, Armed, AtItem, CallbackIsOwn, Held, Known,
         Setting, TypeOK, Scan, Start, Started, Drop, First, item, places, disp, timer, locks,
         caller
<1>q. QED BY <1>1, <1>2, <1>3, <1>4, <1>5, <1>6, <1>7, <1>8, <1>9 DEF IInv

LEMMA ScanDoneSteps ==
  ASSUME IInv, "self" \notin Ops, ScanDone
  PROVE  IInv'
<1>1. TypeOK'
  BY TimerAssumption, SMTT(30) DEF IInv, Actors, Armed, AtItem, HasLock, Held, NewItem, Setting,
         TypeOK, ScanDone, item, places, disp, timer, locks, caller
<1>2. OnePlace'
  BY TimerAssumption, SMTT(30) DEF IInv, Actors, Armed, AtItem, Held, NewItem, OnePlace, Setting,
         TypeOK, ScanDone, item, places, disp, timer, locks, caller
<1>3. AtItem'
  BY TimerAssumption, SMTT(30) DEF IInv, Actors, Armed, AtItem, HasLock, Held, NewItem, OnePlace,
         Setting, TypeOK, ScanDone, item, places, disp, timer, locks, caller
<1>4. HasLock'
  BY TimerAssumption, SMTT(30) DEF IInv, Actors, Armed, HasLock, Held, Setting, TypeOK, ScanDone,
         item, places, disp, timer, locks, caller
<1>5. Known'
  BY TimerAssumption, SMTT(30) DEF IInv, Actors, Armed, AtItem, Cleared, HasLock, Held, Known,
         NewItem, OnePlace, Setting, TypeOK, ScanDone, item, places, disp, timer, locks, caller
<1>6. Cleared'
  BY TimerAssumption, SMTT(30) DEF IInv, Actors, Armed, AtItem, Cleared, HasLock, Held, Known,
         NewItem, OnePlace, Setting, TypeOK, ScanDone, item, places, disp, timer, locks, caller
<1>7. NewItem'
  BY TimerAssumption, SMTT(30) DEF IInv, Actors, Armed, AtItem, HasLock, Held, Known, NewItem,
         OnePlace, Setting, TypeOK, ScanDone, item, places, disp, timer, locks, caller
<1>8. Over'
  BY TimerAssumption, SMTT(30) DEF IInv, Actors, Armed, AtItem, HasLock, Held, Known, NewItem,
         OnePlace, Over, Setting, TypeOK, ScanDone, item, places, disp, timer, locks, caller
<1>9. CallbackIsOwn'
  BY TimerAssumption, SMTT(30) DEF IInv, Actors, Armed, AtItem, CallbackIsOwn, Held, Known,
         Setting, TypeOK, ScanDone, item, places, disp, timer, locks, caller
<1>q. QED BY <1>1, <1>2, <1>3, <1>4, <1>5, <1>6, <1>7, <1>8, <1>9 DEF IInv

LEMMA SignalSteps ==
  ASSUME IInv, "self" \notin Ops, Signal
  PROVE  IInv'
<1>1. TypeOK'
  <2>1. cur \in Items /\ owner[cur] \in Timers
    BY TimerAssumption, SMTT(30) DEF IInv, TypeOK, AtItem, Known, Armed, Held, Signal
  <2> QED BY <2>1, SMTT(60) DEF IInv, TypeOK, Signal, item, places, disp, timer, locks, caller
<1>2. OnePlace'
  BY TimerAssumption, SMTT(30) DEF IInv, Actors, Armed, AtItem, Held, NewItem, OnePlace, Setting,
         TypeOK, Signal, item, places, disp, timer, locks, caller
<1>3. AtItem'
  BY TimerAssumption, SMTT(30) DEF IInv, Actors, Armed, AtItem, HasLock, Held, NewItem, OnePlace,
         Setting, TypeOK, Signal, item, places, disp, timer, locks, caller
<1>4. HasLock'
  BY TimerAssumption, SMTT(30) DEF IInv, Actors, Armed, HasLock, Held, Setting, TypeOK, Signal,
         item, places, disp, timer, locks, caller
<1>5. Known'
  BY TimerAssumption, SMTT(30) DEF IInv, Actors, Armed, AtItem, Cleared, HasLock, Held, Known,
         NewItem, OnePlace, Setting, TypeOK, Signal, item, places, disp, timer, locks, caller
<1>6. Cleared'
  BY TimerAssumption, SMTT(30) DEF IInv, Actors, Armed, AtItem, Cleared, HasLock, Held, Known,
         NewItem, OnePlace, Setting, TypeOK, Signal, item, places, disp, timer, locks, caller
<1>7. NewItem'
  BY TimerAssumption, SMTT(30) DEF IInv, Actors, Armed, AtItem, HasLock, Held, Known, NewItem,
         OnePlace, Setting, TypeOK, Signal, item, places, disp, timer, locks, caller
<1>8. Over'
  BY TimerAssumption, SMTT(30) DEF IInv, Actors, Armed, AtItem, HasLock, Held, Known, NewItem,
         OnePlace, Over, Setting, TypeOK, Signal, item, places, disp, timer, locks, caller
<1>9. CallbackIsOwn'
  BY TimerAssumption, SMTT(30) DEF IInv, Actors, Armed, AtItem, CallbackIsOwn, Held, Known,
         Setting, TypeOK, Signal, item, places, disp, timer, locks, caller
<1>q. QED BY <1>1, <1>2, <1>3, <1>4, <1>5, <1>6, <1>7, <1>8, <1>9 DEF IInv

LEMMA CopySteps ==
  ASSUME IInv, "self" \notin Ops, CopyCallback
  PROVE  IInv'
<1>1. TypeOK'
  <2>1. cur \in Items /\ owner[cur] \in Timers
    BY TimerAssumption, SMTT(30) DEF IInv, TypeOK, AtItem, Known, Armed, Held, CopyCallback
  <2> QED BY <2>1, SMTT(60) DEF IInv, TypeOK, CopyCallback, item, places, disp, timer, locks,
         caller
<1>2. OnePlace'
  BY TimerAssumption, SMTT(30) DEF IInv, Actors, Armed, AtItem, Held, NewItem, OnePlace, Setting,
         TypeOK, CopyCallback, item, places, disp, timer, locks, caller
<1>3. AtItem'
  BY TimerAssumption, SMTT(30) DEF IInv, Actors, Armed, AtItem, HasLock, Held, NewItem, OnePlace,
         Setting, TypeOK, CopyCallback, item, places, disp, timer, locks, caller
<1>4. HasLock'
  BY TimerAssumption, SMTT(30) DEF IInv, Actors, Armed, HasLock, Held, Setting, TypeOK,
         CopyCallback, item, places, disp, timer, locks, caller
<1>5. Known'
  BY TimerAssumption, SMTT(30) DEF IInv, Actors, Armed, AtItem, Cleared, HasLock, Held, Known,
         NewItem, OnePlace, Setting, TypeOK, CopyCallback, item, places, disp, timer, locks,
         caller
<1>6. Cleared'
  BY TimerAssumption, SMTT(30) DEF IInv, Actors, Armed, AtItem, Cleared, HasLock, Held, Known,
         NewItem, OnePlace, Setting, TypeOK, CopyCallback, item, places, disp, timer, locks,
         caller
<1>7. NewItem'
  BY TimerAssumption, SMTT(30) DEF IInv, Actors, Armed, AtItem, HasLock, Held, Known, NewItem,
         OnePlace, Setting, TypeOK, CopyCallback, item, places, disp, timer, locks, caller
<1>8. Over'
  BY TimerAssumption, SMTT(30) DEF IInv, Actors, Armed, AtItem, HasLock, Held, Known, NewItem,
         OnePlace, Over, Setting, TypeOK, CopyCallback, item, places, disp, timer, locks, caller
<1>9. CallbackIsOwn'
  BY TimerAssumption, SMTT(30) DEF IInv, Actors, Armed, AtItem, CallbackIsOwn, Held, Known,
         Setting, TypeOK, CopyCallback, item, places, disp, timer, locks, caller
<1>q. QED BY <1>1, <1>2, <1>3, <1>4, <1>5, <1>6, <1>7, <1>8, <1>9 DEF IInv

LEMMA ReturnSteps ==
  ASSUME IInv, "self" \notin Ops, CallbackReturns
  PROVE  IInv'
<1>1. TypeOK'
  BY TimerAssumption, SMTT(30) DEF IInv, Actors, Armed, AtItem, HasLock, Held, NewItem, Setting,
         TypeOK, CallbackReturns, item, places, disp, timer, locks, caller
<1>2. OnePlace'
  BY TimerAssumption, SMTT(30) DEF IInv, Actors, Armed, AtItem, Held, NewItem, OnePlace, Setting,
         TypeOK, CallbackReturns, item, places, disp, timer, locks, caller
<1>3. AtItem'
  BY TimerAssumption, SMTT(30) DEF IInv, Actors, Armed, AtItem, HasLock, Held, NewItem, OnePlace,
         Setting, TypeOK, CallbackReturns, item, places, disp, timer, locks, caller
<1>4. HasLock'
  BY TimerAssumption, SMTT(30) DEF IInv, Actors, Armed, HasLock, Held, Setting, TypeOK,
         CallbackReturns, item, places, disp, timer, locks, caller
<1>5. Known'
  BY TimerAssumption, SMTT(30) DEF IInv, Actors, Armed, AtItem, Cleared, HasLock, Held, Known,
         NewItem, OnePlace, Setting, TypeOK, CallbackReturns, item, places, disp, timer, locks,
         caller
<1>6. Cleared'
  BY TimerAssumption, SMTT(30) DEF IInv, Actors, Armed, AtItem, Cleared, HasLock, Held, Known,
         NewItem, OnePlace, Setting, TypeOK, CallbackReturns, item, places, disp, timer, locks,
         caller
<1>7. NewItem'
  BY TimerAssumption, SMTT(30) DEF IInv, Actors, Armed, AtItem, HasLock, Held, Known, NewItem,
         OnePlace, Setting, TypeOK, CallbackReturns, item, places, disp, timer, locks, caller
<1>8. Over'
  BY TimerAssumption, SMTT(30) DEF IInv, Actors, Armed, AtItem, HasLock, Held, Known, NewItem,
         OnePlace, Over, Setting, TypeOK, CallbackReturns, item, places, disp, timer, locks,
         caller
<1>9. CallbackIsOwn'
  BY TimerAssumption, SMTT(30) DEF IInv, Actors, Armed, AtItem, CallbackIsOwn, Held, Known,
         Setting, TypeOK, CallbackReturns, item, places, disp, timer, locks, caller
<1>q. QED BY <1>1, <1>2, <1>3, <1>4, <1>5, <1>6, <1>7, <1>8, <1>9 DEF IInv

LEMMA FinishSteps ==
  ASSUME IInv, "self" \notin Ops, Finish
  PROVE  IInv'
<1>1. TypeOK'
  <2>1. cur \in Items /\ state[cur] = "callback"
    BY TimerAssumption, SMTT(30) DEF IInv, TypeOK, AtItem, Finish
  <2>2. CASE Requeue
    <3>1. due' \in [Items -> Int]
      <4>1. interval[cur] \in Int /\ due \in [Items -> Int]
        <5>1. \A v \in Intervals : v \in Int
          BY TimerAssumption, SMT
        <5>2. interval[cur] \in Intervals \cup {0}
          BY <2>1 DEF IInv, TypeOK
        <5> QED BY <5>1, <5>2 DEF IInv, TypeOK
      <4>2. due' = [due EXCEPT ![cur] = @ + interval[cur]]
        BY <2>2 DEF Finish
      <4> QED BY <2>1, <4>1, <4>2
    <3>2. state' \in [Items -> {"idle", "callback", "self", "disarmed"}] /\ later' \subseteq Items
      BY <2>1, <2>2, SMTT(30) DEF IInv, TypeOK, Finish, Rearm
    <3>3. \A i \in Items : state'[i] \in {"idle", "disarmed"}
      BY <2>1, <2>2, SMTT(30) DEF IInv, TypeOK, Finish, Rearm
    <3> QED BY <2>1, <2>2, <3>1, <3>2, <3>3, SMTT(30)
         DEF IInv, TypeOK, Finish, item, places, disp, timer, locks, caller
  <2>3. CASE ~Requeue
    <3>1. /\ waitItem' \in [Timers -> Items \cup {None}]
          /\ callback' \in [Timers -> Items \cup {None}]
          /\ owner' \in [Items -> Timers \cup {None}] /\ due' \in [Items -> Int]
          /\ interval' \in [Items -> Intervals \cup {0}]
      BY <2>1, <2>3, SMTT(30) DEF IInv, TypeOK, Finish, Drop
    <3>2. /\ state' \in [Items -> {"idle", "callback", "self", "disarmed"}]
          /\ \A i \in Items : state'[i] \in {"idle", "disarmed"}
      BY <2>1, <2>3, SMTT(30) DEF IInv, TypeOK, Finish, Drop
    <3> QED BY <2>1, <2>3, <3>1, <3>2, SMTT(30)
         DEF IInv, TypeOK, Finish, places, timer, locks, caller
  <2> QED BY <2>2, <2>3
<1>2. OnePlace'
  BY TimerAssumption, SMTT(30) DEF IInv, Actors, Armed, AtItem, Held, NewItem, OnePlace, Setting,
         TypeOK, Finish, Requeue, Rearm, Drop, item, places, disp, timer, locks, caller
<1>3. AtItem'
  BY TimerAssumption, SMTT(30) DEF IInv, Actors, Armed, AtItem, HasLock, Held, NewItem, OnePlace,
         Setting, TypeOK, Finish, Requeue, Rearm, Drop, item, places, disp, timer, locks, caller
<1>4. HasLock'
  BY TimerAssumption, SMTT(30) DEF IInv, Actors, Armed, HasLock, Held, Setting, TypeOK, Finish,
         Requeue, Rearm, Drop, item, places, disp, timer, locks, caller
<1>5. Known'
  BY TimerAssumption, SMTT(30) DEF IInv, Actors, Armed, AtItem, Cleared, HasLock, Held, Known,
         NewItem, OnePlace, Setting, TypeOK, Finish, Requeue, Rearm, Drop, item, places, disp,
         timer, locks, caller
<1>6. Cleared'
  BY TimerAssumption, SMTT(30) DEF IInv, Actors, Armed, AtItem, Cleared, HasLock, Held, Known,
         NewItem, OnePlace, Setting, TypeOK, Finish, Requeue, Rearm, Drop, item, places, disp,
         timer, locks, caller
<1>7. NewItem'
  BY TimerAssumption, SMTT(30) DEF IInv, Actors, Armed, AtItem, HasLock, Held, Known, NewItem,
         OnePlace, Setting, TypeOK, Finish, Requeue, Rearm, Drop, item, places, disp, timer,
         locks, caller
<1>8. Over'
  BY TimerAssumption, SMTT(30) DEF IInv, Actors, Armed, AtItem, HasLock, Held, Known, NewItem,
         OnePlace, Over, Setting, TypeOK, Finish, Requeue, Rearm, Drop, item, places, disp,
         timer, locks, caller
<1>9. CallbackIsOwn'
  BY TimerAssumption, SMTT(30) DEF IInv, Actors, Armed, AtItem, CallbackIsOwn, Held, Known,
         Setting, TypeOK, Finish, Requeue, Rearm, Drop, item, places, disp, timer, locks, caller
<1>q. QED BY <1>1, <1>2, <1>3, <1>4, <1>5, <1>6, <1>7, <1>8, <1>9 DEF IInv

LEMMA TickSteps ==
  ASSUME IInv, "self" \notin Ops, Tick
  PROVE  IInv'
<1>1. TypeOK'
  BY TimerAssumption, SMTT(30) DEF IInv, Actors, Armed, AtItem, HasLock, Held, NewItem, Setting,
         TypeOK, Tick, item, places, disp, timer, locks, caller
<1>2. OnePlace'
  BY TimerAssumption, SMTT(30) DEF IInv, Actors, Armed, AtItem, Held, NewItem, OnePlace, Setting,
         TypeOK, Tick, item, places, disp, timer, locks, caller
<1>3. AtItem'
  BY TimerAssumption, SMTT(30) DEF IInv, Actors, Armed, AtItem, HasLock, Held, NewItem, OnePlace,
         Setting, TypeOK, Tick, item, places, disp, timer, locks, caller
<1>4. HasLock'
  BY TimerAssumption, SMTT(30) DEF IInv, Actors, Armed, HasLock, Held, Setting, TypeOK, Tick,
         item, places, disp, timer, locks, caller
<1>5. Known'
  BY TimerAssumption, SMTT(30) DEF IInv, Actors, Armed, AtItem, Cleared, HasLock, Held, Known,
         NewItem, OnePlace, Setting, TypeOK, Tick, item, places, disp, timer, locks, caller
<1>6. Cleared'
  BY TimerAssumption, SMTT(30) DEF IInv, Actors, Armed, AtItem, Cleared, HasLock, Held, Known,
         NewItem, OnePlace, Setting, TypeOK, Tick, item, places, disp, timer, locks, caller
<1>7. NewItem'
  BY TimerAssumption, SMTT(30) DEF IInv, Actors, Armed, AtItem, HasLock, Held, Known, NewItem,
         OnePlace, Setting, TypeOK, Tick, item, places, disp, timer, locks, caller
<1>8. Over'
  BY TimerAssumption, SMTT(30) DEF IInv, Actors, Armed, AtItem, HasLock, Held, Known, NewItem,
         OnePlace, Over, Setting, TypeOK, Tick, item, places, disp, timer, locks, caller
<1>9. CallbackIsOwn'
  BY TimerAssumption, SMTT(30) DEF IInv, Actors, Armed, AtItem, CallbackIsOwn, Held, Known,
         Setting, TypeOK, Tick, item, places, disp, timer, locks, caller
<1>q. QED BY <1>1, <1>2, <1>3, <1>4, <1>5, <1>6, <1>7, <1>8, <1>9 DEF IInv

\* Every step that is not a callback's use of its own timer keeps the invariant.
LEMMA StepKeeps ==
  ASSUME IInv, "self" \notin Ops, [Next]_vars
  PROVE  IInv'
<1>1. ASSUME NEW a \in Actors, Runs(a) PROVE a \in Threads
  BY <1>1 DEF IInv, AtItem, Runs, Actors, TakeGlobal, TakeTimerLock, Disarm, Alloc, SetCallback,
         Publish
<1>2. CASE \E a \in Actors : Runs(a)
  BY <1>1, <1>2, GlobalSteps, LockSteps, DisarmSteps, AllocSteps, SetSteps, PublishSteps DEF Runs
<1>3. CASE Dispatches
  BY <1>3, ConsumeSteps, ScanSteps, ScanDoneSteps, SignalSteps, CopySteps, ReturnSteps,
       FinishSteps
     DEF Dispatches
<1>4. CASE UNCHANGED vars
  BY <1>4, SMTT(30) DEF IInv, TypeOK, OnePlace, AtItem, HasLock, Known, Cleared, NewItem, Over,
     CallbackIsOwn, Armed, Held, vars, item, places, disp, timer, locks, caller
<1>5. QED
  BY <1>2, <1>3, <1>4, UseSteps, CloseSteps, AllSteps, TickSteps DEF Next, SelfUse

LEMMA Begins == Init => IInv
  BY TimerAssumption, SMTT(30) DEF Init, IInv, TypeOK, OnePlace, AtItem, HasLock,
       Known, Cleared, NewItem, Over, CallbackIsOwn, Armed, Held, Actors, Setting

LEMMA Invariant == ASSUME "self" \notin Ops PROVE Spec => []IInv
BY Begins, StepKeeps, PTL DEF Spec

\* Every variable of the timer queue and its users keeps its type, and no item outside the
\* dispatch thread's hands is in a callback, however many timers, callers and items there are.
THEOREM TimerTypes == ASSUME "self" \notin Ops PROVE Spec => []TypeOK
BY Invariant, PTL DEF IInv

\* Once a timer was cancelled or closed nothing of it is armed and none of its callbacks
\* runs until it is set again: what Disarm promises to those who free what the callback uses.
THEOREM CancelEndsIt == ASSUME "self" \notin Ops PROVE Spec => []CancelIsOver
<1>1. IInv => CancelIsOver
  BY DEF IInv, AtItem, Over, CancelIsOver, Armed, TypeOK, Held
<1> QED BY <1>1, Invariant, PTL

\* A timer has one item that can still expire, whatever callers set it at once.
THEOREM ArmedOnce == ASSUME "self" \notin Ops PROVE Spec => []OneArmed
<1>1. IInv => OneArmed
  BY DEF IInv, Known, OneArmed, Armed, TypeOK, Held
<1> QED BY <1>1, Invariant, PTL

\* The callback that runs was set together with the item that expired.
THEOREM OwnCallback == ASSUME "self" \notin Ops PROVE Spec => []CallbackIsOwn
BY Invariant, PTL DEF IInv

(***************************************************************************)
(* The APC queues of threads.  Nobody sets or closes a timer while the     *)
(* thread the timer last expired for runs down its APCs: then, for any     *)
(* number of threads, APCs and timers of each kind, what ApcsSound of      *)
(* MCInterrupts says holds.                                                *)
(***************************************************************************)
Apcs == Heap \cup Owned \cup Special \cup Normal
NoReuse == \A s \in ApcSettings : "reuse" \notin s.ops
OfMode(a) == Apc!Mode(a)

\* The links F and B make one ring of the nodes, with h among them.
RingOf(F, B, h, nodes) ==
  /\ h \in nodes
  /\ \A n \in nodes : F[n] \in nodes /\ B[n] \in nodes /\ B[F[n]] = n /\ F[B[n]] = n
  /\ \A part \in SUBSET nodes :
       h \in part /\ (\A n \in part : F[n] \in part) => part = nodes
RingsHold ==
  \A t \in Threads, m \in {0, 1} :
    Apc!InUse(t, m) => RingOf(aFlink, aBlink, <<t, m>>, Apc!Ring(t, m))

\* A list that was run down has lost all its APCs, and its thread is sent no more.
Ended ==
  \A t \in Threads :
    /\ aPc[t] \in {"rundown", "walk", "drop", "exited", "terminated"} => ~aMayQueue[t]
    /\ \A m \in {0, 1} : ~Apc!InUse(t, m) => Apc!Yanked(t, m) = {}

\* What is queued is queued to a thread. A timer whose APC may be queued knows its thread.
QueuedTo ==
  /\ \A a \in Apcs : aEnqueued[a] => aThread[a] \in Threads /\ a \in aLive
  /\ \A a \in Apcs : KindOf(a) \notin {"heap", "owned"} => a \in aLive
  /\ aHas \subseteq aLive
  /\ \A a \in Apcs : KindOf(a) = "owned" =>
       /\ aEnqueued[a] \/ a \in aArmed => aTarget[a] \in Threads
       /\ aTarget[a] # None => aTarget[a] = aThread[a] /\ a \in aHas

\* An APC of the heap is in the queue of its thread, taken by it or in its run-down, until it
\* is freed.
HeldBy(a, t) ==
  aEnqueued[a] \/ (aApc[t] = a /\ aPc[t] \in {"taken", "terminated"}) \/ a \in aChain[t]
HeapHeld ==
  /\ \A a \in Apcs : KindOf(a) = "heap" /\ a \in aLive =>
       aThread[a] \in Threads /\ HeldBy(a, aThread[a])
  /\ \A t \in Threads : aPc[t] = "taken" =>
       /\ aApc[t] \in Apcs
       /\ KindOf(aApc[t]) = "heap" =>
            aThread[aApc[t]] = t /\ aApc[t] \in aLive /\ ~aEnqueued[aApc[t]]

\* The links F lead from node a through all the nodes, each once, and then to first.
ChainOf(F, a, first, nodes) ==
  /\ a \in nodes
  /\ \A n \in nodes : F[n] = first \/ F[n] \in nodes \ {a}
  /\ \A n, o \in nodes : F[n] = F[o] => n = o
  /\ \A part \in SUBSET nodes :
       a \in part /\ (\A n \in part : F[n] = first \/ F[n] \in part) => part = nodes
\* The APCs a run-down has not passed are its own, and it gets to all of them.
RundownOf(t) ==
  /\ aPc[t] # "walk" => aChain[t] = {}
  /\ aPc[t] = "walk" =>
       /\ aFirst[t] \in Apcs /\ ChainOf(aFlink, aApc[t], aFirst[t], aChain[t])
       /\ \A a \in aChain[t] : aThread[a] = t /\ a \in aLive /\ ~aEnqueued[a] /\ OfMode(a) = 1
Rundown == \A t \in Threads : RundownOf(t)

ApcInv ==
  /\ Apc!TypeOK /\ RingsHold /\ Apc!SpecialsFirst /\ Ended /\ QueuedTo /\ HeapHeld /\ Rundown
-----------------------------------------------------------------------------
\* Inserting a node after another, removing one and changing links elsewhere keep a ring.
LEMMA RingInsert ==
  ASSUME NEW N, NEW F \in [N -> N], NEW B \in [N -> N], NEW h, NEW nodes \in SUBSET N,
         RingOf(F, B, h, nodes), NEW p \in nodes, NEW a \in N \ nodes
  PROVE  RingOf([F EXCEPT ![a] = F[p], ![p] = a], [B EXCEPT ![a] = p, ![F[p]] = a],
                h, nodes \cup {a})
<1> DEFINE f == F[p]
           G == [F EXCEPT ![a] = F[p], ![p] = a]
           C == [B EXCEPT ![a] = p, ![F[p]] = a]
           all == nodes \cup {a}
<1>1. f \in nodes /\ B[f] = p /\ a # p /\ a # f
  BY DEF RingOf
<1>2. G[p] = a /\ G[a] = f /\ \A n \in nodes \ {p} : G[n] = F[n] /\ F[n] # f
  BY <1>1 DEF RingOf
<1>3. C[f] = a /\ C[a] = p /\ \A n \in nodes \ {f} : C[n] = B[n] /\ B[n] # p
  BY <1>1 DEF RingOf
<1> HIDE DEF G, C, f
<1>4. \A n \in all : G[n] \in all /\ C[n] \in all /\ C[G[n]] = n /\ G[C[n]] = n
  BY <1>1, <1>2, <1>3 DEF RingOf
<1>5. ASSUME NEW part \in SUBSET all, h \in part, \A n \in part : G[n] \in part
      PROVE  part = all
  <2>1. h \in part \ {a}
    BY <1>5 DEF RingOf
  <2>2. \A n \in part \ {a} : F[n] \in part \ {a}
    BY <1>1, <1>2, <1>5 DEF RingOf
  <2>3. part \ {a} = nodes
    BY <2>1, <2>2 DEF RingOf
  <2> QED
    BY <1>2, <1>5, <2>3
<1> QED
  BY <1>4, <1>5 DEF RingOf, G, C, f

\* Removing a node other than the head.
LEMMA RingRemove ==
  ASSUME NEW N, NEW F \in [N -> N], NEW B \in [N -> N], NEW h, NEW nodes \in SUBSET N,
         RingOf(F, B, h, nodes), NEW a \in nodes, a # h
  PROVE  RingOf([F EXCEPT ![B[a]] = F[a]], [B EXCEPT ![F[a]] = B[a]], h, nodes \ {a})
<1> DEFINE f == F[a]
           b == B[a]
           G == [F EXCEPT ![B[a]] = F[a]]
           C == [B EXCEPT ![F[a]] = B[a]]
           all == nodes \ {a}
<1>0. f # a /\ b # a
  <2>1. SUFFICES ASSUME f = a \/ b = a PROVE FALSE
    OBVIOUS
  <2>2. F[a] = a
    BY <2>1 DEF RingOf
  <2>3. \A n \in all : F[n] \in all
    BY <2>2 DEF RingOf
  <2>4. all \in SUBSET nodes /\ h \in all
    BY DEF RingOf
  <2> QED
    BY <2>3, <2>4 DEF RingOf
<1>1. f \in all /\ b \in all /\ F[b] = a /\ B[f] = a
  BY <1>0 DEF RingOf
<1>2. G[b] = f /\ \A n \in nodes \ {b} : G[n] = F[n] /\ F[n] # a
  BY <1>1 DEF RingOf
<1>3. C[f] = b /\ \A n \in nodes \ {f} : C[n] = B[n] /\ B[n] # a
  BY <1>1 DEF RingOf
<1> HIDE DEF G, C, f, b
<1>4. \A n \in all : G[n] \in all /\ C[n] \in all
  BY <1>1, <1>2, <1>3 DEF RingOf
<1>6. ASSUME NEW n \in all PROVE C[G[n]] = n /\ G[C[n]] = n
  <2>1. C[G[n]] = n
    <3>1. CASE n = b
      BY <3>1, <1>2, <1>3
    <3>2. CASE n # b
      <4>1. G[n] = F[n] /\ F[n] \in nodes /\ B[F[n]] = n
        BY <3>2, <1>2 DEF RingOf
      <4>2. F[n] # f
        BY <4>1, <1>1
      <4> QED
        BY <4>1, <4>2, <1>3
    <3> QED
      BY <3>1, <3>2
  <2>2. G[C[n]] = n
    <3>1. CASE n = f
      BY <3>1, <1>2, <1>3
    <3>2. CASE n # f
      <4>1. C[n] = B[n] /\ B[n] \in nodes /\ F[B[n]] = n
        BY <3>2, <1>3 DEF RingOf
      <4>2. B[n] # b
        BY <4>1, <1>1
      <4> QED
        BY <4>1, <4>2, <1>2
    <3> QED
      BY <3>1, <3>2
  <2> QED
    BY <2>1, <2>2
<1>5. ASSUME NEW part \in SUBSET all, h \in part, \A n \in part : G[n] \in part
      PROVE  part = all
  <2>1. CASE b \in part
    <3>1. \A n \in part \cup {a} : F[n] \in part \cup {a}
      BY <1>1, <1>2, <1>5, <2>1 DEF f
    <3>2. part \cup {a} = nodes
      <4>1. part \cup {a} \in SUBSET nodes /\ h \in part \cup {a}
        BY <1>5
      <4> HIDE DEF all
      <4> QED
        BY <3>1, <4>1 DEF RingOf
    <3> QED
      BY <3>2
  <2>2. CASE b \notin part
    <3>1. \A n \in part : F[n] \in part
      BY <1>2, <1>5, <2>2
    <3>2. part \in SUBSET nodes
      OBVIOUS
    <3>3. part = nodes
      BY <3>1, <3>2, <1>5 DEF RingOf
    <3> QED
      BY <3>3, <2>2, <1>1
  <2> QED
    BY <2>1, <2>2
<1>7. h \in all
  BY DEF RingOf
<1> QED
  BY <1>4, <1>5, <1>6, <1>7 DEF RingOf, G, C, f, b

\* Changing links of other nodes.
LEMMA RingElsewhere ==
  ASSUME NEW F, NEW B, NEW G, NEW C, NEW h, NEW nodes, RingOf(F, B, h, nodes),
         \A n \in nodes : G[n] = F[n] /\ C[n] = B[n]
  PROVE  RingOf(G, C, h, nodes)
  BY DEF RingOf

\* A ring without its head is a chain, from its first node to its first node.
LEMMA RingOpened ==
  ASSUME NEW N, NEW F \in [N -> N], NEW B \in [N -> N], NEW h, NEW nodes \in SUBSET N,
         RingOf(F, B, h, nodes), F[h] # h
  PROVE  ChainOf([F EXCEPT ![B[h]] = F[h]], F[h], F[h], nodes \ {h})
<1> DEFINE f == F[h]
           b == B[h]
           G == [F EXCEPT ![B[h]] = F[h]]
           all == nodes \ {h}
<1>1. f \in all /\ b \in all /\ F[b] = h /\ B[f] = h
  BY DEF RingOf
<1>2. G[b] = f /\ \A n \in nodes \ {b} : G[n] = F[n] /\ F[n] # h
  BY <1>1 DEF RingOf
<1>6. \A n \in all : F[n] # f /\ \A o \in all : F[n] = F[o] => n = o
  BY <1>1 DEF RingOf
<1> HIDE DEF G, b
<1>3. \A n \in all : G[n] = f \/ G[n] \in all \ {f}
  BY <1>1, <1>2 DEF RingOf
<1>4. \A n, o \in all : G[n] = G[o] => n = o
  BY <1>2, <1>6
<1>5. ASSUME NEW part \in SUBSET all, f \in part, \A n \in part : G[n] = f \/ G[n] \in part
      PROVE  part = all
  <2>1. \A n \in part \cup {h} : F[n] \in part \cup {h}
    BY <1>1, <1>2, <1>5
  <2>2. part \cup {h} \in SUBSET nodes
    BY DEF RingOf
  <2>3. part \cup {h} = nodes
    <3> HIDE DEF all
    <3> QED
      BY <2>1, <2>2 DEF RingOf
  <2> QED
    BY <2>3
<1> QED
  BY <1>1, <1>3, <1>4, <1>5 DEF ChainOf, G, b

\* The walk of a chain gets to the next node, or has passed them all.
LEMMA ChainWalk ==
  ASSUME NEW F, NEW a, NEW first, NEW nodes, ChainOf(F, a, first, nodes)
  PROVE  IF F[a] = first THEN nodes = {a} ELSE ChainOf(F, F[a], first, nodes \ {a})
<1>1. CASE F[a] = first
  BY <1>1 DEF ChainOf
<1>2. CASE F[a] # first
  <2>1. F[a] \in nodes \ {a}
    BY <1>2 DEF ChainOf
  <2>2. \A n \in nodes \ {a} : F[n] = first \/ F[n] \in (nodes \ {a}) \ {F[a]}
    BY <1>2 DEF ChainOf
  <2>3. \A n, o \in nodes \ {a} : F[n] = F[o] => n = o
    BY DEF ChainOf
  <2>4. ASSUME NEW part \in SUBSET (nodes \ {a}), F[a] \in part,
               \A n \in part : F[n] = first \/ F[n] \in part
        PROVE  part = nodes \ {a}
    <3>1. \A n \in part \cup {a} : F[n] = first \/ F[n] \in part \cup {a}
      BY <2>4
    <3>2. part \cup {a} = nodes
      <4>1. part \cup {a} \in SUBSET nodes /\ a \in part \cup {a}
        BY DEF ChainOf
      <4> QED
        BY <3>1, <4>1 DEF ChainOf
    <3> QED
      BY <3>2
  <2> QED
    BY <1>2, <2>1, <2>2, <2>3, <2>4 DEF ChainOf
<1> QED
  BY <1>1, <1>2

\* Links of nodes a walk has passed, or never gets to, may change.
LEMMA ChainElsewhere ==
  ASSUME NEW F, NEW G, NEW a, NEW first, NEW nodes, ChainOf(F, a, first, nodes),
         \A n \in nodes : G[n] = F[n]
  PROVE  ChainOf(G, a, first, nodes)
  BY DEF ChainOf

-----------------------------------------------------------------------------
\* A set of numbers has a least one.
LEMMA LeastOf ==
  ASSUME NEW T \in SUBSET Nat, T # {}
  PROVE  \E i \in T : \A j \in T : ~(j < i)
<1> DEFINE R == OpToRel(<, Nat)
<1>1. IsWellFoundedOn(R, Nat)
  BY NatLessThanWellFounded, Zenon
<1>2. R = {ss \in Nat \X Nat : ss[1] < ss[2]}
  BY Zenon DEF OpToRel
<1> HIDE DEF R
<1>3. PICK i \in T : \A j \in T : ~(<<j, i>> \in R)
  BY <1>1, WFMin, Zenon
<1> QED
  BY <1>2, <1>3

\* The instance counts as everybody does.
LEMMA SameSets ==
  ASSUME NEW S
  PROVE  Apc!Cardinality(S) = Cardinality(S) /\ Apc!IsFiniteSet(S) = IsFiniteSet(S)
  BY DEF Apc!Cardinality, Cardinality, Apc!IsFiniteSet, IsFiniteSet

\* Following links from a node is well defined for any number of steps.
IsPath(at, F, h, n) == at = [i \in 0..n |-> IF i = 0 THEN F[h] ELSE F[at[i - 1]]]
LEMMA PathExists ==
  ASSUME NEW F, NEW h, NEW n \in Nat
  PROVE  \E at : IsPath(at, F, h, n)
<1> USE DEF IsPath
<1> DEFINE Path(k) == \E at : at = [i \in 0..k |-> IF i = 0 THEN F[h] ELSE F[at[i - 1]]]
           T == {k \in Nat : ~Path(k)}
<1>1. SUFFICES ASSUME T # {} PROVE FALSE
  OBVIOUS
<1>2. PICK k \in T : \A j \in T : ~(j < k)
  <2> HIDE DEF T
  <2>1. T \in SUBSET Nat
    BY DEF T
  <2> QED
    BY <1>1, <2>1, LeastOf
<1>3. CASE k = 0
  <2> DEFINE at == [i \in 0..0 |-> F[h]]
  <2>1. at = [i \in 0..0 |-> IF i = 0 THEN F[h] ELSE F[at[i - 1]]]
    OBVIOUS
  <2> QED
    BY <1>2, <1>3, <2>1
<1>4. CASE k # 0
  <2>1. k - 1 \in Nat /\ k - 1 < k
    BY <1>4, <1>2
  <2>2. PICK at : at = [i \in 0..k - 1 |-> IF i = 0 THEN F[h] ELSE F[at[i - 1]]]
    BY <1>2, <2>1, Zenon
  <2> DEFINE on == [i \in 0..k |-> IF i = k THEN F[at[k - 1]] ELSE at[i]]
             next == [i \in 0..k |-> IF i = 0 THEN F[h] ELSE F[on[i - 1]]]
  <2>3. \A i \in 0..k : on[i] = IF i = 0 THEN F[h] ELSE F[on[i - 1]]
    <3>1. TAKE i \in 0..k
    <3>2. CASE i = k
      BY <2>1, <3>2, <1>4
    <3>3. CASE i # k /\ i # 0
      <4>1. i \in 0..k - 1 /\ i - 1 \in 0..k - 1 /\ i - 1 \in 0..k /\ i - 1 # k
        BY <3>3, <2>1
      <4>2. at[i] = F[at[i - 1]]
        BY <4>1, <2>2, <3>3
      <4> QED
        BY <4>1, <4>2, <3>3
    <3>4. CASE i # k /\ i = 0
      <4>1. at[i] = F[h]
        BY <3>4, <2>1, <2>2
      <4> QED
        BY <4>1, <3>4
    <3> QED
      BY <3>2, <3>3, <3>4
  <2>4. on = next
    BY <2>3
  <2> QED
    BY <2>4, <1>2, Zenon
<1> QED
  BY <1>3, <1>4

\* What the iteration over a list with a sound ring gets: every entry follows the one
\* before, the first the head, and the head follows the last.
Iterates(es, h, nodes) ==
  \E len \in Nat :
    /\ es = [i \in 1..len |-> es[i]]
    /\ \A i \in 1..len :
         /\ es[i] \in nodes \ {h}
         /\ es[i] = aFlink[IF i = 1 THEN h ELSE es[i - 1]]
    /\ aFlink[IF len = 0 THEN h ELSE es[len]] = h
LEMMA EntriesIterate ==
  ASSUME NEW h, NEW nodes, RingOf(aFlink, aBlink, h, nodes), nodes \ {h} \subseteq Apcs,
         IsFiniteSet(Apcs)
  PROVE  Iterates(Apc!Entries(h), h, nodes)
<1> DEFINE n == Apc!Cardinality(Apcs)
           at == CHOOSE at : at = [i \in 0..n |-> IF i = 0 THEN aFlink[h] ELSE aFlink[at[i - 1]]]
           len == CHOOSE i \in DOMAIN at : at[i] = h /\ \A j \in 0..i - 1 : at[j] # h
           es == [i \in 1..len |-> at[i - 1]]
<1>0. n \in Nat /\ n = Cardinality(Apcs)
  BY SameSets, FS_CardinalityType
<1>1. at = [i \in 0..n |-> IF i = 0 THEN aFlink[h] ELSE aFlink[at[i - 1]]]
  <2> HIDE DEF n
  <2>1. n \in Nat
    BY <1>0
  <2>2. PICK seq : IsPath(seq, aFlink, h, n)
    BY <2>1, PathExists
  <2> QED
    BY <2>2, Zenon DEF IsPath
<1>E. Apc!Entries(h) = es
  BY DEF Apc!Entries, Apcs
<1> HIDE DEF n, at
<1>2. /\ DOMAIN at = 0..n /\ at[0] = aFlink[h]
      /\ \A i \in 0..n : i # 0 => at[i] = aFlink[at[i - 1]] /\ i - 1 \in 0..n /\ i - 1 < i
  BY <1>0, <1>1
<1>3. ASSUME NEW i \in 0..n PROVE at[i] \in nodes
  <2> DEFINE T == {k \in 0..n : at[k] \notin nodes}
  <2>1. SUFFICES ASSUME T # {} PROVE FALSE
    OBVIOUS
  <2>2. PICK k \in T : \A j \in T : ~(j < k)
    <3>1. T \in SUBSET Nat
      BY <1>0
    <3> HIDE DEF T
    <3> QED
      BY <2>1, <3>1, LeastOf
  <2>3. CASE k = 0
    BY <2>2, <2>3, <1>2 DEF RingOf
  <2>4. CASE k # 0
    <3>1. at[k - 1] \in nodes
      BY <2>2, <2>4, <1>2
    <3> QED
      BY <3>1, <2>2, <2>4, <1>2 DEF RingOf
  <2> QED
    BY <2>3, <2>4
<1> DEFINE H == {i \in 0..n : at[i] = h}
<1>4. H # {}
  <2>1. SUFFICES ASSUME \A i \in 0..n : at[i] # h PROVE FALSE
    OBVIOUS
  <2> DEFINE T == {j \in 0..n : \E i \in 0..n : i < j /\ at[i] = at[j]}
  <2>2. T = {}
    <3>1. SUFFICES ASSUME T # {} PROVE FALSE
      OBVIOUS
    <3>2. PICK j \in T : \A l \in T : ~(l < j)
      <4>1. T \in SUBSET Nat
        BY <1>0
      <4> HIDE DEF T
      <4> QED
        BY <3>1, <4>1, LeastOf
    <3>3. PICK i \in 0..n : i < j /\ at[i] = at[j]
      BY <3>2
    <3>4. /\ j \in 0..n /\ j # 0 /\ at[j] = aFlink[at[j - 1]] /\ j - 1 \in 0..n /\ j - 1 < j
          /\ at[j - 1] \in nodes
      <4>1. j \in 0..n /\ j # 0
        BY <3>2, <3>3, <1>0
      <4>2. at[j] = aFlink[at[j - 1]] /\ j - 1 \in 0..n /\ j - 1 < j
        BY <4>1, <1>2
      <4> QED
        BY <4>1, <4>2, <1>3
    <3>5. CASE i = 0
      <4>1. aFlink[h] = aFlink[at[j - 1]]
        BY <3>3, <3>4, <3>5, <1>2
      <4>2. h = at[j - 1]
        BY <4>1, <3>4 DEF RingOf
      <4> QED
        BY <4>2, <3>4, <2>1
    <3>6. CASE i # 0
      <4>1. at[i] = aFlink[at[i - 1]] /\ i - 1 \in 0..n /\ at[i - 1] \in nodes
        BY <3>6, <1>2, <1>3
      <4>2. at[i - 1] = at[j - 1]
        <5>1. /\ aBlink[aFlink[at[i - 1]]] = at[i - 1]
              /\ aBlink[aFlink[at[j - 1]]] = at[j - 1]
          BY <3>4, <4>1 DEF RingOf
        <5> QED
          BY <3>3, <3>4, <4>1, <5>1
      <4>3. i - 1 < j - 1
        BY <3>3, <3>4, <1>0
      <4>4. j - 1 \in T
        BY <4>1, <4>2, <4>3, <3>4
      <4> QED
        BY <4>4, <3>2, <3>4
    <3> QED
      BY <3>5, <3>6
  <2>3. \A i, j \in 0..n : at[i] = at[j] => i = j
    <3>1. SUFFICES ASSUME NEW i \in 0..n, NEW j \in 0..n, at[i] = at[j], i # j PROVE FALSE
      OBVIOUS
    <3>2. i < j \/ j < i
      BY <3>1, <1>0
    <3> QED
      BY <3>1, <3>2, <2>2
  <2>4. at \in Injection(0..n, Apcs)
    <3>1. \A i \in 0..n : at[i] \in Apcs
      BY <1>3, <2>1
    <3>2. at \in [0..n -> Apcs]
      <4>1. at = [i \in 0..n |-> at[i]]
        BY <1>1
      <4> QED
        BY <4>1, <3>1
    <3> QED
      BY <3>2, <2>3 DEF Injection, IsInjective
  <2>5. Cardinality(0..n) <= Cardinality(Apcs)
    BY <2>4, FS_Injection, Zenon
  <2>6. Cardinality(0..n) = n + 1
    BY <1>0, FS_Interval
  <2> QED
    BY <1>0, <2>5, <2>6
<1>5. len \in 0..n /\ at[len] = h /\ \A j \in 0..len - 1 : at[j] # h
  <2>1. H \in SUBSET Nat
    BY <1>0
  <2>2. PICK i \in H : \A j \in H : ~(j < i)
    <3> HIDE DEF H
    <3> QED
      BY <1>4, <2>1, LeastOf
  <2>3. \A j \in 0..i - 1 : j \in 0..n /\ j < i
    BY <2>2, <1>0
  <2>4. i \in DOMAIN at /\ at[i] = h /\ \A j \in 0..i - 1 : at[j] # h
    BY <2>2, <2>3, <1>2
  <2>5. len \in DOMAIN at /\ at[len] = h /\ \A j \in 0..len - 1 : at[j] # h
    BY <2>4, Zenon
  <2> QED
    BY <2>5, <1>2
<1> HIDE DEF len, H
<1>6. len \in Nat
  BY <1>5, <1>0
<1>7. ASSUME NEW i \in 1..len
      PROVE  es[i] \in nodes \ {h} /\ es[i] = aFlink[IF i = 1 THEN h ELSE es[i - 1]]
  <2>1. i - 1 \in 0..n /\ i - 1 \in 0..len - 1 /\ es[i] = at[i - 1]
    BY <1>5, <1>6, <1>0
  <2>2. at[i - 1] \in nodes \ {h}
    BY <2>1, <1>3, <1>5
  <2>3. CASE i = 1
    BY <2>1, <2>2, <2>3, <1>2
  <2>4. CASE i # 1
    <3>1. i - 1 # 0 /\ i - 1 \in 1..len /\ i - 2 = (i - 1) - 1
      BY <2>4, <1>6
    <3>2. at[i - 1] = aFlink[at[i - 2]] /\ es[i - 1] = at[i - 2]
      BY <3>1, <2>1, <1>2
    <3> QED
      BY <2>1, <2>2, <3>2, <2>4
  <2> QED
    BY <2>3, <2>4
<1>8. aFlink[IF len = 0 THEN h ELSE es[len]] = h
  <2>1. CASE len = 0
    BY <2>1, <1>5, <1>2
  <2>2. CASE len # 0
    <3>1. len \in 1..len /\ es[len] = at[len - 1]
      BY <2>2, <1>6
    <3> QED
      BY <3>1, <2>2, <1>5, <1>2
  <2> QED
    BY <2>1, <2>2
<1>9. es = [i \in 1..len |-> es[i]]
  OBVIOUS
<1> QED
  <2> HIDE DEF es
  <2>1. Iterates(es, h, nodes)
    BY <1>6, <1>7, <1>8, <1>9, Zenon DEF Iterates
  <2> QED
    BY <1>E, <2>1
-----------------------------------------------------------------------------
\* An APC goes into the ring of its list, a special one after special ones only.
PlacedAfter(p, t, m, a) ==
  /\ p \in Apc!Ring(t, m)
  /\ KindOf(a) = "special" => p = <<t, m>> \/ KindOf(p) = "special"
  /\ KindOf(a) # "special" => aFlink[p] = <<t, m>>
LEMMA PlaceInRing ==
  ASSUME NEW t \in Threads, NEW m \in {0, 1}, NEW a \in Apcs, Apc!ApcAssumption,
         RingOf(aFlink, aBlink, <<t, m>>, Apc!Ring(t, m))
  PROVE  PlacedAfter(Apc!Place(<<t, m>>, a), t, m, a)
<1> USE DEF PlacedAfter
<1> DEFINE h == <<t, m>>
           nodes == Apc!Ring(t, m)
           es == Apc!Entries(h)
           normals == {i \in DOMAIN es : KindOf(es[i]) # "special"}
           pos == IF normals = {} THEN Apc!Cardinality(DOMAIN es)
                  ELSE CHOOSE i \in normals : \A j \in normals : i <= j
           p == Apc!Place(h, a)
<1>0. p = IF KindOf(a) # "special" THEN aBlink[h] ELSE IF es = <<>> THEN h ELSE aBlink[es[pos]]
  BY DEF Apc!Place
<1>1. nodes \ {h} \subseteq Apcs /\ IsFiniteSet(Apcs)
  BY SameSets DEF Apc!Ring, Apc!Yanked, Apc!ApcAssumption, Apcs
<1> HIDE DEF es, p, pos
<1>2. PICK len \in Nat :
        /\ es = [i \in 1..len |-> es[i]]
        /\ \A i \in 1..len :
             es[i] \in nodes \ {h} /\ es[i] = aFlink[IF i = 1 THEN h ELSE es[i - 1]]
  <2>1. Iterates(es, h, nodes)
    BY <1>1, EntriesIterate DEF es
  <2> QED
    BY <2>1 DEF Iterates
<1> HIDE DEF nodes, h
<1>3. DOMAIN es = 1..len
  BY <1>2, Zenon
<1>4. CASE KindOf(a) # "special"
  BY <1>0, <1>4 DEF RingOf, h, nodes, p
<1>5. CASE KindOf(a) = "special" /\ es = <<>>
  BY <1>0, <1>5 DEF RingOf, h, nodes, p
<1>6. CASE KindOf(a) = "special" /\ es # <<>>
  <2>1. len # 0
    <3>1. SUFFICES ASSUME len = 0 PROVE es = <<>>
      BY <1>6
    <3>2. es = [i \in 1..0 |-> es[i]]
      BY <1>2, <3>1, Zenon
    <3> QED
      BY <3>2
  <2>2. pos \in 1..len /\ \A i \in 1..len : i < pos => KindOf(es[i]) = "special"
    <3>1. CASE normals = {}
      <4>1. Cardinality(1..len) = len
        BY FS_Interval
      <4>2. Apc!Cardinality(DOMAIN es) = len
        BY <4>1, <1>3, SameSets
      <4>3. pos = len
        BY <3>1, <4>2 DEF pos
      <4> QED
        BY <4>3, <3>1, <2>1, <1>3
    <3>2. CASE normals # {}
      <4>1. normals \in SUBSET Nat
        BY <1>3
      <4>2. PICK i \in normals : \A j \in normals : ~(j < i)
        <5> HIDE DEF normals
        <5> QED
          BY <3>2, <4>1, LeastOf
      <4>3. \A j \in normals : i <= j
        BY <4>1, <4>2
      <4>4. pos \in normals /\ \A j \in normals : pos <= j
        <5> HIDE DEF normals
        <5> QED
          BY <4>3, <3>2, Zenon DEF pos
      <4>5. \A k \in 1..len : k < pos => k \notin normals
        BY <4>1, <4>4
      <4> QED
        BY <4>4, <4>5, <1>3
    <3> QED
      BY <3>1, <3>2
  <2>3. p = IF pos = 1 THEN h ELSE es[pos - 1]
    <3>1. p = aBlink[es[pos]]
      BY <1>0, <1>6
    <3>2. es[pos] = aFlink[IF pos = 1 THEN h ELSE es[pos - 1]]
      BY <2>2, <1>2
    <3>3. (IF pos = 1 THEN h ELSE es[pos - 1]) \in nodes
      <4>1. CASE pos = 1
        BY <4>1 DEF RingOf, h, nodes
      <4>2. CASE pos # 1
        <5>1. pos - 1 \in 1..len
          BY <4>2, <2>2
        <5> QED
          BY <4>2, <5>1, <1>2
      <4> QED
        BY <4>1, <4>2
    <3> QED
      BY <3>1, <3>2, <3>3 DEF RingOf, nodes
  <2>4. CASE pos = 1
    BY <2>3, <2>4, <1>6 DEF RingOf, h, nodes, p
  <2>5. CASE pos # 1
    <3>1. pos - 1 \in 1..len /\ pos - 1 < pos
      BY <2>5, <2>2
    <3>2. p \in nodes /\ KindOf(p) = "special"
      BY <3>1, <2>2, <2>3, <2>5, <1>2
    <3> QED
      BY <3>2, <1>6 DEF h, nodes, p
  <2> QED
    BY <2>4, <2>5
<1> QED
  BY <1>4, <1>5, <1>6

-----------------------------------------------------------------------------
\* The nodes of the lists.
LEMMA ApcTypes ==
  ASSUME Apc!ApcAssumption
  PROVE  /\ Apc!Modes = {0, 1} /\ Apc!Nodes = Apcs \cup Threads \X {0, 1}
         /\ \A t \in Threads, m \in {0, 1} : <<t, m>> \notin Apcs
         /\ \A a \in Apcs :
              OfMode(a) \in {0, 1} /\ (OfMode(a) = 1 <=> KindOf(a) \in {"heap", "owned"})
         /\ \A t \in Threads, m \in {0, 1} : Apc!Ring(t, m) \in SUBSET Apc!Nodes
<1>1. Apc!Modes = {0, 1}
  BY DEF Apc!Modes
<1>2. Apc!Nodes = Apcs \cup Threads \X {0, 1}
  BY DEF Apc!Modes, Apc!Heads, Apc!Nodes, Apcs
<1>3. \A t \in Threads, m \in {0, 1} : <<t, m>> \notin Apcs
  BY DEF Apc!ApcAssumption, Apc!Heads, Apc!Modes, Apcs
<1>4. \A a \in Apcs :
        OfMode(a) \in {0, 1} /\ (OfMode(a) = 1 <=> KindOf(a) \in {"heap", "owned"})
  BY DEF OfMode, Apc!Mode
<1>5. \A t \in Threads, m \in {0, 1} : Apc!Ring(t, m) \in SUBSET Apc!Nodes
  BY <1>2 DEF Apc!Ring, Apc!Yanked, Apcs
<1> QED
  BY <1>1, <1>2, <1>3, <1>4, <1>5

\* Where a queued APC is.
LEMMA QueuedInRing ==
  ASSUME Apc!ApcAssumption, ApcInv, NEW a \in Apcs, aEnqueued[a]
  PROVE  /\ aThread[a] \in Threads /\ Apc!InUse(aThread[a], OfMode(a))
         /\ a \in Apc!Ring(aThread[a], OfMode(a))
         /\ RingOf(aFlink, aBlink, <<aThread[a], OfMode(a)>>, Apc!Ring(aThread[a], OfMode(a)))
<1>1. aThread[a] \in Threads /\ OfMode(a) \in {0, 1}
  BY ApcTypes DEF ApcInv, QueuedTo
<1>2. a \in Apc!Yanked(aThread[a], OfMode(a))
  BY DEF Apc!Yanked, Apcs, OfMode
<1>3. Apc!InUse(aThread[a], OfMode(a))
  BY <1>1, <1>2 DEF ApcInv, Ended
<1> QED
  BY <1>1, <1>2, <1>3 DEF ApcInv, RingsHold, Apc!Ring

\* What links of queued APCs may change.
LinksType == /\ aFlink \in [Apc!Nodes -> Apc!Nodes] /\ aBlink \in [Apc!Nodes -> Apc!Nodes]
             /\ aEnqueued \in [Apcs -> BOOLEAN]
ChainsKept == \A s \in Threads : \A n \in aChain[s] : aFlink'[n] = aFlink[n]
RingInv == LinksType /\ RingsHold /\ Apc!SpecialsFirst

\* Queueing an APC that is in no list and in no run-down.
LEMMA InsertKeeps ==
  ASSUME Apc!ApcAssumption, ApcInv, NEW t \in Threads, NEW a \in Apcs,
         aMayQueue[t], ~aEnqueued[a], Apc!Insert(t, a), aThread'[a] = t,
         \A b \in Apcs \ {a} : aThread'[b] = aThread[b],
         \A s \in Threads, m \in {0, 1} : Apc!InUse(s, m)' => Apc!InUse(s, m),
         \A s \in Threads : a \notin aChain[s]
  PROVE  /\ RingInv' /\ ChainsKept
         /\ \A b \in Apcs : aEnqueued'[b] <=> aEnqueued[b] \/ b = a
         /\ Apc!InUse(t, OfMode(a))
         /\ \A s \in Threads, m \in {0, 1} :
              Apc!Yanked(s, m)' = IF s = t /\ m = OfMode(a) THEN Apc!Yanked(s, m) \cup {a}
                                  ELSE Apc!Yanked(s, m)
<1> DEFINE md == OfMode(a)
           h == <<t, md>>
           r == Apc!Ring(t, md)
           p == Apc!Place(h, a)
           f == aFlink[p]
<1>1. md \in {0, 1} /\ h \notin Apcs /\ r \in SUBSET Apc!Nodes
  BY ApcTypes
<1>2. Apc!InUse(t, md)
  BY <1>1 DEF ApcInv, Ended, Apc!InUse
<1>3. RingOf(aFlink, aBlink, h, r)
  BY <1>1, <1>2 DEF ApcInv, RingsHold
<1>4. /\ p \in r
      /\ KindOf(a) = "special" => p = h \/ KindOf(p) = "special"
      /\ KindOf(a) # "special" => f = h
  <2>1. PlacedAfter(Apc!Place(<<t, md>>, a), t, md, a)
    <3> HIDE DEF md
    <3> QED
      BY <1>1, <1>3, PlaceInRing
  <2> QED
    BY <2>1, Zenon DEF PlacedAfter
<1>15. ASSUME NEW s \in Threads, NEW m \in {0, 1} PROVE a \notin Apc!Ring(s, m)
  <2>1. <<s, m>> \notin Apcs
    BY ApcTypes
  <2>2. a \notin Apc!Yanked(s, m)
    BY DEF Apc!Yanked
  <2> QED
    BY <2>1, <2>2 DEF Apc!Ring
<1>5. a \in Apc!Nodes \ r
  BY <1>1, <1>15, ApcTypes
<1>6. aFlink \in [Apc!Nodes -> Apc!Nodes] /\ aBlink \in [Apc!Nodes -> Apc!Nodes]
      /\ aEnqueued \in [Apcs -> BOOLEAN]
  BY DEF ApcInv, Apc!TypeOK, Apcs
<1>7. /\ aFlink' = [aFlink EXCEPT ![a] = f, ![p] = a]
      /\ aBlink' = [aBlink EXCEPT ![a] = p, ![f] = a]
      /\ aEnqueued' = [aEnqueued EXCEPT ![a] = TRUE]
  BY DEF Apc!Insert, Apc!InsertAfter, OfMode
<1> HIDE DEF p
<1>8. f \in r
  BY <1>3, <1>4 DEF RingOf
<1>9. LinksType'
  <2>1. aFlink' \in [Apc!Nodes -> Apc!Nodes] /\ aBlink' \in [Apc!Nodes -> Apc!Nodes]
    BY <1>4, <1>5, <1>6, <1>7, <1>8, <1>1
  <2>2. aEnqueued' \in [Apcs -> BOOLEAN]
    BY <1>6, <1>7
  <2>3. Apc!Nodes' = Apc!Nodes
    BY DEF Apc!Nodes, Apc!Heads, Apc!Modes
  <2> QED
    BY <2>1, <2>2, <2>3 DEF LinksType, Apcs
<1>10. \A b \in Apcs : aEnqueued'[b] <=> aEnqueued[b] \/ b = a
  BY <1>6, <1>7
<1>11. ASSUME NEW s \in Threads, NEW m \in {0, 1}
       PROVE  Apc!Yanked(s, m)' = IF s = t /\ m = md THEN Apc!Yanked(s, m) \cup {a}
                                  ELSE Apc!Yanked(s, m)
  <2>1. Apc!Yanked(s, m)' = {b \in Apcs : aEnqueued'[b] /\ aThread'[b] = s /\ OfMode(b) = m}
    BY DEF Apc!Yanked, Apcs, OfMode, Apc!Mode
  <2>2. Apc!Yanked(s, m) = {b \in Apcs : aEnqueued[b] /\ aThread[b] = s /\ OfMode(b) = m}
    BY DEF Apc!Yanked, Apcs, OfMode
  <2> HIDE DEF md
  <2>3. CASE s = t /\ m = md
    BY <2>1, <2>2, <2>3, <1>10 DEF md
  <2>4. CASE ~(s = t /\ m = md)
    BY <2>1, <2>2, <2>4, <1>10 DEF md
  <2> QED
    BY <2>3, <2>4
<1>12. RingsHold'
  <2>1. SUFFICES ASSUME NEW s \in Threads, NEW m \in {0, 1}, Apc!InUse(s, m)'
                 PROVE  RingOf(aFlink', aBlink', <<s, m>>, Apc!Ring(s, m)')
    BY DEF RingsHold
  <2>2. RingOf(aFlink, aBlink, <<s, m>>, Apc!Ring(s, m))
    BY <2>1 DEF ApcInv, RingsHold
  <2>3. CASE s = t /\ m = md
    <3>1. Apc!Ring(s, m)' = r \cup {a}
      BY <2>3, <1>11 DEF Apc!Ring
    <3>2. RingOf(aFlink', aBlink', h, r \cup {a})
      <4> HIDE DEF r, h
      <4> QED
        BY <1>1, <1>3, <1>4, <1>5, <1>6, <1>7, RingInsert
    <3> QED
      BY <2>3, <3>1, <3>2
  <2>4. CASE ~(s = t /\ m = md)
    <3>1. Apc!Ring(s, m)' = Apc!Ring(s, m)
      BY <2>4, <1>11 DEF Apc!Ring
    <3>2. Apc!Ring(s, m) \cap (r \cup {a}) = {}
      <4>1. <<s, m>> # h
        BY <2>4
      <4>2. <<s, m>> \notin Apcs /\ h \notin Apcs
        BY ApcTypes, <1>1
      <4>3. \A b \in Apc!Yanked(s, m) : b \in Apcs /\ aThread[b] = s /\ OfMode(b) = m
        BY DEF Apc!Yanked, Apcs, OfMode
      <4>4. \A b \in Apc!Yanked(t, md) : b \in Apcs /\ aThread[b] = t /\ OfMode(b) = md
        BY DEF Apc!Yanked, Apcs, OfMode
      <4>5. a \notin Apc!Ring(s, m)
        BY <1>15
      <4> HIDE DEF md
      <4> QED
        BY <2>4, <4>1, <4>2, <4>3, <4>4, <4>5 DEF Apc!Ring
    <3>3. \A n \in Apc!Ring(s, m) : aFlink'[n] = aFlink[n] /\ aBlink'[n] = aBlink[n]
      <4>1. Apc!Ring(s, m) \in SUBSET Apc!Nodes
        BY ApcTypes
      <4> HIDE DEF r
      <4> QED
        BY <4>1, <3>2, <1>4, <1>6, <1>7, <1>8
    <3> QED
      BY <2>2, <3>1, <3>3, RingElsewhere
  <2> QED
    BY <2>3, <2>4
<1>13. Apc!SpecialsFirst'
  <2>1. SUFFICES ASSUME NEW x \in Apcs, NEW y \in Apcs, aEnqueued'[x], aEnqueued'[y],
                        aFlink'[x] = y, KindOf(y) = "special"
                 PROVE  KindOf(x) = "special"
    BY DEF Apc!SpecialsFirst, Apcs
  <2>2. CASE x = a
    <3>1. aFlink'[a] = f
      BY <1>4, <1>5, <1>6, <1>7
    <3> QED
      BY <2>1, <2>2, <3>1, <1>1, <1>4
  <2>3. CASE x # a /\ x = p
    <3>1. aFlink'[p] = a
      BY <1>1, <1>4, <1>5, <1>6, <1>7
    <3> QED
      BY <2>1, <2>3, <3>1, <1>1, <1>4
  <2>4. CASE x # a /\ x # p
    <3>1. aFlink'[x] = aFlink[x] /\ aEnqueued[x]
      BY <2>1, <2>4, <1>6, <1>7, <1>10, ApcTypes
    <3>2. y # a
      <4>1. aFlink[x] \in Apc!Ring(aThread[x], OfMode(x))
        BY <3>1, QueuedInRing DEF RingOf
      <4>2. aThread[x] \in Threads /\ OfMode(x) \in {0, 1}
        BY <3>1, QueuedInRing, ApcTypes
      <4>3. a \notin Apc!Ring(aThread[x], OfMode(x))
        BY <4>2, <1>15
      <4> QED
        BY <4>1, <4>3, <3>1, <2>1
    <3> QED
      BY <2>1, <3>1, <3>2, <1>10 DEF ApcInv, Apc!SpecialsFirst, Apcs
  <2> QED
    BY <2>2, <2>3, <2>4
<1>14. ChainsKept
  <2>1. SUFFICES ASSUME NEW s \in Threads, NEW n \in aChain[s]
                 PROVE  aFlink'[n] = aFlink[n]
    BY DEF ChainsKept
  <2>2. n \in Apcs /\ ~aEnqueued[n] /\ n # a
    <3>1. aPc[s] = "walk" /\ aChain[s] \subseteq Apcs
      BY <2>1 DEF ApcInv, Rundown, RundownOf, Apc!TypeOK, Apcs
    <3> QED
      BY <3>1 DEF ApcInv, Rundown, RundownOf
  <2>3. n \notin r
    BY <2>2, <1>1 DEF Apc!Ring, Apc!Yanked
  <2>4. n \in Apc!Nodes
    BY <2>2, ApcTypes
  <2> HIDE DEF r
  <2> QED
    BY <2>2, <2>3, <2>4, <1>4, <1>6, <1>7
<1> QED
  BY <1>2, <1>9, <1>10, <1>11, <1>12, <1>13, <1>14 DEF RingInv

\* What is in a run-down is in no ring.
LEMMA ChainsApart ==
  ASSUME Apc!ApcAssumption, ApcInv, NEW s \in Threads, NEW n \in aChain[s]
  PROVE  /\ aPc[s] = "walk" /\ n \in Apcs /\ n \in Apc!Nodes /\ ~aEnqueued[n]
         /\ \A t \in Threads, m \in {0, 1} : n \notin Apc!Ring(t, m)
<1>1. aPc[s] = "walk" /\ n \in Apcs /\ ~aEnqueued[n]
  <2>1. aPc[s] = "walk" /\ aChain[s] \subseteq Apcs
    BY DEF ApcInv, Rundown, RundownOf, Apc!TypeOK, Apcs
  <2> QED
    BY <2>1 DEF ApcInv, Rundown, RundownOf
<1>2. ASSUME NEW t \in Threads, NEW m \in {0, 1} PROVE n \notin Apc!Ring(t, m)
  <2>1. <<t, m>> \notin Apcs
    BY ApcTypes
  <2>2. n \notin Apc!Yanked(t, m)
    BY <1>1 DEF Apc!Yanked
  <2> QED
    BY <1>1, <2>1, <2>2 DEF Apc!Ring
<1> QED
  BY <1>1, <1>2, ApcTypes

\* Two lists share no node.
LEMMA RingsApart ==
  ASSUME Apc!ApcAssumption, NEW s \in Threads, NEW k \in {0, 1},
         NEW t \in Threads, NEW m \in {0, 1}, ~(s = t /\ k = m)
  PROVE  Apc!Ring(s, k) \cap Apc!Ring(t, m) = {}
<1>1. <<s, k>> # <<t, m>>
  OBVIOUS
<1>2. <<s, k>> \notin Apcs /\ <<t, m>> \notin Apcs
  BY ApcTypes
<1>3. \A b \in Apc!Yanked(s, k) : b \in Apcs /\ aThread[b] = s /\ OfMode(b) = k
  BY DEF Apc!Yanked, Apcs, OfMode
<1>4. \A b \in Apc!Yanked(t, m) : b \in Apcs /\ aThread[b] = t /\ OfMode(b) = m
  BY DEF Apc!Yanked, Apcs, OfMode
<1> QED
  BY <1>1, <1>2, <1>3, <1>4 DEF Apc!Ring

\* Taking a queued APC out of its list.
LEMMA RemoveKeeps ==
  ASSUME Apc!ApcAssumption, ApcInv, NEW a \in Apcs, aEnqueued[a], Apc!RemoveEntry(a),
         aEnqueued' = [aEnqueued EXCEPT ![a] = FALSE],
         \A b \in Apcs \ {a} : aThread'[b] = aThread[b],
         \A s \in Threads, m \in {0, 1} : Apc!InUse(s, m)' => Apc!InUse(s, m)
  PROVE  /\ RingInv' /\ ChainsKept
         /\ \A b \in Apcs : aEnqueued'[b] <=> aEnqueued[b] /\ b # a
         /\ \A s \in Threads, m \in {0, 1} : Apc!Yanked(s, m)' = Apc!Yanked(s, m) \ {a}
<1> DEFINE t == aThread[a]
           md == OfMode(a)
           h == <<t, md>>
           r == Apc!Ring(t, md)
           b == aBlink[a]
           f == aFlink[a]
<1>1. t \in Threads /\ md \in {0, 1} /\ a \in r /\ RingOf(aFlink, aBlink, h, r)
  BY QueuedInRing, ApcTypes
<1>2. h \notin Apcs /\ a # h /\ r \in SUBSET Apc!Nodes
  <2> HIDE DEF t, md
  <2> QED
    BY <1>1, ApcTypes
<1>3. b \in r /\ f \in r /\ aFlink[b] = a
  BY <1>1 DEF RingOf
<1>4. aFlink \in [Apc!Nodes -> Apc!Nodes] /\ aBlink \in [Apc!Nodes -> Apc!Nodes]
      /\ aEnqueued \in [Apcs -> BOOLEAN]
  BY DEF ApcInv, Apc!TypeOK, Apcs
<1>5. /\ aFlink' = [aFlink EXCEPT ![b] = f]
      /\ aBlink' = [aBlink EXCEPT ![f] = b]
  BY DEF Apc!RemoveEntry
<1>6. LinksType'
  <2>1. aFlink' \in [Apc!Nodes -> Apc!Nodes] /\ aBlink' \in [Apc!Nodes -> Apc!Nodes]
    BY <1>2, <1>3, <1>4, <1>5
  <2>2. aEnqueued' \in [Apcs -> BOOLEAN]
    BY <1>4
  <2>3. Apc!Nodes' = Apc!Nodes
    BY DEF Apc!Nodes, Apc!Heads, Apc!Modes
  <2> QED
    BY <2>1, <2>2, <2>3 DEF LinksType, Apcs
<1>7. \A c \in Apcs : aEnqueued'[c] <=> aEnqueued[c] /\ c # a
  BY <1>4
<1>8. ASSUME NEW s \in Threads, NEW m \in {0, 1}
      PROVE  Apc!Yanked(s, m)' = Apc!Yanked(s, m) \ {a}
  <2>1. Apc!Yanked(s, m)' = {c \in Apcs : aEnqueued'[c] /\ aThread'[c] = s /\ OfMode(c) = m}
    BY DEF Apc!Yanked, Apcs, OfMode, Apc!Mode
  <2>2. Apc!Yanked(s, m) = {c \in Apcs : aEnqueued[c] /\ aThread[c] = s /\ OfMode(c) = m}
    BY DEF Apc!Yanked, Apcs, OfMode
  <2> QED
    BY <2>1, <2>2, <1>7
<1> HIDE DEF b, f, t, md
<1>9. RingsHold'
  <2>1. SUFFICES ASSUME NEW s \in Threads, NEW m \in {0, 1}, Apc!InUse(s, m)'
                 PROVE  RingOf(aFlink', aBlink', <<s, m>>, Apc!Ring(s, m)')
    BY DEF RingsHold
  <2>2. RingOf(aFlink, aBlink, <<s, m>>, Apc!Ring(s, m))
    BY <2>1 DEF ApcInv, RingsHold
  <2>3. CASE s = t /\ m = md
    <3>1. Apc!Ring(s, m)' = r \ {a}
      BY <2>3, <1>2, <1>8 DEF Apc!Ring
    <3>2. RingOf(aFlink', aBlink', h, r \ {a})
      <4> HIDE DEF r, h
      <4> QED
        BY <1>1, <1>2, <1>4, <1>5, RingRemove DEF b, f
    <3> QED
      BY <2>3, <3>1, <3>2
  <2>4. CASE ~(s = t /\ m = md)
    <3>1. Apc!Ring(s, m) \cap r = {} /\ Apc!Ring(s, m) \in SUBSET Apc!Nodes
      BY <2>4, <1>1, RingsApart, ApcTypes
    <3>2. Apc!Ring(s, m)' = Apc!Ring(s, m)
      <4>1. a \notin Apc!Ring(s, m)
        BY <3>1, <1>1
      <4> QED
        BY <4>1, <1>8 DEF Apc!Ring
    <3>3. \A n \in Apc!Ring(s, m) : aFlink'[n] = aFlink[n] /\ aBlink'[n] = aBlink[n]
      <4> HIDE DEF r
      <4> QED
        BY <3>1, <1>3, <1>4, <1>5
    <3> QED
      BY <2>2, <3>2, <3>3, RingElsewhere
  <2> QED
    BY <2>3, <2>4
<1>10. Apc!SpecialsFirst'
  <2>1. SUFFICES ASSUME NEW x \in Apcs, NEW y \in Apcs, aEnqueued'[x], aEnqueued'[y],
                        aFlink'[x] = y, KindOf(y) = "special"
                 PROVE  KindOf(x) = "special"
    BY DEF Apc!SpecialsFirst, Apcs
  <2>2. \A u, v \in Apcs : aEnqueued[u] /\ aEnqueued[v] /\ aFlink[u] = v /\ KindOf(v) = "special"
          => KindOf(u) = "special"
    BY Zenon DEF ApcInv, Apc!SpecialsFirst, Apcs
  <2>3. aEnqueued[x] /\ aEnqueued[y]
    BY <2>1, <1>7
  <2>4. CASE x = b
    <3>1. aFlink'[x] = f /\ aFlink[x] = a
      BY <2>4, <1>3, <1>4, <1>5, <1>2
    <3>2. aFlink[a] = y
      BY <3>1, <2>1 DEF f
    <3> QED
      BY <3>1, <3>2, <2>1, <2>2, <2>3
  <2>5. CASE x # b
    <3>1. aFlink'[x] = aFlink[x]
      BY <2>5, <1>4, <1>5, ApcTypes
    <3> QED
      BY <3>1, <2>1, <2>2, <2>3
  <2> QED
    BY <2>4, <2>5
<1>11. ChainsKept
  <2>1. SUFFICES ASSUME NEW s \in Threads, NEW n \in aChain[s]
                 PROVE  aFlink'[n] = aFlink[n]
    BY DEF ChainsKept
  <2>2. n \in Apc!Nodes /\ n \notin r
    BY <1>1, ChainsApart
  <2> HIDE DEF r
  <2> QED
    BY <2>2, <1>3, <1>4, <1>5
<1> QED
  BY <1>6, <1>7, <1>8, <1>9, <1>10, <1>11 DEF RingInv

\* Taking all APCs of a list leaves a chain of them.
LEMMA YankKeeps ==
  ASSUME Apc!ApcAssumption, ApcInv, NEW t \in Threads, NEW md \in {0, 1}, Apc!Yank(t, md),
         Apc!InUse(t, md), UNCHANGED aThread,
         \A s \in Threads, m \in {0, 1} :
           Apc!InUse(s, m)' => Apc!InUse(s, m) /\ ~(s = t /\ m = md)
  PROVE  /\ RingInv' /\ ChainsKept
         /\ \A b \in Apcs : aEnqueued'[b] <=> aEnqueued[b] /\ b \notin Apc!Yanked(t, md)
         /\ \A s \in Threads, m \in {0, 1} :
              Apc!Yanked(s, m)' = IF s = t /\ m = md THEN {} ELSE Apc!Yanked(s, m)
         /\ ~Apc!Empty(<<t, md>>) =>
              ChainOf(aFlink', aFlink[<<t, md>>], aFlink[<<t, md>>], Apc!Yanked(t, md))
<1> DEFINE h == <<t, md>>
           r == Apc!Ring(t, md)
           y == Apc!Yanked(t, md)
           b == aBlink[h]
           f == aFlink[h]
<1>1. RingOf(aFlink, aBlink, h, r)
  BY DEF ApcInv, RingsHold
<1>2. h \notin Apcs /\ r \in SUBSET Apc!Nodes /\ y \subseteq Apcs /\ r = {h} \cup y
  BY ApcTypes DEF Apc!Ring, Apc!Yanked, Apcs
<1>3. b \in r /\ f \in r
  BY <1>1 DEF RingOf
<1>4. aFlink \in [Apc!Nodes -> Apc!Nodes] /\ aBlink \in [Apc!Nodes -> Apc!Nodes]
      /\ aEnqueued \in [Apcs -> BOOLEAN]
  BY DEF ApcInv, Apc!TypeOK, Apcs
<1>5. ASSUME Apc!Empty(h)
      PROVE  y = {} /\ UNCHANGED <<aFlink, aBlink, aEnqueued>>
  <2>1. f = h
    BY <1>5 DEF Apc!Empty
  <2>2. {h} = r
    <3> HIDE DEF r, h
    <3>1. {h} \in SUBSET r /\ \A n \in {h} : aFlink[n] \in {h}
      BY <1>1, <2>1 DEF RingOf, f
    <3>2. h \in {h}
      OBVIOUS
    <3> QED
      BY <3>1, <3>2, <1>1 DEF RingOf
  <2> QED
    BY <1>2, <2>2, <1>5 DEF Apc!Yank, Apc!links
<1>6. ASSUME ~Apc!Empty(h)
      PROVE  /\ f # h
             /\ aFlink' = [aFlink EXCEPT ![b] = f]
             /\ aBlink' = [aBlink EXCEPT ![f] = b]
             /\ aEnqueued' = [a \in Apcs |-> aEnqueued[a] /\ a \notin y]
  BY <1>6 DEF Apc!Empty, Apc!Yank, Apc!RemoveEntry, Apcs
<1> HIDE DEF b, f
<1>7. LinksType'
  <2>1. aFlink' \in [Apc!Nodes -> Apc!Nodes] /\ aBlink' \in [Apc!Nodes -> Apc!Nodes]
    BY <1>2, <1>3, <1>4, <1>5, <1>6
  <2>2. aEnqueued' \in [Apcs -> BOOLEAN]
    BY <1>4, <1>5, <1>6
  <2>3. Apc!Nodes' = Apc!Nodes
    BY DEF Apc!Nodes, Apc!Heads, Apc!Modes
  <2> QED
    BY <2>1, <2>2, <2>3 DEF LinksType, Apcs
<1>8. \A c \in Apcs : aEnqueued'[c] <=> aEnqueued[c] /\ c \notin y
  <2> HIDE DEF y
  <2> QED
    BY <1>4, <1>5, <1>6
<1>9. ASSUME NEW s \in Threads, NEW m \in {0, 1}
      PROVE  Apc!Yanked(s, m)' = IF s = t /\ m = md THEN {} ELSE Apc!Yanked(s, m)
  <2>1. Apc!Yanked(s, m)' = {c \in Apcs : aEnqueued'[c] /\ aThread[c] = s /\ OfMode(c) = m}
    BY DEF Apc!Yanked, Apcs, OfMode, Apc!Mode
  <2>2. Apc!Yanked(s, m) = {c \in Apcs : aEnqueued[c] /\ aThread[c] = s /\ OfMode(c) = m}
    BY DEF Apc!Yanked, Apcs, OfMode
  <2>3. y = {c \in Apcs : aEnqueued[c] /\ aThread[c] = t /\ OfMode(c) = md}
    BY DEF Apc!Yanked, Apcs, OfMode
  <2> HIDE DEF y
  <2>4. CASE s = t /\ m = md
    BY <2>1, <2>3, <2>4, <1>8
  <2>5. CASE ~(s = t /\ m = md)
    BY <2>1, <2>2, <2>3, <2>5, <1>8
  <2> QED
    BY <2>4, <2>5
<1>10. \A n \in Apc!Nodes \ r : aFlink'[n] = aFlink[n] /\ aBlink'[n] = aBlink[n]
  <2> HIDE DEF r
  <2> QED
    BY <1>3, <1>4, <1>5, <1>6
<1>11. RingsHold'
  <2>1. SUFFICES ASSUME NEW s \in Threads, NEW m \in {0, 1}, Apc!InUse(s, m)'
                 PROVE  RingOf(aFlink', aBlink', <<s, m>>, Apc!Ring(s, m)')
    BY DEF RingsHold
  <2>2. RingOf(aFlink, aBlink, <<s, m>>, Apc!Ring(s, m)) /\ ~(s = t /\ m = md)
    BY <2>1 DEF ApcInv, RingsHold
  <2>3. Apc!Ring(s, m) \cap r = {} /\ Apc!Ring(s, m) \in SUBSET Apc!Nodes
    BY <2>2, RingsApart, ApcTypes
  <2>4. Apc!Ring(s, m)' = Apc!Ring(s, m)
    BY <2>2, <1>9 DEF Apc!Ring
  <2>5. \A n \in Apc!Ring(s, m) : aFlink'[n] = aFlink[n] /\ aBlink'[n] = aBlink[n]
    <3> HIDE DEF r
    <3> QED
      BY <2>3, <1>10
  <2> QED
    BY <2>2, <2>4, <2>5, RingElsewhere
<1>12. Apc!SpecialsFirst'
  <2>1. SUFFICES ASSUME NEW x \in Apcs, NEW z \in Apcs, aEnqueued'[x], aEnqueued'[z],
                        aFlink'[x] = z, KindOf(z) = "special"
                 PROVE  KindOf(x) = "special"
    BY DEF Apc!SpecialsFirst, Apcs
  <2>2. \A u, v \in Apcs : aEnqueued[u] /\ aEnqueued[v] /\ aFlink[u] = v /\ KindOf(v) = "special"
          => KindOf(u) = "special"
    BY Zenon DEF ApcInv, Apc!SpecialsFirst, Apcs
  <2>3. aEnqueued[x] /\ aEnqueued[z] /\ x \notin r
    BY <2>1, <1>2, <1>8
  <2>4. aFlink'[x] = aFlink[x]
    <3>1. x \in Apc!Nodes
      BY ApcTypes
    <3> QED
      BY <3>1, <2>3, <1>10
  <2> QED
    BY <2>1, <2>2, <2>3, <2>4
<1>13. ChainsKept
  <2>1. SUFFICES ASSUME NEW s \in Threads, NEW n \in aChain[s]
                 PROVE  aFlink'[n] = aFlink[n]
    BY DEF ChainsKept
  <2>2. n \in Apc!Nodes /\ n \notin r
    BY <1>1, ChainsApart
  <2> QED
    BY <2>2, <1>10
<1>14. ASSUME ~Apc!Empty(h) PROVE ChainOf(aFlink', f, f, y)
  <2>1. y = r \ {h}
    BY <1>2
  <2> HIDE DEF r, h, y
  <2>2. ChainOf([aFlink EXCEPT ![aBlink[h]] = aFlink[h]], aFlink[h], aFlink[h], r \ {h})
    <3>1. aFlink[h] # h
      BY <1>6, <1>14 DEF f
    <3>2. aFlink \in [Apc!Nodes -> Apc!Nodes] /\ aBlink \in [Apc!Nodes -> Apc!Nodes]
      BY <1>4
    <3>3. r \in SUBSET Apc!Nodes
      BY <1>2
    <3> QED
      BY <1>1, <3>1, <3>2, <3>3, RingOpened
  <2> QED
    BY <2>1, <2>2, <1>6, <1>14 DEF b, f
<1> QED
  <2>1. ~Apc!Empty(h) => ChainOf(aFlink', f, f, y)
    BY <1>14
  <2> QED
    BY <1>7, <1>8, <1>9, <1>11, <1>12, <1>13, <2>1 DEF RingInv, f

-----------------------------------------------------------------------------
\* Every action keeps what is in a run-down as it is, but for the walk of that run-down.
LEMMA RundownOfKeeps ==
  ASSUME Apc!ApcAssumption, ApcInv, ChainsKept, NEW s \in Threads,
         aFirst'[s] = aFirst[s], aChain'[s] = aChain[s],
         aPc'[s] = "walk" <=> aPc[s] = "walk", aPc[s] = "walk" => aApc'[s] = aApc[s],
         \A a \in aChain[s] : aThread'[a] = aThread[a] /\ a \in aLive' /\ ~aEnqueued'[a]
  PROVE  RundownOf(s)'
<1>1. RundownOf(s)
  BY DEF ApcInv, Rundown
<1>2. aPc[s] = "walk" => ChainOf(aFlink', aApc'[s], aFirst[s], aChain[s])
  <2> SUFFICES ASSUME aPc[s] = "walk" PROVE ChainOf(aFlink', aApc'[s], aFirst[s], aChain[s])
    OBVIOUS
  <2>1. \A n \in aChain[s] : aFlink'[n] = aFlink[n]
    BY DEF ChainsKept
  <2>2. ChainOf(aFlink', aApc[s], aFirst[s], aChain[s])
    BY <1>1, <2>1, ChainElsewhere DEF RundownOf
  <2> QED
    BY <2>2
<1>3. Apcs' = Apcs /\ \A a \in Apcs : OfMode(a)' = OfMode(a)
  BY DEF Apcs, OfMode, Apc!Mode
<1>4. /\ aPc'[s] # "walk" => aChain[s] = {}
      /\ aPc'[s] = "walk" =>
           /\ aFirst[s] \in Apcs
           /\ ChainOf(aFlink', aApc'[s], aFirst[s], aChain[s])
           /\ \A a \in aChain[s] :
                aThread'[a] = s /\ a \in aLive' /\ ~aEnqueued'[a] /\ OfMode(a) = 1
  BY <1>1, <1>2 DEF RundownOf
<1> QED
  BY <1>4 DEF RundownOf, OfMode, Apc!Mode, Apcs

\* All run-downs, for an action that is no step of one.
LEMMA RundownKeeps ==
  ASSUME Apc!ApcAssumption, ApcInv, ChainsKept, UNCHANGED <<aFirst, aChain>>,
         \A s \in Threads : aPc'[s] = "walk" <=> aPc[s] = "walk",
         \A s \in Threads : aPc[s] = "walk" => aApc'[s] = aApc[s],
         \A s \in Threads : \A a \in aChain[s] :
           aThread'[a] = aThread[a] /\ a \in aLive' /\ ~aEnqueued'[a]
  PROVE  Rundown'
<1>1. ASSUME NEW s \in Threads PROVE RundownOf(s)'
  BY RundownOfKeeps
<1> QED
  BY <1>1 DEF Rundown

\* Queueing an APC of the heap.
LEMMA QueueApcStep ==
  ASSUME Apc!ApcAssumption, ApcInv, UNCHANGED aSetting,
         NEW t \in Threads, NEW a \in Apcs, Apc!QueueApc(t, a)
  PROVE  ApcInv'
<1>1. /\ KindOf(a) = "heap" /\ a \notin aLive /\ aMayQueue[t] /\ ~aEnqueued[a]
      /\ Apc!Insert(t, a) /\ aLive' = aLive \cup {a}
      /\ aThread' = [aThread EXCEPT ![a] = t]
      /\ UNCHANGED <<aMayQueue, aDisabled, aExecuting, aArmed, aHas, aTarget, aPc, aList,
                     aApc, aFirst, aChain>>
  BY DEF Apc!QueueApc, Apc!MayQueue, Apc!timers, Apc!walk
<1>2. \A s \in Threads : a \notin aChain[s]
  BY <1>1, ChainsApart DEF ApcInv, Rundown, RundownOf
<1>3. aThread \in [Apcs -> Threads \cup {None}] /\ None \notin Threads
  BY DEF ApcInv, Apc!TypeOK, Apc!ApcAssumption, Apcs
<1>4. aThread'[a] = t /\ \A b \in Apcs \ {a} : aThread'[b] = aThread[b]
  BY <1>1, <1>3
<1>5. \A s \in Threads, m \in {0, 1} : Apc!InUse(s, m)' <=> Apc!InUse(s, m)
  BY <1>1 DEF Apc!InUse
<1>6. /\ RingInv' /\ ChainsKept /\ Apc!InUse(t, OfMode(a))
      /\ \A b \in Apcs : aEnqueued'[b] <=> aEnqueued[b] \/ b = a
      /\ \A s \in Threads, m \in {0, 1} :
           Apc!Yanked(s, m)' = IF s = t /\ m = OfMode(a) THEN Apc!Yanked(s, m) \cup {a}
                               ELSE Apc!Yanked(s, m)
  BY <1>1, <1>2, <1>4, <1>5, InsertKeeps
<1>7. Apc!TypeOK'
  BY <1>1, <1>3, <1>6 DEF ApcInv, RingInv, LinksType, Apc!TypeOK, Apcs
<1>8. Ended'
  BY <1>1, <1>5, <1>6 DEF ApcInv, Ended
<1>9. QueuedTo'
  BY <1>1, <1>4, <1>6 DEF ApcInv, QueuedTo
<1>10. HeapHeld'
  BY <1>1, <1>4, <1>6 DEF ApcInv, HeapHeld, HeldBy
<1>11. Rundown'
  <2>1. \A s \in Threads : \A b \in aChain[s] :
          aThread'[b] = aThread[b] /\ b \in aLive' /\ ~aEnqueued'[b]
    BY <1>1, <1>2, <1>4, <1>6, ChainsApart DEF ApcInv, Rundown, RundownOf
  <2> QED
    BY <1>1, <1>6, <2>1, RundownKeeps
<1> QED
  BY <1>6, <1>7, <1>8, <1>9, <1>10, <1>11 DEF ApcInv, RingInv
\* Links and queues as they were.
LEMMA SameKeeps ==
  ASSUME Apc!ApcAssumption, ApcInv, UNCHANGED <<aFlink, aBlink, aEnqueued>>,
         \A b \in Apcs : aEnqueued[b] => aThread'[b] = aThread[b],
         \A s \in Threads, m \in {0, 1} : Apc!InUse(s, m)' => Apc!InUse(s, m)
  PROVE  /\ RingInv' /\ ChainsKept
         /\ \A s \in Threads, m \in {0, 1} : Apc!Yanked(s, m)' = Apc!Yanked(s, m)
<1>1. ASSUME NEW s \in Threads, NEW m \in {0, 1}
      PROVE  Apc!Yanked(s, m)' = Apc!Yanked(s, m)
  <2>1. Apc!Yanked(s, m)' = {b \in Apcs : aEnqueued[b] /\ aThread'[b] = s /\ OfMode(b) = m}
    BY DEF Apc!Yanked, Apcs, OfMode, Apc!Mode
  <2>2. Apc!Yanked(s, m) = {b \in Apcs : aEnqueued[b] /\ aThread[b] = s /\ OfMode(b) = m}
    BY DEF Apc!Yanked, Apcs, OfMode
  <2> QED
    BY <2>1, <2>2
<1>2. RingsHold'
  <2>1. \A s \in Threads, m \in {0, 1} : Apc!Ring(s, m)' = Apc!Ring(s, m)
    BY <1>1 DEF Apc!Ring
  <2> QED
    BY <2>1 DEF ApcInv, RingsHold
<1>3. LinksType'
  <2>1. Apc!Nodes' = Apc!Nodes
    BY DEF Apc!Nodes, Apc!Heads, Apc!Modes
  <2> QED
    BY <2>1 DEF ApcInv, Apc!TypeOK, LinksType, Apcs
<1>4. Apc!SpecialsFirst' /\ ChainsKept
  BY DEF ApcInv, Apc!SpecialsFirst, ChainsKept
<1> QED
  BY <1>1, <1>2, <1>3, <1>4 DEF RingInv

\* A timer takes its APC back.
LEMMA TakenBack ==
  ASSUME Apc!ApcAssumption, ApcInv, NEW a \in Apcs, KindOf(a) = "owned", Apc!RemoveApc(a),
         \A b \in Apcs \ {a} : aThread'[b] = aThread[b],
         \A s \in Threads, m \in {0, 1} : Apc!InUse(s, m)' => Apc!InUse(s, m)
  PROVE  /\ RingInv' /\ ChainsKept
         /\ \A b \in Apcs : aEnqueued'[b] <=> aEnqueued[b] /\ b # a
         /\ \A s \in Threads, m \in {0, 1} : Apc!Yanked(s, m)' = Apc!Yanked(s, m) \ {a}
<1>1. CASE aEnqueued[a]
  <2>1. aTarget[a] # None
    BY <1>1 DEF ApcInv, QueuedTo, Apc!ApcAssumption
  <2>2. Apc!RemoveEntry(a) /\ aEnqueued' = [aEnqueued EXCEPT ![a] = FALSE]
    BY <1>1, <2>1 DEF Apc!RemoveApc, Apc!RemoveQueued
  <2> QED
    BY <1>1, <2>2, RemoveKeeps
<1>2. CASE ~aEnqueued[a]
  <2>1. UNCHANGED <<aFlink, aBlink, aEnqueued>>
    BY <1>2 DEF Apc!RemoveApc, Apc!RemoveQueued, Apc!links
  <2>2. \A b \in Apcs : aEnqueued[b] => aThread'[b] = aThread[b]
    BY <1>2
  <2>3. \A s \in Threads, m \in {0, 1} : a \notin Apc!Yanked(s, m)
    BY <1>2 DEF Apc!Yanked
  <2> QED
    BY <1>2, <2>1, <2>2, <2>3, SameKeeps
<1> QED
  BY <1>1, <1>2

\* The guest queues a kernel APC.
LEMMA KeInsertStep ==
  ASSUME Apc!ApcAssumption, ApcInv, UNCHANGED aSetting,
         NEW t \in Threads, NEW a \in Apcs, NEW self \in BOOLEAN,
         Apc!KeInsertQueueApc(t, a, self)
  PROVE  ApcInv'
<1>0. aPc \in [Threads -> {"guest", "deliver", "taken", "rundown", "walk", "drop", "exited",
                           "terminated"}]
      /\ aList \in [Threads -> {0, 1}] /\ aExecuting \in [Threads -> BOOLEAN]
  BY DEF ApcInv, Apc!TypeOK, Apc!Modes
<1>1. /\ KindOf(a) \notin {"heap", "owned"} /\ aMayQueue[t] /\ ~aEnqueued[a]
      /\ Apc!Insert(t, a)
      /\ aThread' = [aThread EXCEPT ![a] = t]
      /\ \A s \in Threads : aPc'[s] = aPc[s] \/ (aPc[s] = "guest" /\ aPc'[s] = "deliver")
      /\ aPc' \in [Threads -> {"guest", "deliver", "taken", "rundown", "walk", "drop", "exited",
                                "terminated"}]
      /\ aList' \in [Threads -> {0, 1}] /\ aExecuting' \in [Threads -> BOOLEAN]
      /\ UNCHANGED <<aLive, aMayQueue, aDisabled, aArmed, aHas, aTarget, aApc, aFirst, aChain>>
  <2>1. /\ KindOf(a) \in {"special", "normal"} /\ Apc!MayQueue(t, a) /\ Apc!Insert(t, a)
        /\ aThread' = [aThread EXCEPT ![a] = t]
        /\ UNCHANGED <<aLive, aMayQueue, aDisabled, aArmed, aHas, aTarget, aApc, aFirst, aChain>>
    BY DEF Apc!KeInsertQueueApc, Apc!timers
  <2>2. CASE self /\ Apc!KernelApcsRun(t)
    <3>1. /\ aPc[t] = "guest" /\ aPc' = [aPc EXCEPT ![t] = "deliver"]
          /\ aList' = [aList EXCEPT ![t] = 0] /\ aExecuting' = [aExecuting EXCEPT ![t] = TRUE]
      BY <2>2, Zenon DEF Apc!KeInsertQueueApc, Apc!Goto
    <3> QED
      BY <1>0, <2>1, <3>1 DEF Apc!MayQueue
  <2>3. CASE ~(self /\ Apc!KernelApcsRun(t))
    <3>1. UNCHANGED <<aPc, aList, aExecuting>>
      BY <2>3, Zenon DEF Apc!KeInsertQueueApc
    <3> QED
      BY <1>0, <2>1, <3>1 DEF Apc!MayQueue
  <2> QED
    BY <2>2, <2>3
<1>2. \A s \in Threads : a \notin aChain[s]
  BY <1>1, ChainsApart, ApcTypes DEF ApcInv, Rundown, RundownOf
<1>3. aThread \in [Apcs -> Threads \cup {None}] /\ None \notin Threads
  BY DEF ApcInv, Apc!TypeOK, Apc!ApcAssumption, Apcs
<1>4. aThread'[a] = t /\ \A b \in Apcs \ {a} : aThread'[b] = aThread[b]
  BY <1>1, <1>3
<1>5. \A s \in Threads, m \in {0, 1} : Apc!InUse(s, m)' <=> Apc!InUse(s, m)
  BY <1>1 DEF Apc!InUse
<1>6. /\ RingInv' /\ ChainsKept /\ Apc!InUse(t, OfMode(a))
      /\ \A b \in Apcs : aEnqueued'[b] <=> aEnqueued[b] \/ b = a
      /\ \A s \in Threads, m \in {0, 1} :
           Apc!Yanked(s, m)' = IF s = t /\ m = OfMode(a) THEN Apc!Yanked(s, m) \cup {a}
                               ELSE Apc!Yanked(s, m)
  BY <1>1, <1>2, <1>4, <1>5, InsertKeeps
<1>7. Apc!TypeOK'
  BY <1>1, <1>3, <1>6 DEF ApcInv, RingInv, LinksType, Apc!TypeOK, Apcs, Apc!Modes
<1>8. Ended'
  BY <1>1, <1>5, <1>6 DEF ApcInv, Ended
<1>9. QueuedTo'
  BY <1>1, <1>2, <1>3, <1>4, <1>6 DEF ApcInv, QueuedTo
<1>10. HeapHeld'
  BY <1>1, <1>2, <1>4, <1>6 DEF ApcInv, HeapHeld, HeldBy
<1>11. Rundown'
  <2>1. \A s \in Threads : \A b \in aChain[s] :
          aThread'[b] = aThread[b] /\ b \in aLive' /\ ~aEnqueued'[b]
    BY <1>1, <1>2, <1>4, <1>6, ChainsApart DEF ApcInv, Rundown, RundownOf
  <2> QED
    BY <1>1, <1>6, <2>1, RundownKeeps
<1> QED
  BY <1>6, <1>7, <1>8, <1>9, <1>10, <1>11 DEF ApcInv, RingInv

\* It removes one.
LEMMA KeRemoveStep ==
  ASSUME Apc!ApcAssumption, ApcInv, UNCHANGED aSetting,
         NEW a \in Apcs, Apc!KeRemoveQueueApc(a)
  PROVE  ApcInv'
<1>1. /\ KindOf(a) \in {"special", "normal"} /\ aEnqueued[a] /\ Apc!RemoveEntry(a)
      /\ aEnqueued' = [aEnqueued EXCEPT ![a] = FALSE]
      /\ UNCHANGED <<aThread, aLive, aMayQueue, aDisabled, aExecuting, aArmed, aHas, aTarget,
                     aPc, aList, aApc, aFirst, aChain>>
  BY DEF Apc!KeRemoveQueueApc, Apc!RemoveQueued, Apc!timers, Apc!walk
<1>2. \A s \in Threads : a \notin aChain[s]
  BY <1>1, ChainsApart
<1>3. aThread \in [Apcs -> Threads \cup {None}] /\ None \notin Threads
  BY DEF ApcInv, Apc!TypeOK, Apc!ApcAssumption, Apcs
<1>4. \A b \in Apcs \ {a} : aThread'[b] = aThread[b]
  BY <1>1
<1>5. \A s \in Threads, m \in {0, 1} : Apc!InUse(s, m)' <=> Apc!InUse(s, m)
  BY <1>1 DEF Apc!InUse
<1>6. /\ RingInv' /\ ChainsKept
      /\ \A b \in Apcs : aEnqueued'[b] <=> aEnqueued[b] /\ b # a
      /\ \A s \in Threads, m \in {0, 1} : Apc!Yanked(s, m)' = Apc!Yanked(s, m) \ {a}
  BY <1>1, <1>4, <1>5, RemoveKeeps
<1>7. Apc!TypeOK'
  BY <1>1, <1>3, <1>6 DEF ApcInv, RingInv, LinksType, Apc!TypeOK, Apcs, Apc!Modes
<1>8. Ended'
  BY <1>1, <1>5, <1>6 DEF ApcInv, Ended
<1>9. QueuedTo'
  BY <1>1, <1>2, <1>3, <1>4, <1>6 DEF ApcInv, QueuedTo
<1>10. HeapHeld'
  BY <1>1, <1>2, <1>4, <1>6 DEF ApcInv, HeapHeld, HeldBy
<1>11. Rundown'
  <2>1. \A s \in Threads : \A b \in aChain[s] :
          aThread'[b] = aThread[b] /\ b \in aLive' /\ ~aEnqueued'[b]
    BY <1>1, <1>2, <1>4, <1>6, ChainsApart DEF ApcInv, Rundown, RundownOf
  <2> QED
    BY <1>1, <1>6, <2>1, RundownKeeps
<1> QED
  BY <1>6, <1>7, <1>8, <1>9, <1>10, <1>11 DEF ApcInv, RingInv

\* A timer is set.
LEMMA SetTimerStep ==
  ASSUME Apc!ApcAssumption, ApcInv, UNCHANGED aSetting,
         NoReuse, NEW t \in Threads, NEW a \in Apcs, Apc!SetTimer(t, a)
  PROVE  ApcInv'
<1>1. /\ KindOf(a) = "owned" /\ Apc!Untouched(a) /\ Apc!RemoveApc(a)
      /\ aHas' = aHas \cup {a} /\ aLive' = aLive \cup (IF a \in aHas THEN {} ELSE {a})
      /\ aTarget' = [aTarget EXCEPT ![a] = t] /\ aThread' = [aThread EXCEPT ![a] = t]
      /\ aArmed' = aArmed \cup {a}
      /\ UNCHANGED <<aMayQueue, aDisabled, aExecuting, aPc, aList, aApc, aFirst, aChain>>
  BY DEF Apc!SetTimer, Apc!walk
<1>2. \A s \in Threads : a \notin aChain[s]
  BY <1>1 DEF ApcInv, Apc!TypeOK, NoReuse, Apc!Untouched
<1>3. aThread \in [Apcs -> Threads \cup {None}] /\ None \notin Threads
  BY DEF ApcInv, Apc!TypeOK, Apc!ApcAssumption, Apcs
<1>12. aTarget'[a] = t /\ \A b \in Apcs \ {a} : KindOf(b) = "owned" => aTarget'[b] = aTarget[b]
  BY <1>1 DEF ApcInv, Apc!TypeOK, Apc!OfKind, Apcs
<1>4. aThread'[a] = t /\ \A b \in Apcs \ {a} : aThread'[b] = aThread[b]
  BY <1>1, <1>3
<1>5. \A s \in Threads, m \in {0, 1} : Apc!InUse(s, m)' <=> Apc!InUse(s, m)
  BY <1>1 DEF Apc!InUse
<1>6. /\ RingInv' /\ ChainsKept
      /\ \A b \in Apcs : aEnqueued'[b] <=> aEnqueued[b] /\ b # a
      /\ \A s \in Threads, m \in {0, 1} : Apc!Yanked(s, m)' = Apc!Yanked(s, m) \ {a}
  BY <1>1, <1>4, <1>5, TakenBack
<1>7. Apc!TypeOK'
  BY <1>1, <1>3, <1>6 DEF ApcInv, RingInv, LinksType, Apc!TypeOK, Apcs, Apc!Modes, Apc!OfKind
<1>8. Ended'
  BY <1>1, <1>5, <1>6 DEF ApcInv, Ended
<1>9. QueuedTo'
  BY <1>1, <1>2, <1>3, <1>4, <1>6, <1>12 DEF ApcInv, QueuedTo
<1>10. HeapHeld'
  BY <1>1, <1>2, <1>4, <1>6 DEF ApcInv, HeapHeld, HeldBy
<1>11. Rundown'
  <2>1. \A s \in Threads : \A b \in aChain[s] :
          aThread'[b] = aThread[b] /\ b \in aLive' /\ ~aEnqueued'[b]
    BY <1>1, <1>2, <1>4, <1>6, ChainsApart DEF ApcInv, Rundown, RundownOf
  <2> QED
    BY <1>1, <1>6, <2>1, RundownKeeps
<1> QED
  BY <1>6, <1>7, <1>8, <1>9, <1>10, <1>11 DEF ApcInv, RingInv

\* A timer expires.
LEMMA FiresStep ==
  ASSUME Apc!ApcAssumption, ApcInv, UNCHANGED aSetting,
         NEW a \in Apcs, Apc!Fires(a)
  PROVE  ApcInv'
<1>1. /\ a \in aArmed /\ aArmed' \subseteq aArmed
      /\ IF Apc!MayQueue(aThread[a], a) THEN Apc!Insert(aThread[a], a)
         ELSE UNCHANGED <<aFlink, aBlink, aEnqueued>>
      /\ UNCHANGED <<aThread, aLive, aMayQueue, aDisabled, aExecuting, aHas, aTarget,
                     aPc, aList, aApc, aFirst, aChain>>
  BY DEF Apc!Fires, Apc!walk, Apc!links
<1>15. UNCHANGED <<aThread, aLive, aMayQueue, aPc, aApc, aChain>>
  BY <1>1
<1> DEFINE t == aThread[a]
<1>12. /\ KindOf(a) = "owned" /\ t \in Threads /\ aTarget[a] = t /\ a \in aLive
  BY <1>1 DEF ApcInv, Apc!TypeOK, Apc!OfKind, Apc!ApcAssumption, QueuedTo
<1>2. aMayQueue[t] => \A s \in Threads : a \notin aChain[s]
  BY <1>12, ChainsApart DEF ApcInv, Rundown, RundownOf, Ended
<1>3. aThread \in [Apcs -> Threads \cup {None}] /\ None \notin Threads
  BY DEF ApcInv, Apc!TypeOK, Apc!ApcAssumption, Apcs
<1>4. \A b \in Apcs : aThread'[b] = aThread[b]
  BY <1>1
<1>5. \A s \in Threads, m \in {0, 1} : Apc!InUse(s, m)' <=> Apc!InUse(s, m)
  BY <1>1 DEF Apc!InUse
<1> HIDE DEF t
<1>13. CASE aMayQueue[t] /\ ~aEnqueued[a]
  <2>1. Apc!Insert(t, a)
    BY <1>1, <1>13 DEF Apc!MayQueue, t
  <2>2. aThread'[a] = t
    BY <1>1 DEF t
  <2>6. /\ RingInv' /\ ChainsKept /\ Apc!InUse(t, OfMode(a))
        /\ \A b \in Apcs : aEnqueued'[b] <=> aEnqueued[b] \/ b = a
        /\ \A s \in Threads, m \in {0, 1} :
             Apc!Yanked(s, m)' = IF s = t /\ m = OfMode(a) THEN Apc!Yanked(s, m) \cup {a}
                                 ELSE Apc!Yanked(s, m)
    BY <1>2, <1>4, <1>5, <1>12, <1>13, <2>1, <2>2, InsertKeeps
  <2>7. Apc!TypeOK'
    BY <1>1, <1>3, <2>6 DEF ApcInv, RingInv, LinksType, Apc!TypeOK, Apcs, Apc!Modes
  <2>8. Ended'
    BY <1>5, <2>6, <1>12, <1>15 DEF ApcInv, Ended
  <2>9. QueuedTo'
    BY <1>1, <1>2, <1>3, <1>4, <2>6, <1>12, <1>13 DEF ApcInv, QueuedTo, t
  <2>10. HeapHeld'
    BY <2>6, <1>12, <1>15 DEF ApcInv, HeapHeld, HeldBy
  <2>11. Rundown'
    <3>1. \A s \in Threads : \A b \in aChain[s] :
            aThread'[b] = aThread[b] /\ b \in aLive' /\ ~aEnqueued'[b]
      BY <1>1, <1>2, <1>4, <2>6, <1>13, ChainsApart DEF ApcInv, Rundown, RundownOf
    <3> QED
      BY <1>1, <2>6, <3>1, RundownKeeps
  <2> QED
    BY <2>6, <2>7, <2>8, <2>9, <2>10, <2>11 DEF ApcInv, RingInv
<1>14. CASE ~(aMayQueue[t] /\ ~aEnqueued[a])
  <2>1. UNCHANGED <<aFlink, aBlink, aEnqueued>>
    BY <1>1, <1>14 DEF Apc!MayQueue, t
  <2>6. /\ RingInv' /\ ChainsKept
        /\ \A s \in Threads, m \in {0, 1} : Apc!Yanked(s, m)' = Apc!Yanked(s, m)
    BY <1>4, <1>5, <2>1, SameKeeps
  <2>7. Apc!TypeOK'
    BY <1>1, <1>3, <2>6 DEF ApcInv, RingInv, LinksType, Apc!TypeOK, Apcs, Apc!Modes
  <2>8. Ended'
    BY <1>1, <1>5, <2>6 DEF ApcInv, Ended
  <2>9. QueuedTo'
    BY <1>1, <1>2, <1>3, <1>4, <2>1 DEF ApcInv, QueuedTo
  <2>10. HeapHeld'
    BY <1>1, <1>2, <1>4, <2>1 DEF ApcInv, HeapHeld, HeldBy
  <2>11. Rundown'
    <3>1. \A s \in Threads : \A b \in aChain[s] :
            aThread'[b] = aThread[b] /\ b \in aLive' /\ ~aEnqueued'[b]
      BY <1>1, <1>4, <2>1, ChainsApart DEF ApcInv, Rundown, RundownOf
    <3> QED
      BY <1>1, <2>6, <3>1, RundownKeeps
  <2> QED
    BY <2>6, <2>7, <2>8, <2>9, <2>10, <2>11 DEF ApcInv, RingInv
<1> QED
  BY <1>13, <1>14

\* A timer is cancelled.
LEMMA CancelTimerStep ==
  ASSUME Apc!ApcAssumption, ApcInv, UNCHANGED aSetting,
         NoReuse, NEW a \in Apcs, Apc!CancelTimer(a)
  PROVE  ApcInv'
<1>1. /\ KindOf(a) = "owned" /\ Apc!Untouched(a) /\ Apc!RemoveApc(a)
      /\ aTarget' = [aTarget EXCEPT ![a] = None] /\ aArmed' = aArmed \ {a}
      /\ UNCHANGED <<aThread, aLive, aMayQueue, aDisabled, aExecuting, aHas, aPc, aList, aApc,
                     aFirst, aChain>>
  BY DEF Apc!CancelTimer, Apc!Cancel, Apc!walk
<1>2. \A s \in Threads : a \notin aChain[s]
  BY <1>1 DEF ApcInv, Apc!TypeOK, NoReuse, Apc!Untouched
<1>3. aThread \in [Apcs -> Threads \cup {None}] /\ None \notin Threads
  BY DEF ApcInv, Apc!TypeOK, Apc!ApcAssumption, Apcs
<1>12. aTarget'[a] = None /\ \A b \in Apcs \ {a} : KindOf(b) = "owned" => aTarget'[b] = aTarget[b]
  BY <1>1 DEF ApcInv, Apc!TypeOK, Apc!OfKind, Apcs
<1>4. \A b \in Apcs \ {a} : aThread'[b] = aThread[b]
  BY <1>1
<1>5. \A s \in Threads, m \in {0, 1} : Apc!InUse(s, m)' <=> Apc!InUse(s, m)
  BY <1>1 DEF Apc!InUse
<1>6. /\ RingInv' /\ ChainsKept
      /\ \A b \in Apcs : aEnqueued'[b] <=> aEnqueued[b] /\ b # a
      /\ \A s \in Threads, m \in {0, 1} : Apc!Yanked(s, m)' = Apc!Yanked(s, m) \ {a}
  BY <1>1, <1>4, <1>5, TakenBack
<1>7. Apc!TypeOK'
  BY <1>1, <1>3, <1>6 DEF ApcInv, RingInv, LinksType, Apc!TypeOK, Apcs, Apc!Modes, Apc!OfKind
<1>8. Ended'
  BY <1>1, <1>5, <1>6 DEF ApcInv, Ended
<1>9. QueuedTo'
  BY <1>1, <1>2, <1>3, <1>4, <1>6, <1>12 DEF ApcInv, QueuedTo
<1>10. HeapHeld'
  BY <1>1, <1>2, <1>4, <1>6 DEF ApcInv, HeapHeld, HeldBy
<1>11. Rundown'
  <2>1. \A s \in Threads : \A b \in aChain[s] :
          aThread'[b] = aThread[b] /\ b \in aLive' /\ ~aEnqueued'[b]
    BY <1>1, <1>2, <1>4, <1>6, ChainsApart DEF ApcInv, Rundown, RundownOf
  <2> QED
    BY <1>1, <1>6, <2>1, RundownKeeps
<1> QED
  BY <1>6, <1>7, <1>8, <1>9, <1>10, <1>11 DEF ApcInv, RingInv

\* A timer is closed and frees its APC.
LEMMA CloseTimerStep ==
  ASSUME Apc!ApcAssumption, ApcInv, UNCHANGED aSetting,
         NoReuse, NEW a \in Apcs, Apc!CloseTimer(a)
  PROVE  ApcInv'
<1>1. /\ KindOf(a) = "owned" /\ Apc!Untouched(a) /\ Apc!RemoveApc(a)
      /\ aTarget' = [aTarget EXCEPT ![a] = None] /\ aArmed' = aArmed \ {a}
      /\ aHas' = aHas \ {a} /\ aLive' = aLive \ {a}
      /\ UNCHANGED <<aThread, aMayQueue, aDisabled, aExecuting, aPc, aList, aApc, aFirst, aChain>>
  BY DEF Apc!CloseTimer, Apc!Cancel, Apc!walk, ApcInv, Apc!TypeOK, Apc!OfKind
<1>2. \A s \in Threads : a \notin aChain[s]
  BY <1>1 DEF ApcInv, Apc!TypeOK, NoReuse, Apc!Untouched
<1>3. aThread \in [Apcs -> Threads \cup {None}] /\ None \notin Threads
  BY DEF ApcInv, Apc!TypeOK, Apc!ApcAssumption, Apcs
<1>12. aTarget'[a] = None /\ \A b \in Apcs \ {a} : KindOf(b) = "owned" => aTarget'[b] = aTarget[b]
  BY <1>1 DEF ApcInv, Apc!TypeOK, Apc!OfKind, Apcs
<1>4. \A b \in Apcs \ {a} : aThread'[b] = aThread[b]
  BY <1>1
<1>5. \A s \in Threads, m \in {0, 1} : Apc!InUse(s, m)' <=> Apc!InUse(s, m)
  BY <1>1 DEF Apc!InUse
<1>6. /\ RingInv' /\ ChainsKept
      /\ \A b \in Apcs : aEnqueued'[b] <=> aEnqueued[b] /\ b # a
      /\ \A s \in Threads, m \in {0, 1} : Apc!Yanked(s, m)' = Apc!Yanked(s, m) \ {a}
  BY <1>1, <1>4, <1>5, TakenBack
<1>7. Apc!TypeOK'
  BY <1>1, <1>3, <1>6 DEF ApcInv, RingInv, LinksType, Apc!TypeOK, Apcs, Apc!Modes, Apc!OfKind
<1>8. Ended'
  BY <1>1, <1>5, <1>6 DEF ApcInv, Ended
<1>9. QueuedTo'
  BY <1>1, <1>2, <1>3, <1>4, <1>6, <1>12 DEF ApcInv, QueuedTo
<1>10. HeapHeld'
  BY <1>1, <1>2, <1>4, <1>6 DEF ApcInv, HeapHeld, HeldBy
<1>11. Rundown'
  <2>1. \A s \in Threads : \A b \in aChain[s] :
          aThread'[b] = aThread[b] /\ b \in aLive' /\ ~aEnqueued'[b]
    BY <1>1, <1>2, <1>4, <1>6, ChainsApart DEF ApcInv, Rundown, RundownOf
  <2> QED
    BY <1>1, <1>6, <2>1, RundownKeeps
<1> QED
  BY <1>6, <1>7, <1>8, <1>9, <1>10, <1>11 DEF ApcInv, RingInv

\* A thread starts to deliver, or enters or leaves a critical region.
LEMMA GuestStep ==
  ASSUME Apc!ApcAssumption, ApcInv, UNCHANGED aSetting,
         NEW t \in Threads,
         (\E m \in {0, 1} : Apc!ProcessApcs(t, m)) \/ Apc!EnterCriticalRegion(t)
           \/ Apc!LeaveCriticalRegion(t)
  PROVE  ApcInv'
<1>0. /\ aPc \in [Threads -> {"guest", "deliver", "taken", "rundown", "walk", "drop", "exited",
                           "terminated"}]
      /\ aList \in [Threads -> {0, 1}]
      /\ {aMayQueue, aDisabled, aExecuting} \subseteq [Threads -> BOOLEAN]
      /\ {aApc, aFirst} \subseteq [Threads -> Apcs \cup {None}]
      /\ aChain \in [Threads -> SUBSET Apcs] /\ aLive \subseteq Apcs
  BY DEF ApcInv, Apc!TypeOK, Apc!Modes, Apcs
<1>1. /\ \A s \in Threads : aPc'[s] = aPc[s] \/ (aPc[s] = "guest" /\ aPc'[s] = "deliver")
      /\ aPc' \in [Threads -> {"guest", "deliver", "taken", "rundown", "walk", "drop", "exited",
                                "terminated"}]
      /\ aList' \in [Threads -> {0, 1}]
      /\ {aDisabled', aExecuting'} \subseteq [Threads -> BOOLEAN]
      /\ UNCHANGED <<aFlink, aBlink, aEnqueued, aThread, aLive, aMayQueue, aArmed, aHas, aTarget,
                     aApc, aFirst, aChain>>
  <2>1. \E p \in {"guest", "deliver"}, l \in {0, 1}, d \in BOOLEAN, e \in BOOLEAN :
          /\ aPc[t] = "guest" /\ aPc' = [aPc EXCEPT ![t] = p]
          /\ aList' = [aList EXCEPT ![t] = l] /\ aDisabled' = [aDisabled EXCEPT ![t] = d]
          /\ aExecuting' = [aExecuting EXCEPT ![t] = e]
          /\ UNCHANGED <<aFlink, aBlink, aEnqueued, aThread, aLive, aMayQueue, aArmed, aHas,
                         aTarget, aApc, aFirst, aChain>>
    <3>1. aList[t] \in {0, 1} /\ aDisabled[t] \in BOOLEAN /\ aExecuting[t] \in BOOLEAN
      BY <1>0
    <3>2. /\ aPc = [aPc EXCEPT ![t] = aPc[t]] /\ aList = [aList EXCEPT ![t] = aList[t]]
          /\ aDisabled = [aDisabled EXCEPT ![t] = aDisabled[t]]
          /\ aExecuting = [aExecuting EXCEPT ![t] = aExecuting[t]]
      BY <1>0
    <3>3. ASSUME NEW m \in {0, 1}, Apc!ProcessApcs(t, m)
          PROVE  /\ aPc[t] = "guest" /\ aPc' = [aPc EXCEPT ![t] = "deliver"]
                 /\ aList' = [aList EXCEPT ![t] = m]
                 /\ aDisabled' = [aDisabled EXCEPT ![t] = aDisabled[t]]
                 /\ aExecuting' = [aExecuting EXCEPT ![t] = (aExecuting[t] \/ m = 0)]
                 /\ UNCHANGED <<aFlink, aBlink, aEnqueued, aThread, aLive, aMayQueue, aArmed,
                                aHas, aTarget, aApc, aFirst, aChain>>
      BY <3>2, <3>3 DEF Apc!ProcessApcs, Apc!Goto, Apc!links, Apc!timers
    <3>4. CASE \E m \in {0, 1} : Apc!ProcessApcs(t, m)
      <4>1. PICK m \in {0, 1} : Apc!ProcessApcs(t, m)
        BY <3>4
      <4>2. (aExecuting[t] \/ m = 0) \in BOOLEAN
        OBVIOUS
      <4> QED
        BY <3>1, <3>3, <4>1, <4>2, Zenon
    <3>5. CASE Apc!EnterCriticalRegion(t)
      <4>1. /\ aPc[t] = "guest" /\ aDisabled' = [aDisabled EXCEPT ![t] = TRUE]
            /\ UNCHANGED <<aFlink, aBlink, aEnqueued, aThread, aLive, aMayQueue, aExecuting,
                           aArmed, aHas, aTarget, aPc, aList, aApc, aFirst, aChain>>
        BY <3>5 DEF Apc!EnterCriticalRegion, Apc!links, Apc!timers, Apc!walk
      <4>2. TRUE \in BOOLEAN /\ aPc[t] \in {"guest", "deliver"}
        BY <4>1
      <4>3. /\ aPc' = [aPc EXCEPT ![t] = aPc[t]] /\ aList' = [aList EXCEPT ![t] = aList[t]]
            /\ aExecuting' = [aExecuting EXCEPT ![t] = aExecuting[t]]
        BY <3>2, <4>1, Zenon
      <4> QED
        BY <3>1, <4>1, <4>2, <4>3, Zenon
    <3>6. CASE Apc!LeaveCriticalRegion(t)
      <4> DEFINE runs == ~aExecuting[t] /\ ~Apc!Empty(<<t, 0>>)
      <4>1. /\ aPc[t] = "guest" /\ aDisabled' = [aDisabled EXCEPT ![t] = FALSE]
            /\ aPc' = [aPc EXCEPT ![t] = IF runs THEN "deliver" ELSE aPc[t]]
            /\ aList' = [aList EXCEPT ![t] = IF runs THEN 0 ELSE aList[t]]
            /\ aExecuting' = [aExecuting EXCEPT ![t] = (aExecuting[t] \/ runs)]
            /\ UNCHANGED <<aFlink, aBlink, aEnqueued, aThread, aLive, aMayQueue,
                           aArmed, aHas, aTarget, aApc, aFirst, aChain>>
        BY <3>6 DEF Apc!LeaveCriticalRegion, Apc!links, Apc!timers
      <4>2. /\ FALSE \in BOOLEAN /\ (aExecuting[t] \/ runs) \in BOOLEAN
            /\ (IF runs THEN "deliver" ELSE aPc[t]) \in {"guest", "deliver"}
            /\ (IF runs THEN 0 ELSE aList[t]) \in {0, 1}
        <5> HIDE DEF runs
        <5> QED
          BY <3>1, <4>1
      <4> HIDE DEF runs
      <4> QED
        BY <4>1, <4>2, Zenon
    <3> QED
      BY <3>4, <3>5, <3>6
  <2> QED
    BY <1>0, <2>1
<1>5. \A s \in Threads, m \in {0, 1} : Apc!InUse(s, m)' <=> Apc!InUse(s, m)
  BY <1>0, <1>1 DEF Apc!InUse
<1>6. /\ RingInv' /\ ChainsKept
      /\ \A s \in Threads, k \in {0, 1} : Apc!Yanked(s, k)' = Apc!Yanked(s, k)
  BY <1>1, <1>5, SameKeeps
<1>7. Apc!TypeOK'
  BY <1>0, <1>1, <1>6 DEF ApcInv, RingInv, LinksType, Apc!TypeOK, Apcs, Apc!Modes
<1>8. Ended'
  BY <1>0, <1>1, <1>5, <1>6 DEF ApcInv, Ended
<1>9. QueuedTo'
  BY <1>1, <1>6 DEF ApcInv, QueuedTo
<1>10. HeapHeld'
  BY <1>0, <1>1, <1>6 DEF ApcInv, HeapHeld, HeldBy
<1>11. Rundown'
  <2>1. \A s \in Threads : \A b \in aChain[s] :
          aThread'[b] = aThread[b] /\ b \in aLive' /\ ~aEnqueued'[b]
    BY <1>1, <1>6, ChainsApart DEF ApcInv, Rundown, RundownOf
  <2> QED
    BY <1>0, <1>1, <1>6, <2>1, RundownKeeps
<1> QED
  BY <1>6, <1>7, <1>8, <1>9, <1>10, <1>11 DEF ApcInv, RingInv

\* A thread takes the first APC of the list it delivers.
LEMMA TakeStep ==
  ASSUME Apc!ApcAssumption, ApcInv, UNCHANGED aSetting,
         NEW t \in Threads, Apc!Take(t)
  PROVE  ApcInv'
<1>0. /\ aPc \in [Threads -> {"guest", "deliver", "taken", "rundown", "walk", "drop", "exited",
                           "terminated"}]
      /\ aList \in [Threads -> {0, 1}]
      /\ {aMayQueue, aDisabled, aExecuting} \subseteq [Threads -> BOOLEAN]
      /\ {aApc, aFirst} \subseteq [Threads -> Apcs \cup {None}]
      /\ aChain \in [Threads -> SUBSET Apcs] /\ aLive \subseteq Apcs
  BY DEF ApcInv, Apc!TypeOK, Apc!Modes, Apcs
<1> DEFINE m == aList[t]
           h == <<t, m>>
           a == aFlink[h]
<1>12. m \in {0, 1} /\ aPc[t] = "deliver" /\ Apc!InUse(t, m)
  BY <1>0 DEF Apc!Take, Apc!InUse
<1>13. CASE Apc!Empty(h)
  <2>1. /\ aPc' = [aPc EXCEPT ![t] = "guest"]
        /\ aExecuting' = [aExecuting EXCEPT ![t] = @ /\ m # 0]
        /\ UNCHANGED <<aFlink, aBlink, aEnqueued, aThread, aLive, aMayQueue, aDisabled, aArmed,
                       aHas, aTarget, aList, aApc, aFirst, aChain>>
    BY <1>13 DEF Apc!Take, Apc!Goto, Apc!links, Apc!timers
  <2>5. \A s \in Threads, k \in {0, 1} : Apc!InUse(s, k)' <=> Apc!InUse(s, k)
    BY <1>0, <1>12, <2>1 DEF Apc!InUse
  <2>6. /\ RingInv' /\ ChainsKept
        /\ \A s \in Threads, k \in {0, 1} : Apc!Yanked(s, k)' = Apc!Yanked(s, k)
    BY <2>1, <2>5, SameKeeps
  <2>7. Apc!TypeOK'
    BY <1>0, <2>1, <2>6 DEF ApcInv, RingInv, LinksType, Apc!TypeOK, Apcs, Apc!Modes
  <2>8. Ended'
    BY <1>0, <1>12, <2>1, <2>5, <2>6 DEF ApcInv, Ended
  <2>9. QueuedTo'
    BY <2>1, <2>6 DEF ApcInv, QueuedTo
  <2>10. HeapHeld'
    BY <1>0, <1>12, <2>1, <2>6 DEF ApcInv, HeapHeld, HeldBy
  <2>11. Rundown'
    <3>1. \A s \in Threads : \A b \in aChain[s] :
            aThread'[b] = aThread[b] /\ b \in aLive' /\ ~aEnqueued'[b]
      BY <2>1, <2>6, ChainsApart DEF ApcInv, Rundown, RundownOf
    <3> QED
      BY <1>0, <1>12, <2>1, <2>6, <3>1, RundownKeeps
  <2> QED
    BY <2>6, <2>7, <2>8, <2>9, <2>10, <2>11 DEF ApcInv, RingInv
<1>14. CASE ~Apc!Empty(h)
  <2>1. /\ Apc!RemoveEntry(a) /\ aEnqueued' = [aEnqueued EXCEPT ![a] = FALSE]
        /\ aApc' = [aApc EXCEPT ![t] = a] /\ aPc' = [aPc EXCEPT ![t] = "taken"]
        /\ UNCHANGED <<aThread, aLive, aMayQueue, aDisabled, aExecuting, aArmed, aHas, aTarget,
                       aList, aFirst, aChain>>
    BY <1>14 DEF Apc!Take, Apc!Goto, Apc!timers
  <2>2. a \in Apc!Yanked(t, m)
    <3>1. RingOf(aFlink, aBlink, h, Apc!Ring(t, m))
      BY <1>12 DEF ApcInv, RingsHold
    <3>2. a \in Apc!Ring(t, m) /\ a # h
      BY <3>1, <1>14 DEF RingOf, Apc!Empty
    <3> QED
      BY <3>2 DEF Apc!Ring
  <2>3. a \in Apcs /\ aEnqueued[a] /\ aThread[a] = t /\ a \in aLive
    <3>1. a \in Apcs /\ aEnqueued[a] /\ aThread[a] = t
      BY <2>2 DEF Apc!Yanked, Apcs
    <3> QED
      BY <3>1 DEF ApcInv, QueuedTo
  <2> HIDE DEF a, m
  <2>5. \A s \in Threads, k \in {0, 1} : Apc!InUse(s, k)' <=> Apc!InUse(s, k)
    BY <1>0, <1>12, <2>1 DEF Apc!InUse
  <2>6. /\ RingInv' /\ ChainsKept
        /\ \A b \in Apcs : aEnqueued'[b] <=> aEnqueued[b] /\ b # a
        /\ \A s \in Threads, k \in {0, 1} : Apc!Yanked(s, k)' = Apc!Yanked(s, k) \ {a}
    BY <2>1, <2>3, <2>5, RemoveKeeps
  <2>7. Apc!TypeOK'
    BY <1>0, <2>1, <2>3, <2>6 DEF ApcInv, RingInv, LinksType, Apc!TypeOK, Apcs, Apc!Modes
  <2>8. Ended'
    BY <1>0, <1>12, <2>1, <2>5, <2>6 DEF ApcInv, Ended
  <2>9. QueuedTo'
    BY <2>1, <2>6 DEF ApcInv, QueuedTo
  <2>10. HeapHeld'
    BY <1>0, <1>12, <2>1, <2>3, <2>6 DEF ApcInv, HeapHeld, HeldBy
  <2>11. Rundown'
    <3>1. \A s \in Threads : \A b \in aChain[s] :
            aThread'[b] = aThread[b] /\ b \in aLive' /\ ~aEnqueued'[b]
      BY <2>1, <2>6, ChainsApart DEF ApcInv, Rundown, RundownOf
    <3> QED
      BY <1>0, <1>12, <2>1, <2>6, <3>1, RundownKeeps
  <2> QED
    BY <2>6, <2>7, <2>8, <2>9, <2>10, <2>11 DEF ApcInv, RingInv
<1> QED
  BY <1>13, <1>14

\* It runs the APC it took, and frees it if it is of the heap.
LEMMA RunStep ==
  ASSUME Apc!ApcAssumption, ApcInv, UNCHANGED aSetting,
         NEW t \in Threads, Apc!Run(t)
  PROVE  ApcInv'
<1>0. /\ aPc \in [Threads -> {"guest", "deliver", "taken", "rundown", "walk", "drop", "exited",
                           "terminated"}]
      /\ aList \in [Threads -> {0, 1}]
      /\ {aMayQueue, aDisabled, aExecuting} \subseteq [Threads -> BOOLEAN]
      /\ {aApc, aFirst} \subseteq [Threads -> Apcs \cup {None}]
      /\ aChain \in [Threads -> SUBSET Apcs] /\ aLive \subseteq Apcs
  BY DEF ApcInv, Apc!TypeOK, Apc!Modes, Apcs
<1>1. /\ aPc[t] = "taken" /\ aLive' = aLive \ {a \in {aApc[t]} : KindOf(a) = "heap"}
      /\ aApc' = [aApc EXCEPT ![t] = None] /\ aPc' = [aPc EXCEPT ![t] = "deliver"]
      /\ UNCHANGED <<aFlink, aBlink, aEnqueued, aThread, aMayQueue, aDisabled, aExecuting, aArmed,
                     aHas, aTarget, aList, aFirst, aChain>>
  BY DEF Apc!Run, Apc!Goto, Apc!links, Apc!timers
<1> DEFINE a == aApc[t]
<1>2. /\ a \in Apcs
      /\ KindOf(a) = "heap" => aThread[a] = t /\ a \in aLive /\ ~aEnqueued[a]
  BY <1>1 DEF ApcInv, HeapHeld
<1> HIDE DEF a
<1>4. /\ aLive' = IF KindOf(a) = "heap" THEN aLive \ {a} ELSE aLive
      /\ aPc[t] = "taken" /\ aChain[t] = {} /\ a # None
  BY <1>1, <1>2 DEF a, ApcInv, Rundown, RundownOf, Apc!ApcAssumption, Apcs
<1>3. \A s \in Threads : \A b \in aChain[s] : b \in aLive'
  <2>1. SUFFICES ASSUME NEW s \in Threads, NEW b \in aChain[s] PROVE b \in aLive'
    OBVIOUS
  <2>2. aThread[b] = s /\ b \in aLive /\ s # t
    BY <1>4, ChainsApart DEF ApcInv, Rundown, RundownOf
  <2> QED
    BY <1>2, <1>4, <2>2
<1>5. \A s \in Threads, m \in {0, 1} : Apc!InUse(s, m)' <=> Apc!InUse(s, m)
  BY <1>0, <1>1 DEF Apc!InUse
<1>6. /\ RingInv' /\ ChainsKept
      /\ \A s \in Threads, k \in {0, 1} : Apc!Yanked(s, k)' = Apc!Yanked(s, k)
  BY <1>1, <1>5, SameKeeps
<1>7. Apc!TypeOK'
  BY <1>0, <1>1, <1>6 DEF ApcInv, RingInv, LinksType, Apc!TypeOK, Apcs, Apc!Modes
<1>8. Ended'
  BY <1>0, <1>1, <1>5, <1>6 DEF ApcInv, Ended
<1>12. aHas \subseteq aLive'
  BY <1>2, <1>4 DEF ApcInv, QueuedTo, Apc!TypeOK, Apc!OfKind
<1>9. QueuedTo'
  BY <1>1, <1>2, <1>4, <1>6, <1>12 DEF ApcInv, QueuedTo
<1>10. HeapHeld'
  BY <1>0, <1>1, <1>2, <1>4, <1>6 DEF ApcInv, HeapHeld, HeldBy
<1>11. Rundown'
  <2>1. \A s \in Threads : \A b \in aChain[s] :
          aThread'[b] = aThread[b] /\ b \in aLive' /\ ~aEnqueued'[b]
    BY <1>1, <1>3, <1>6, ChainsApart DEF ApcInv, Rundown, RundownOf
  <2> QED
    BY <1>0, <1>1, <1>6, <2>1, RundownKeeps
<1> QED
  BY <1>6, <1>7, <1>8, <1>9, <1>10, <1>11 DEF ApcInv, RingInv

\* A thread exits, is terminated or dies.
LEMMA EndStep ==
  ASSUME Apc!ApcAssumption, ApcInv, UNCHANGED aSetting,
         NEW t \in Threads, Apc!Exit(t) \/ Apc!Terminate(t) \/ Apc!Dies(t)
  PROVE  ApcInv'
<1>0. /\ aPc \in [Threads -> {"guest", "deliver", "taken", "rundown", "walk", "drop", "exited",
                           "terminated"}]
      /\ aList \in [Threads -> {0, 1}]
      /\ {aMayQueue, aDisabled, aExecuting} \subseteq [Threads -> BOOLEAN]
      /\ {aApc, aFirst} \subseteq [Threads -> Apcs \cup {None}]
      /\ aChain \in [Threads -> SUBSET Apcs] /\ aLive \subseteq Apcs
  BY DEF ApcInv, Apc!TypeOK, Apc!Modes, Apcs
<1>1. /\ \A s \in Threads : \/ aPc'[s] = aPc[s]
                              \/ (aPc[s] = "guest" /\ aPc'[s] \in {"rundown", "terminated"})
                              \/ (aPc[s] = "taken" /\ aPc'[s] = "terminated")
      /\ aPc' \in [Threads -> {"guest", "deliver", "taken", "rundown", "walk", "drop", "exited",
                                "terminated"}]
      /\ aMayQueue' \in [Threads -> BOOLEAN]
      /\ \A s \in Threads : ~aMayQueue[s] => ~aMayQueue'[s]
      /\ \A s \in Threads : aPc'[s] # aPc[s] => ~aMayQueue'[s]
      /\ UNCHANGED <<aFlink, aBlink, aEnqueued, aThread, aLive, aDisabled, aExecuting, aArmed,
                     aHas, aTarget, aList, aApc, aFirst, aChain>>
  <2>1. CASE Apc!Exit(t)
    <3>1. /\ aPc[t] = "guest" /\ aPc' = [aPc EXCEPT ![t] = "rundown"]
          /\ aMayQueue' = [aMayQueue EXCEPT ![t] = FALSE]
          /\ UNCHANGED <<aFlink, aBlink, aEnqueued, aThread, aLive, aDisabled, aExecuting, aArmed,
                         aHas, aTarget, aList, aApc, aFirst, aChain>>
      BY <2>1 DEF Apc!Exit, Apc!Goto, Apc!links, Apc!timers, Apc!walk
    <3> QED
      BY <1>0, <3>1
  <2>2. CASE Apc!Terminate(t)
    <3>1. /\ aMayQueue' = [aMayQueue EXCEPT ![t] = FALSE]
          /\ UNCHANGED <<aFlink, aBlink, aEnqueued, aThread, aLive, aDisabled, aExecuting, aArmed,
                         aHas, aTarget, aPc, aList, aApc, aFirst, aChain>>
      BY <2>2 DEF Apc!Terminate, Apc!links, Apc!timers, Apc!walk
    <3> QED
      BY <1>0, <3>1
  <2>3. CASE Apc!Dies(t)
    <3>1. /\ aPc[t] \in {"guest", "taken"} /\ aPc' = [aPc EXCEPT ![t] = "terminated"]
          /\ ~aMayQueue[t]
          /\ UNCHANGED <<aFlink, aBlink, aEnqueued, aThread, aLive, aMayQueue, aDisabled,
                         aExecuting, aArmed, aHas, aTarget, aList, aApc, aFirst, aChain>>
      BY <2>3 DEF Apc!Dies, Apc!Goto, Apc!links, Apc!timers, Apc!walk
    <3> QED
      BY <1>0, <3>1
  <2> QED
    BY <2>1, <2>2, <2>3
<1>5. \A s \in Threads, m \in {0, 1} : Apc!InUse(s, m)' <=> Apc!InUse(s, m)
  BY <1>0, <1>1 DEF Apc!InUse
<1>6. /\ RingInv' /\ ChainsKept
      /\ \A s \in Threads, k \in {0, 1} : Apc!Yanked(s, k)' = Apc!Yanked(s, k)
  BY <1>1, <1>5, SameKeeps
<1>7. Apc!TypeOK'
  BY <1>0, <1>1, <1>6 DEF ApcInv, RingInv, LinksType, Apc!TypeOK, Apcs, Apc!Modes
<1>8. Ended'
  BY <1>0, <1>1, <1>5, <1>6 DEF ApcInv, Ended
<1>9. QueuedTo'
  BY <1>1, <1>6 DEF ApcInv, QueuedTo
<1>10. HeapHeld'
  BY <1>0, <1>1, <1>6 DEF ApcInv, HeapHeld, HeldBy
<1>11. Rundown'
  <2>1. \A s \in Threads : \A b \in aChain[s] :
          aThread'[b] = aThread[b] /\ b \in aLive' /\ ~aEnqueued'[b]
    BY <1>1, <1>6, ChainsApart DEF ApcInv, Rundown, RundownOf
  <2> QED
    BY <1>0, <1>1, <1>6, <2>1, RundownKeeps
<1> QED
  BY <1>6, <1>7, <1>8, <1>9, <1>10, <1>11 DEF ApcInv, RingInv

\* The user APCs of a thread that exits leave its list.
LEMMA YankUserStep ==
  ASSUME Apc!ApcAssumption, ApcInv, UNCHANGED aSetting,
         NEW t \in Threads, Apc!YankUserApcs(t)
  PROVE  ApcInv'
<1>0. /\ aPc \in [Threads -> {"guest", "deliver", "taken", "rundown", "walk", "drop", "exited",
                           "terminated"}]
      /\ aList \in [Threads -> {0, 1}]
      /\ {aMayQueue, aDisabled, aExecuting} \subseteq [Threads -> BOOLEAN]
      /\ {aApc, aFirst} \subseteq [Threads -> Apcs \cup {None}]
      /\ aChain \in [Threads -> SUBSET Apcs] /\ aLive \subseteq Apcs
  BY DEF ApcInv, Apc!TypeOK, Apc!Modes, Apcs
<1> DEFINE h == <<t, 1>>
           a == aFlink[h]
           y == Apc!Yanked(t, 1)
<1>1. /\ aPc[t] = "rundown" /\ Apc!Yank(t, 1)
      /\ UNCHANGED <<aThread, aLive, aMayQueue, aDisabled, aExecuting, aArmed, aHas, aTarget,
                     aList>>
  BY DEF Apc!YankUserApcs, Apc!timers
<1>4. y \subseteq Apcs /\ a \in Apc!Ring(t, 1) /\ (~Apc!Empty(h) => a \in y)
  <2>1. RingOf(aFlink, aBlink, h, Apc!Ring(t, 1))
    BY <1>1 DEF ApcInv, RingsHold, Apc!InUse
  <2> QED
    BY <2>1 DEF RingOf, Apc!Ring, Apc!Yanked, Apc!Empty, Apcs
<1>2. /\ aPc' = [aPc EXCEPT ![t] = IF Apc!Empty(h) THEN "drop" ELSE "walk"]
      /\ IF Apc!Empty(h) THEN UNCHANGED <<aApc, aFirst, aChain>>
         ELSE /\ aApc' = [aApc EXCEPT ![t] = a] /\ aFirst' = [aFirst EXCEPT ![t] = a]
              /\ aChain' = [aChain EXCEPT ![t] = y]
  BY DEF Apc!YankUserApcs, Apc!Goto
<1>5. \A s \in Threads, m \in {0, 1} :
        Apc!InUse(s, m)' => Apc!InUse(s, m) /\ ~(s = t /\ m = 1)
  BY <1>0, <1>1, <1>2 DEF Apc!InUse
<1>6. /\ RingInv' /\ ChainsKept
      /\ \A b \in Apcs : aEnqueued'[b] <=> aEnqueued[b] /\ b \notin y
      /\ \A s \in Threads, m \in {0, 1} :
           Apc!Yanked(s, m)' = IF s = t /\ m = 1 THEN {} ELSE Apc!Yanked(s, m)
      /\ ~Apc!Empty(h) => ChainOf(aFlink', a, a, y)
  BY <1>1, <1>5, YankKeeps DEF Apc!InUse
<1>3. /\ \A b \in y : b \in Apcs /\ aEnqueued[b] /\ aThread[b] = t /\ OfMode(b) = 1 /\ b \in aLive
      /\ \A b \in Apcs : aEnqueued[b] /\ aThread[b] = t /\ OfMode(b) = 1 => b \in y
      /\ Apc!Empty(h) => y = {}
      /\ aChain[t] = {} /\ \A b \in y : \A s \in Threads \ {t} : b \notin aChain[s]
  <2>1. \A b \in y : b \in Apcs /\ aEnqueued[b] /\ aThread[b] = t /\ OfMode(b) = 1
    BY DEF Apc!Yanked, Apcs, OfMode
  <2>2. \A b \in Apcs : aEnqueued[b] /\ aThread[b] = t /\ OfMode(b) = 1 => b \in y
    BY DEF Apc!Yanked, Apcs, OfMode
  <2>3. aChain[t] = {} /\ \A b \in y : \A s \in Threads \ {t} : b \notin aChain[s]
    BY <1>1, <2>1, ChainsApart DEF ApcInv, Rundown, RundownOf
  <2>4. \A b \in y : b \in aLive
    BY <2>1 DEF ApcInv, QueuedTo
  <2>5. Apc!Empty(h) => y = {}
    <3>1. SUFFICES ASSUME Apc!Empty(h) PROVE y = {}
      OBVIOUS
    <3>2. RingOf(aFlink, aBlink, h, Apc!Ring(t, 1))
      BY <1>1 DEF ApcInv, RingsHold, Apc!InUse
    <3>3. {h} \in SUBSET Apc!Ring(t, 1) /\ (\A n \in {h} : aFlink[n] \in {h}) /\ h \in {h}
      BY <3>1, <3>2 DEF Apc!Empty, RingOf
    <3>4. {h} = Apc!Ring(t, 1)
      <4> HIDE DEF h
      <4> QED
        BY <3>2, <3>3 DEF RingOf
    <3>5. h \notin Apcs
      BY ApcTypes
    <3> QED
      BY <3>4, <3>5, <1>4 DEF Apc!Ring
  <2> QED
    BY <2>1, <2>2, <2>3, <2>4, <2>5
<1> HIDE DEF a, y, h
<1>7. Apc!TypeOK'
  BY <1>0, <1>1, <1>2, <1>3, <1>4, <1>6
     DEF ApcInv, RingInv, LinksType, Apc!TypeOK, Apcs, Apc!Modes
<1>8. Ended'
  <2> SUFFICES ASSUME NEW s \in Threads
               PROVE  /\ aPc'[s] \in {"rundown", "walk", "drop", "exited", "terminated"}
                           => ~aMayQueue'[s]
                      /\ \A m \in {0, 1} : ~Apc!InUse(s, m)' => Apc!Yanked(s, m)' = {}
    BY DEF Ended
  <2>1. /\ aPc[s] \in {"rundown", "walk", "drop", "exited", "terminated"} => ~aMayQueue[s]
        /\ \A m \in {0, 1} : ~Apc!InUse(s, m) => Apc!Yanked(s, m) = {}
    BY DEF ApcInv, Ended
  <2>2. CASE s = t
    BY <1>0, <1>1, <1>2, <1>6, <2>1, <2>2 DEF Apc!InUse
  <2>3. CASE s # t
    BY <1>0, <1>1, <1>2, <1>6, <2>1, <2>3 DEF Apc!InUse
  <2> QED
    BY <2>2, <2>3
<1>9. QueuedTo'
  BY <1>1, <1>2, <1>3, <1>6 DEF ApcInv, QueuedTo
<1>10. HeapHeld'
  <2>1. \A b \in Apcs : KindOf(b) = "heap" /\ b \in aLive =>
          aThread[b] \in Threads /\ HeldBy(b, aThread[b])
    BY DEF ApcInv, HeapHeld
  <2>2. \A s \in Threads : aPc[s] = "taken" =>
          /\ aApc[s] \in Apcs
          /\ KindOf(aApc[s]) = "heap" =>
               aThread[aApc[s]] = s /\ aApc[s] \in aLive /\ ~aEnqueued[aApc[s]]
    BY DEF ApcInv, HeapHeld
  <2>3. \A b \in Apcs : KindOf(b) = "heap" /\ b \in aLive' =>
          aThread'[b] \in Threads /\ HeldBy(b, aThread[b])'
    <3> SUFFICES ASSUME NEW b \in Apcs, KindOf(b) = "heap", b \in aLive'
                 PROVE  aThread'[b] \in Threads /\ HeldBy(b, aThread[b])'
      OBVIOUS
    <3>1. aThread[b] \in Threads /\ HeldBy(b, aThread[b]) /\ aThread'[b] = aThread[b]
      BY <2>1, <1>1, <1>3
    <3>2. CASE aThread[b] = t
      BY <3>1, <3>2, <1>0, <1>1, <1>2, <1>3, <1>6, ApcTypes DEF HeldBy
    <3>3. CASE aThread[b] # t
      BY <3>1, <3>3, <1>0, <1>1, <1>2, <1>3, <1>6, ApcTypes DEF HeldBy
    <3> QED
      BY <3>2, <3>3
  <2>4. \A s \in Threads : aPc'[s] = "taken" => aPc[s] = "taken" /\ s # t /\ aApc'[s] = aApc[s]
    BY <1>0, <1>1, <1>2
  <2>5. \A b \in Apcs : aEnqueued'[b] => aEnqueued[b]
    BY <1>6
  <2>6. \A s \in Threads : aPc'[s] = "taken" =>
          /\ aApc'[s] \in Apcs
          /\ KindOf(aApc'[s]) = "heap" =>
               aThread'[aApc'[s]] = s /\ aApc'[s] \in aLive' /\ ~aEnqueued'[aApc'[s]]
    BY <1>1, <1>3, <2>2, <2>4, <2>5
  <2> QED
    BY <2>3, <2>6 DEF HeapHeld, KindOf, Apcs
<1>11. Rundown'
  <2>1. ASSUME NEW s \in Threads \ {t} PROVE RundownOf(s)'
    <3>1. \A b \in aChain[s] : aThread'[b] = aThread[b] /\ b \in aLive' /\ ~aEnqueued'[b]
      <4>1. \A b \in aChain[s] : b \in Apcs /\ aThread[b] = s /\ b \in aLive /\ ~aEnqueued[b]
        BY ChainsApart DEF ApcInv, Rundown, RundownOf
      <4> QED
        BY <4>1, <1>1, <1>3, <1>6
    <3> QED
      BY <1>0, <1>1, <1>2, <1>6, <3>1, RundownOfKeeps
  <2>2. RundownOf(t)'
    <3>1. CASE Apc!Empty(h)
      <4>1. aPc'[t] = "drop" /\ aChain'[t] = {}
        BY <1>0, <1>2, <1>3, <3>1
      <4> QED
        BY <4>1 DEF RundownOf
    <3>2. CASE ~Apc!Empty(h)
      <4>1. aPc'[t] = "walk" /\ aChain'[t] = y /\ aFirst'[t] = a /\ aApc'[t] = a /\ a \in Apcs
        BY <1>0, <1>2, <1>4, <3>2
      <4>2. \A b \in y : aThread'[b] = t /\ b \in aLive' /\ ~aEnqueued'[b] /\ OfMode(b) = 1
        BY <1>1, <1>3, <1>6
      <4> QED
        BY <4>1, <4>2, <1>6, <3>2 DEF RundownOf, OfMode, Apc!Mode, Apcs
    <3> QED
      BY <3>1, <3>2
  <2> QED
    BY <2>1, <2>2 DEF Rundown
<1> QED
  BY <1>6, <1>7, <1>8, <1>9, <1>10, <1>11 DEF ApcInv, RingInv

\* The run-down passes an APC, and frees it if it is of the heap.
LEMMA WalkStep ==
  ASSUME Apc!ApcAssumption, ApcInv, UNCHANGED aSetting,
         NEW t \in Threads, Apc!Walk(t)
  PROVE  ApcInv'
<1>0. /\ aPc \in [Threads -> {"guest", "deliver", "taken", "rundown", "walk", "drop", "exited",
                           "terminated"}]
      /\ aList \in [Threads -> {0, 1}]
      /\ {aMayQueue, aDisabled, aExecuting} \subseteq [Threads -> BOOLEAN]
      /\ {aApc, aFirst} \subseteq [Threads -> Apcs \cup {None}]
      /\ aChain \in [Threads -> SUBSET Apcs] /\ aLive \subseteq Apcs
  BY DEF ApcInv, Apc!TypeOK, Apc!Modes, Apcs
<1> DEFINE a == aApc[t]
           next == aFlink[a]
           ends == next = aFirst[t]
<1>1. /\ aPc[t] = "walk" /\ aLive' = aLive \ {x \in {a} : KindOf(x) = "heap"}
      /\ UNCHANGED <<aFlink, aBlink, aEnqueued, aThread, aMayQueue, aDisabled, aExecuting, aArmed,
                     aHas, aTarget, aList, aFirst>>
  BY DEF Apc!Walk, Apc!FreedByRundown, Apc!links, Apc!timers
<1>2. /\ aPc' = IF ends THEN [aPc EXCEPT ![t] = "drop"] ELSE aPc
      /\ aChain' = [aChain EXCEPT ![t] = IF ends THEN {} ELSE aChain[t] \ {a}]
      /\ aApc' = [aApc EXCEPT ![t] = IF ends THEN None ELSE next]
  BY DEF Apc!Walk, Apc!Goto
<1>12. RundownOf(t) /\ ChainOf(aFlink, a, aFirst[t], aChain[t]) /\ aChain[t] \subseteq Apcs
  BY <1>0, <1>1 DEF ApcInv, Rundown, RundownOf
<1>3. /\ a \in aChain[t] /\ a \in Apcs /\ aThread[a] = t /\ a \in aLive /\ ~aEnqueued[a]
      /\ aLive' = IF KindOf(a) = "heap" THEN aLive \ {a} ELSE aLive
      /\ aHas \subseteq aLive'
      /\ ends => aChain[t] = {a}
      /\ ~ends => ChainOf(aFlink, next, aFirst[t], aChain[t] \ {a}) /\ next \in Apcs
  <2>1. a \in aChain[t] /\ a \in Apcs /\ aThread[a] = t /\ a \in aLive /\ ~aEnqueued[a]
    BY <1>1, <1>12 DEF RundownOf, ChainOf
  <2>2. IF ends THEN aChain[t] = {a} ELSE ChainOf(aFlink, next, aFirst[t], aChain[t] \ {a})
    BY <1>12, ChainWalk
  <2>3. ~ends => next \in Apcs
    BY <2>2, <1>12 DEF ChainOf
  <2>4. aLive' = IF KindOf(a) = "heap" THEN aLive \ {a} ELSE aLive
    BY <1>1
  <2>5. aHas \subseteq aLive'
    BY <2>4 DEF ApcInv, QueuedTo, Apc!TypeOK, Apc!OfKind
  <2> QED
    BY <2>1, <2>2, <2>3, <2>4, <2>5
<1>4. aLive' \subseteq Apcs /\ (~ends => next \in Apcs) /\ aChain[t] \ {a} \subseteq Apcs
  BY <1>0, <1>3, <1>12
<1>5. \A s \in Threads, m \in {0, 1} : Apc!InUse(s, m)' <=> Apc!InUse(s, m)
  BY <1>0, <1>1, <1>2 DEF Apc!InUse
<1> HIDE DEF a, next, ends
<1>6. /\ RingInv' /\ ChainsKept
      /\ \A s \in Threads, k \in {0, 1} : Apc!Yanked(s, k)' = Apc!Yanked(s, k)
      /\ \A b \in Apcs : aEnqueued'[b] <=> aEnqueued[b]
  BY <1>1, <1>5, SameKeeps
<1>7. Apc!TypeOK'
  BY <1>0, <1>1, <1>2, <1>3, <1>4, <1>6
     DEF ApcInv, RingInv, LinksType, Apc!TypeOK, Apcs, Apc!Modes
<1>8. Ended'
  <2> SUFFICES ASSUME NEW s \in Threads
               PROVE  /\ aPc'[s] \in {"rundown", "walk", "drop", "exited", "terminated"}
                           => ~aMayQueue'[s]
                      /\ \A m \in {0, 1} : ~Apc!InUse(s, m)' => Apc!Yanked(s, m)' = {}
    BY DEF Ended
  <2>1. /\ aPc[s] \in {"rundown", "walk", "drop", "exited", "terminated"} => ~aMayQueue[s]
        /\ \A m \in {0, 1} : ~Apc!InUse(s, m) => Apc!Yanked(s, m) = {}
    BY DEF ApcInv, Ended
  <2>2. CASE s = t
    BY <1>0, <1>1, <1>2, <1>6, <2>1, <2>2 DEF Apc!InUse
  <2>3. CASE s # t
    BY <1>0, <1>1, <1>2, <1>6, <2>1, <2>3 DEF Apc!InUse
  <2> QED
    BY <2>2, <2>3
<1>9. QueuedTo'
  BY <1>1, <1>2, <1>3, <1>6 DEF ApcInv, QueuedTo
<1>10. HeapHeld'
  <2>1. \A b \in Apcs : KindOf(b) = "heap" /\ b \in aLive =>
          aThread[b] \in Threads /\ HeldBy(b, aThread[b])
    BY DEF ApcInv, HeapHeld
  <2>2. \A s \in Threads : aPc[s] = "taken" =>
          /\ aApc[s] \in Apcs
          /\ KindOf(aApc[s]) = "heap" =>
               aThread[aApc[s]] = s /\ aApc[s] \in aLive /\ ~aEnqueued[aApc[s]]
    BY DEF ApcInv, HeapHeld
  <2>3. \A b \in Apcs : KindOf(b) = "heap" /\ b \in aLive' =>
          aThread'[b] \in Threads /\ HeldBy(b, aThread[b])'
    <3> SUFFICES ASSUME NEW b \in Apcs, KindOf(b) = "heap", b \in aLive'
                 PROVE  aThread'[b] \in Threads /\ HeldBy(b, aThread[b])'
      OBVIOUS
    <3>1. aThread[b] \in Threads /\ HeldBy(b, aThread[b]) /\ aThread'[b] = aThread[b]
      BY <2>1, <1>1, <1>3
    <3>2. CASE aThread[b] = t
      BY <3>1, <3>2, <1>0, <1>1, <1>2, <1>3, <1>6, ApcTypes DEF HeldBy
    <3>3. CASE aThread[b] # t
      BY <3>1, <3>3, <1>0, <1>1, <1>2, <1>3, <1>6, ApcTypes DEF HeldBy
    <3> QED
      BY <3>2, <3>3
  <2>4. \A s \in Threads : aPc'[s] = "taken" => aPc[s] = "taken" /\ s # t /\ aApc'[s] = aApc[s]
    BY <1>0, <1>1, <1>2
  <2>5. \A b \in Apcs : aEnqueued'[b] => aEnqueued[b]
    BY <1>6
  <2>6. \A s \in Threads : aPc'[s] = "taken" =>
          /\ aApc'[s] \in Apcs
          /\ KindOf(aApc'[s]) = "heap" =>
               aThread'[aApc'[s]] = s /\ aApc'[s] \in aLive' /\ ~aEnqueued'[aApc'[s]]
    BY <1>1, <1>3, <2>2, <2>4, <2>5
  <2> QED
    BY <2>3, <2>6 DEF HeapHeld, KindOf, Apcs
<1>11. Rundown'
  <2>1. ASSUME NEW s \in Threads \ {t} PROVE RundownOf(s)'
    <3>1. \A b \in aChain[s] : aThread'[b] = aThread[b] /\ b \in aLive' /\ ~aEnqueued'[b]
      <4>1. \A b \in aChain[s] : b \in Apcs /\ aThread[b] = s /\ b \in aLive /\ ~aEnqueued[b]
        BY ChainsApart DEF ApcInv, Rundown, RundownOf
      <4> QED
        BY <4>1, <1>1, <1>3, <1>6
    <3> QED
      BY <1>0, <1>1, <1>2, <1>6, <3>1, RundownOfKeeps
  <2>2. RundownOf(t)'
    <3>1. CASE ends
      <4>1. aPc'[t] = "drop" /\ aChain'[t] = {}
        BY <1>0, <1>2, <3>1
      <4> QED
        BY <4>1 DEF RundownOf
    <3>2. CASE ~ends
      <4>1. /\ aPc'[t] = "walk" /\ aChain'[t] = aChain[t] \ {a}
            /\ aFirst'[t] = aFirst[t] /\ aApc'[t] = next
        BY <1>0, <1>1, <1>2, <3>2
      <4>2. \A b \in aChain[t] \ {a} :
              aThread'[b] = t /\ b \in aLive' /\ ~aEnqueued'[b] /\ OfMode(b) = 1
        BY <1>1, <1>3, <1>12 DEF RundownOf
      <4>3. aFirst[t] \in Apcs
        BY <1>1, <1>12 DEF RundownOf
      <4> QED
        BY <4>1, <4>2, <4>3, <1>1, <1>3, <3>2 DEF RundownOf, OfMode, Apc!Mode, Apcs
    <3> QED
      BY <3>1, <3>2
  <2> QED
    BY <2>1, <2>2 DEF Rundown
<1> QED
  BY <1>6, <1>7, <1>8, <1>9, <1>10, <1>11 DEF ApcInv, RingInv

\* The kernel APCs of a thread that exits leave its list.
LEMMA YankKernelStep ==
  ASSUME Apc!ApcAssumption, ApcInv, UNCHANGED aSetting,
         NEW t \in Threads, Apc!YankKernelApcs(t)
  PROVE  ApcInv'
<1>0. /\ aPc \in [Threads -> {"guest", "deliver", "taken", "rundown", "walk", "drop", "exited",
                           "terminated"}]
      /\ aList \in [Threads -> {0, 1}]
      /\ {aMayQueue, aDisabled, aExecuting} \subseteq [Threads -> BOOLEAN]
      /\ {aApc, aFirst} \subseteq [Threads -> Apcs \cup {None}]
      /\ aChain \in [Threads -> SUBSET Apcs] /\ aLive \subseteq Apcs
  BY DEF ApcInv, Apc!TypeOK, Apc!Modes, Apcs
<1> DEFINE y == Apc!Yanked(t, 0)
<1>1. /\ aPc[t] = "drop" /\ Apc!Yank(t, 0)
      /\ UNCHANGED <<aThread, aLive, aMayQueue, aDisabled, aExecuting, aArmed, aHas, aTarget,
                     aList, aApc, aFirst, aChain>>
  BY DEF Apc!YankKernelApcs, Apc!timers, Apc!walk
<1>2. aPc' = [aPc EXCEPT ![t] = "exited"]
  BY DEF Apc!YankKernelApcs, Apc!Goto
<1>4. Apc!InUse(t, 0)
  BY <1>1 DEF Apc!InUse
<1>5. \A s \in Threads, m \in {0, 1} :
        Apc!InUse(s, m)' => Apc!InUse(s, m) /\ ~(s = t /\ m = 0)
  BY <1>0, <1>1, <1>2 DEF Apc!InUse
<1>6. /\ RingInv' /\ ChainsKept
      /\ \A b \in Apcs : aEnqueued'[b] <=> aEnqueued[b] /\ b \notin y
      /\ \A s \in Threads, m \in {0, 1} :
           Apc!Yanked(s, m)' = IF s = t /\ m = 0 THEN {} ELSE Apc!Yanked(s, m)
  BY <1>1, <1>4, <1>5, YankKeeps
<1>3. /\ \A b \in y : b \in Apcs /\ aEnqueued[b] /\ aThread[b] = t /\ OfMode(b) = 0
      /\ aChain[t] = {}
  <2>1. \A b \in y : b \in Apcs /\ aEnqueued[b] /\ aThread[b] = t /\ OfMode(b) = 0
    BY DEF Apc!Yanked, Apcs, OfMode
  <2> QED
    BY <1>1, <2>1 DEF ApcInv, Rundown, RundownOf
<1> HIDE DEF y
<1>7. Apc!TypeOK'
  BY <1>0, <1>1, <1>2, <1>3, <1>4, <1>6
     DEF ApcInv, RingInv, LinksType, Apc!TypeOK, Apcs, Apc!Modes
<1>8. Ended'
  <2> SUFFICES ASSUME NEW s \in Threads
               PROVE  /\ aPc'[s] \in {"rundown", "walk", "drop", "exited", "terminated"}
                           => ~aMayQueue'[s]
                      /\ \A m \in {0, 1} : ~Apc!InUse(s, m)' => Apc!Yanked(s, m)' = {}
    BY DEF Ended
  <2>1. /\ aPc[s] \in {"rundown", "walk", "drop", "exited", "terminated"} => ~aMayQueue[s]
        /\ \A m \in {0, 1} : ~Apc!InUse(s, m) => Apc!Yanked(s, m) = {}
    BY DEF ApcInv, Ended
  <2>2. CASE s = t
    BY <1>0, <1>1, <1>2, <1>6, <2>1, <2>2 DEF Apc!InUse
  <2>3. CASE s # t
    BY <1>0, <1>1, <1>2, <1>6, <2>1, <2>3 DEF Apc!InUse
  <2> QED
    BY <2>2, <2>3
<1>9. QueuedTo'
  BY <1>1, <1>2, <1>3, <1>6 DEF ApcInv, QueuedTo
<1>10. HeapHeld'
  <2>1. \A b \in Apcs : KindOf(b) = "heap" /\ b \in aLive =>
          aThread[b] \in Threads /\ HeldBy(b, aThread[b])
    BY DEF ApcInv, HeapHeld
  <2>2. \A s \in Threads : aPc[s] = "taken" =>
          /\ aApc[s] \in Apcs
          /\ KindOf(aApc[s]) = "heap" =>
               aThread[aApc[s]] = s /\ aApc[s] \in aLive /\ ~aEnqueued[aApc[s]]
    BY DEF ApcInv, HeapHeld
  <2>3. \A b \in Apcs : KindOf(b) = "heap" /\ b \in aLive' =>
          aThread'[b] \in Threads /\ HeldBy(b, aThread[b])'
    <3> SUFFICES ASSUME NEW b \in Apcs, KindOf(b) = "heap", b \in aLive'
                 PROVE  aThread'[b] \in Threads /\ HeldBy(b, aThread[b])'
      OBVIOUS
    <3>1. aThread[b] \in Threads /\ HeldBy(b, aThread[b]) /\ aThread'[b] = aThread[b]
      BY <2>1, <1>1, <1>3
    <3>2. CASE aThread[b] = t
      BY <3>1, <3>2, <1>0, <1>1, <1>2, <1>3, <1>6, ApcTypes DEF HeldBy
    <3>3. CASE aThread[b] # t
      BY <3>1, <3>3, <1>0, <1>1, <1>2, <1>3, <1>6, ApcTypes DEF HeldBy
    <3> QED
      BY <3>2, <3>3
  <2>4. \A s \in Threads : aPc'[s] = "taken" => aPc[s] = "taken" /\ s # t /\ aApc'[s] = aApc[s]
    BY <1>0, <1>1, <1>2
  <2>5. \A b \in Apcs : aEnqueued'[b] => aEnqueued[b]
    BY <1>6
  <2>6. \A s \in Threads : aPc'[s] = "taken" =>
          /\ aApc'[s] \in Apcs
          /\ KindOf(aApc'[s]) = "heap" =>
               aThread'[aApc'[s]] = s /\ aApc'[s] \in aLive' /\ ~aEnqueued'[aApc'[s]]
    BY <1>1, <1>3, <2>2, <2>4, <2>5
  <2> QED
    BY <2>3, <2>6 DEF HeapHeld, KindOf, Apcs
<1>11. Rundown'
  <2>1. ASSUME NEW s \in Threads \ {t} PROVE RundownOf(s)'
    <3>1. \A b \in aChain[s] : aThread'[b] = aThread[b] /\ b \in aLive' /\ ~aEnqueued'[b]
      <4>1. \A b \in aChain[s] : b \in Apcs /\ aThread[b] = s /\ b \in aLive /\ ~aEnqueued[b]
        BY ChainsApart DEF ApcInv, Rundown, RundownOf
      <4> QED
        BY <4>1, <1>1, <1>3, <1>6
    <3> QED
      BY <1>0, <1>1, <1>2, <1>6, <3>1, RundownOfKeeps
  <2>2. RundownOf(t)'
    BY <1>0, <1>1, <1>2, <1>3 DEF RundownOf
  <2> QED
    BY <2>1, <2>2 DEF Rundown
<1> QED
  BY <1>6, <1>7, <1>8, <1>9, <1>10, <1>11 DEF ApcInv, RingInv

-----------------------------------------------------------------------------
LEMMA ApcInit == ASSUME Apc!ApcAssumption, Apc!Init PROVE ApcInv
<1>1. /\ aFlink = [n \in Apc!Nodes |-> n] /\ aBlink = [n \in Apc!Nodes |-> n]
      /\ aEnqueued = [a \in Apcs |-> FALSE] /\ aThread = [a \in Apcs |-> None]
      /\ aLive = Apc!OfKind("special") \cup Apc!OfKind("normal")
      /\ aHas = {} /\ aArmed = {} /\ aTarget = [a \in Apc!OfKind("owned") |-> None]
      /\ aPc = [t \in Threads |-> "guest"] /\ aChain = [t \in Threads |-> {}]
  BY DEF Apc!Init, Apcs
<1>2. \A k \in {"heap", "owned", "special", "normal"} :
        Apc!OfKind(k) = {a \in Apcs : KindOf(a) = k}
  BY DEF Apc!OfKind, Apcs
<1>3. \A a \in Apcs : KindOf(a) \in {"heap", "owned", "special", "normal"}
  BY DEF Apc!ApcAssumption, Apcs
<1>4. Apc!TypeOK
  BY <1>2 DEF Apc!Init, Apc!TypeOK, Apcs, Apc!Modes
<1>5. RingsHold
  <2> SUFFICES ASSUME NEW t \in Threads, NEW m \in {0, 1}
               PROVE  RingOf(aFlink, aBlink, <<t, m>>, Apc!Ring(t, m))
    BY DEF RingsHold
  <2>1. Apc!Yanked(t, m) = {}
    BY <1>1 DEF Apc!Yanked, Apcs
  <2>2. Apc!Ring(t, m) = {<<t, m>>} /\ <<t, m>> \in Apc!Nodes
    BY <2>1, ApcTypes DEF Apc!Ring
  <2> QED
    BY <1>1, <2>2 DEF RingOf
<1>6. Apc!SpecialsFirst /\ Ended
  <2>1. \A a \in Apcs : ~aEnqueued[a]
    BY <1>1
  <2>2. Apc!SpecialsFirst
    BY <2>1 DEF Apc!SpecialsFirst, Apcs
  <2>3. \A t \in Threads, m \in {0, 1} : Apc!Yanked(t, m) = {}
    BY <2>1 DEF Apc!Yanked, Apcs
  <2> QED
    BY <1>1, <2>2, <2>3 DEF Ended
<1>7. QueuedTo
  BY <1>1, <1>2, <1>3 DEF QueuedTo
<1>8. HeapHeld
  BY <1>1, <1>2, <1>3 DEF HeapHeld
<1>9. Rundown
  BY <1>1 DEF Rundown, RundownOf
<1> QED
  BY <1>4, <1>5, <1>6, <1>7, <1>8, <1>9 DEF ApcInv

LEMMA ApcNext ==
  ASSUME Apc!ApcAssumption, NoReuse, ApcInv, Apc!Next
  PROVE  ApcInv'
<1>0. UNCHANGED aSetting /\ aSetting.apcs \subseteq Apcs
  BY DEF Apc!Next, ApcInv, Apc!TypeOK, Apc!ApcAssumption, Apcs
<1>1. ASSUME NEW t \in Threads, NEW a \in Apcs,
             Apc!QueueApc(t, a) \/ Apc!SetTimer(t, a)
             \/ \E self \in BOOLEAN : Apc!KeInsertQueueApc(t, a, self)
      PROVE  ApcInv'
  BY <1>0, <1>1, QueueApcStep, SetTimerStep, KeInsertStep
<1>2. ASSUME NEW a \in Apcs, Apc!KeRemoveQueueApc(a) \/ Apc!Fires(a) \/ Apc!CancelTimer(a)
                             \/ Apc!CloseTimer(a)
      PROVE  ApcInv'
  BY <1>0, <1>2, KeRemoveStep, FiresStep, CancelTimerStep, CloseTimerStep
<1>3. ASSUME NEW t \in Threads,
             \/ (\E m \in {0, 1} : Apc!ProcessApcs(t, m)) \/ Apc!Take(t) \/ Apc!Run(t)
             \/ Apc!EnterCriticalRegion(t) \/ Apc!LeaveCriticalRegion(t)
             \/ Apc!Exit(t) \/ Apc!YankUserApcs(t) \/ Apc!Walk(t) \/ Apc!YankKernelApcs(t)
             \/ Apc!Terminate(t) \/ Apc!Dies(t)
      PROVE  ApcInv'
  BY <1>0, <1>3, GuestStep, TakeStep, RunStep, EndStep, YankUserStep, WalkStep, YankKernelStep
<1> QED
  BY <1>0, <1>1, <1>2, <1>3 DEF Apc!Next, Apc!Step, Apc!Modes

LEMMA ApcSound ==
  ASSUME Apc!ApcAssumption, ApcInv
  PROVE  ApcsSound
<1>1. Apc!ListsSound
  <2> SUFFICES ASSUME NEW t \in Threads, NEW m \in {0, 1}, Apc!InUse(t, m)
               PROVE  Apc!IsRing(<<t, m>>, Apc!Ring(t, m))
    BY DEF Apc!ListsSound, Apc!Modes
  <2>1. RingOf(aFlink, aBlink, <<t, m>>, Apc!Ring(t, m))
    BY DEF ApcInv, RingsHold
  <2> QED
    BY <2>1 DEF RingOf, Apc!IsRing
<1>2. Apc!NoUseAfterFree
  <2>1. \A a \in Apcs : aEnqueued[a] => a \in aLive
    BY DEF ApcInv, QueuedTo
  <2>2. \A t \in Threads :
          aPc[t] = "taken" /\ KindOf(aApc[t]) = "heap" => aApc[t] \in aLive /\ ~aEnqueued[aApc[t]]
    BY DEF ApcInv, HeapHeld
  <2>3. \A t \in Threads : aPc[t] = "walk" => aApc[t] \in aLive /\ aApc[t] \in aChain[t]
    BY DEF ApcInv, Rundown, RundownOf, ChainOf
  <2> QED
    BY <2>1, <2>2, <2>3 DEF Apc!NoUseAfterFree, Apcs
<1>3. Apc!RundownFreesAll
  <2> SUFFICES ASSUME NEW t \in Threads, NEW a \in Apcs, aPc[t] = "exited", aThread[a] = t
               PROVE  ~aEnqueued[a] /\ (KindOf(a) = "heap" => a \notin aLive)
    BY DEF Apc!RundownFreesAll, Apcs
  <2>1. ~aEnqueued[a]
    BY QueuedInRing DEF Apc!InUse
  <2>2. aChain[t] = {}
    BY DEF ApcInv, Rundown, RundownOf
  <2> QED
    BY <2>1, <2>2 DEF ApcInv, HeapHeld, HeldBy
<1>4. Apc!OwnerCanRemove
  <2>1. \A a \in Apcs : KindOf(a) = "owned" /\ aEnqueued[a] => aTarget[a] = aThread[a]
    BY DEF ApcInv, QueuedTo, Apc!ApcAssumption
  <2> QED
    BY <2>1 DEF Apc!OwnerCanRemove, Apc!OfKind, Apcs
<1> QED
  BY <1>1, <1>2, <1>3, <1>4 DEF ApcsSound, ApcInv

\* Whatever is queued, removed, delivered, set, cancelled, closed and run down in whatever
\* order, the lists are sound, nothing freed is used and a thread that exited leaves nothing:
\* for any numbers of threads and of APCs of each kind.
THEOREM ListsAreSound == ASSUME NoReuse PROVE MCSpec => []ApcsSound
<1>1. MCInit => ApcInv
  BY ApcInit, ApcsOK DEF MCInit
<1>2. ApcInv /\ [MCNext]_<<model, vars, aVars>> => ApcInv'
  <2> SUFFICES ASSUME ApcInv, [MCNext]_<<model, vars, aVars>> PROVE ApcInv'
    OBVIOUS
  <2>1. CASE Apc!Next
    BY <2>1, ApcNext, ApcsOK
  <2>2. CASE UNCHANGED aVars
    <3>1. \A t \in Threads, m \in {0, 1} :
            /\ Apc!Yanked(t, m)' = Apc!Yanked(t, m)
            /\ Apc!Ring(t, m)' = Apc!Ring(t, m) /\ Apc!InUse(t, m)' = Apc!InUse(t, m)
      BY <2>2 DEF Apc!Ring, Apc!Yanked, Apc!InUse, aVars, Apc!Mode
    <3>2. Apc!TypeOK' /\ Apc!SpecialsFirst'
      BY <2>2 DEF ApcInv, Apc!TypeOK, Apc!SpecialsFirst, aVars, Apc!Nodes, Apc!Heads, Apc!Modes,
                  Apc!OfKind
    <3>3. RingsHold' /\ Ended'
      BY <2>2, <3>1 DEF ApcInv, RingsHold, Ended, aVars
    <3>4. QueuedTo' /\ HeapHeld' /\ Rundown'
      BY <2>2 DEF ApcInv, QueuedTo, HeapHeld, HeldBy, Rundown, RundownOf, aVars, Apcs, OfMode,
                  Apc!Mode
    <3> QED
      BY <3>2, <3>3, <3>4 DEF ApcInv
  <2> QED
    BY <2>1, <2>2 DEF MCNext, aVars
<1>3. ApcInv => ApcsSound
  BY ApcSound, ApcsOK
<1> QED
  BY <1>1, <1>2, <1>3, PTL DEF MCSpec
================================================================================
