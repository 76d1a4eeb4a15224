------------------------- MODULE GuestSchedulerProofs -------------------------
(***************************************************************************)
(* The lists of the scheduler agree with the links of its threads, for any *)
(* CPUs, threads, callers and workloads, and no dispatch thread sleeps     *)
(* through work.                                                           *)
(*                                                                         *)
(* That a thread is on one list rests on who may touch it: a thread that   *)
(* runs is linked to the CPU whose dispatch thread stands on it (Own), one *)
(* that a walk has moved aside is only moved by the walker (Walk), and one *)
(* that nobody created yet is nowhere (Fresh).                             *)
(***************************************************************************)
EXTENDS SchedulerProperties, WellFoundedInduction, TLAPS

-----------------------------------------------------------------------------
(* Lists. *)

\* An element of a list is at one of its indices.
LEMMA ElemAt ==
  ASSUME NEW S, NEW s \in Seq(S), NEW i \in 1..Len(s)
  PROVE  s[i] \in Elems(s)
  BY DEF Elems

\* LinkTailLocked: appending keeps the type, adds one element and, when it was not there,
\* no duplicate.
LEMMA LinkTailElems ==
  ASSUME NEW S, NEW s \in Seq(S), NEW t \in S
  PROVE  /\ LinkTail(s, t) \in Seq(S)
         /\ Elems(LinkTail(s, t)) = Elems(s) \cup {t}
         /\ Distinct(s) /\ t \notin Elems(s) => Distinct(LinkTail(s, t))
<1> DEFINE h == Append(s, t)
<1>1. /\ h \in Seq(S) /\ Len(h) = Len(s) + 1 /\ h[Len(s) + 1] = t
      /\ \A i \in 1..Len(s) : h[i] = s[i]
  OBVIOUS
<1> HIDE DEF h
<1>2. Elems(h) = Elems(s) \cup {t}
  <2>1. \A x \in Elems(h) : x \in Elems(s) \cup {t}
    BY <1>1 DEF Elems
  <2>2. ASSUME NEW x \in Elems(s) PROVE x \in Elems(h)
    <3>1. PICK i \in 1..Len(s) : s[i] = x
      BY DEF Elems
    <3> QED BY <3>1, <1>1, ElemAt
  <2>3. t \in Elems(h)
    BY <1>1, ElemAt
  <2> QED BY <2>1, <2>2, <2>3
<1>3. ASSUME Distinct(s), t \notin Elems(s) PROVE Distinct(h)
  BY <1>1, <1>3 DEF Distinct, Elems
<1> QED BY <1>1, <1>2, <1>3 DEF LinkTail, h

\* LinkHeadLocked: the same at the front.
LEMMA LinkHeadElems ==
  ASSUME NEW S, NEW s \in Seq(S), NEW t \in S
  PROVE  /\ LinkHead(s, t) \in Seq(S)
         /\ Elems(LinkHead(s, t)) = Elems(s) \cup {t}
         /\ Distinct(s) /\ t \notin Elems(s) => Distinct(LinkHead(s, t))
<1> DEFINE h == <<t>> \o s
<1>1. h \in Seq(S) /\ Len(h) = Len(s) + 1 /\ h[1] = t
  OBVIOUS
<1>2. \A i \in 1..Len(s) : h[i + 1] = s[i]
  OBVIOUS
<1> HIDE DEF h
<1>3. ASSUME NEW i \in 2..Len(h) PROVE i - 1 \in 1..Len(s) /\ h[i] = s[i - 1]
  <2>1. i - 1 \in 1..Len(s) /\ (i - 1) + 1 = i
    BY <1>1
  <2>2. h[(i - 1) + 1] = s[i - 1]
    BY <2>1, <1>2
  <2> QED BY <2>1, <2>2
<1>4. Elems(h) = Elems(s) \cup {t}
  <2>1. \A x \in Elems(h) : x \in Elems(s) \cup {t}
    BY <1>1, <1>3 DEF Elems
  <2>2. ASSUME NEW x \in Elems(s) PROVE x \in Elems(h)
    <3>1. PICK i \in 1..Len(s) : s[i] = x
      BY DEF Elems
    <3>2. i + 1 \in 1..Len(h) /\ h[i + 1] = x
      BY <3>1, <1>1, <1>2
    <3> QED BY <3>2, <1>1, ElemAt
  <2>3. t \in Elems(h)
    BY <1>1, ElemAt
  <2> QED BY <2>1, <2>2, <2>3
<1>5. ASSUME Distinct(s), t \notin Elems(s) PROVE Distinct(h)
  <2> SUFFICES ASSUME NEW i \in 1..Len(h), NEW j \in 1..Len(h), h[i] = h[j] PROVE i = j
    BY <1>1 DEF Distinct
  <2>1. CASE i = 1 /\ j = 1
    BY <2>1
  <2>2. CASE i # 1 /\ j # 1
    BY <2>2, <1>3, <1>5 DEF Distinct
  <2>3. CASE i = 1 /\ j # 1
    BY <2>3, <1>1, <1>3, <1>5 DEF Elems
  <2>4. CASE i # 1 /\ j = 1
    BY <2>4, <1>1, <1>3, <1>5 DEF Elems
  <2> QED BY <2>1, <2>2, <2>3, <2>4
<1> QED BY <1>1, <1>4, <1>5 DEF LinkHead, h

\* Dropping the head of a duplicate-free list drops exactly that element.
LEMMA TailElems ==
  ASSUME NEW S, NEW s \in Seq(S), s # <<>>
  PROVE  /\ Head(s) \in S /\ Head(s) \in Elems(s) /\ Tail(s) \in Seq(S)
         /\ Distinct(s) => Elems(Tail(s)) = Elems(s) \ {Head(s)} /\ Distinct(Tail(s))
<1>1. /\ Tail(s) \in Seq(S) /\ Len(Tail(s)) = Len(s) - 1 /\ Len(s) >= 1
      /\ \A i \in 1..(Len(s) - 1) : Tail(s)[i] = s[i + 1]
  OBVIOUS
<1>2. Head(s) = s[1] /\ Head(s) \in S /\ Head(s) \in Elems(s)
  BY DEF Elems
<1>3. ASSUME Distinct(s) PROVE Elems(Tail(s)) = Elems(s) \ {Head(s)} /\ Distinct(Tail(s))
  <2>1. \A x \in Elems(Tail(s)) : x \in Elems(s) \ {Head(s)}
    BY <1>1, <1>2, <1>3 DEF Elems, Distinct
  <2>2. ASSUME NEW x \in Elems(s) \ {Head(s)} PROVE x \in Elems(Tail(s))
    <3>1. PICK i \in 1..Len(s) : s[i] = x
      BY DEF Elems
    <3>2. i - 1 \in 1..(Len(s) - 1) /\ Tail(s)[i - 1] = x
      BY <3>1, <1>1, <1>2
    <3> QED BY <3>2, <1>1, ElemAt
  <2>3. Distinct(Tail(s))
    BY <1>1, <1>3 DEF Distinct
  <2> QED BY <2>1, <2>2, <2>3
<1> QED BY <1>1, <1>2, <1>3

\* UnlinkLocked closes the gap at the one place where t is linked.
LEMMA UnlinkAt ==
  ASSUME NEW S, NEW s \in Seq(S), NEW t \in Elems(s), Distinct(s)
  PROVE  \E k \in 1..Len(s) :
           /\ s[k] = t
           /\ Unlink(s, t) = [j \in 1..(Len(s) - 1) |-> IF j < k THEN s[j] ELSE s[j + 1]]
<1> DEFINE P(i) == s[i] = t /\ \A j \in DOMAIN s : j < i => s[j] # t
           k == CHOOSE i \in DOMAIN s : P(i)
<1>1. PICK i \in 1..Len(s) : s[i] = t
  BY DEF Elems
<1>2. P(i)
  BY <1>1 DEF Distinct
<1>3. k \in 1..Len(s) /\ s[k] = t
  BY <1>2
<1>4. Unlink(s, t) = [j \in 1..(Len(s) - 1) |-> IF j < k THEN s[j] ELSE s[j + 1]]
  BY DEF Unlink
<1> QED BY <1>3, <1>4

\* Exactly t leaves a duplicate-free list, whether it was linked or not.
LEMMA UnlinkElems ==
  ASSUME NEW S, NEW s \in Seq(S), NEW t, Distinct(s)
  PROVE  /\ Unlink(s, t) \in Seq(S)
         /\ Elems(Unlink(s, t)) = Elems(s) \ {t}
         /\ Distinct(Unlink(s, t))
<1>1. CASE t \notin Elems(s)
  BY <1>1 DEF Unlink
<1>2. CASE t \in Elems(s)
  <2>1. PICK k \in 1..Len(s) :
          /\ s[k] = t
          /\ Unlink(s, t) = [j \in 1..(Len(s) - 1) |-> IF j < k THEN s[j] ELSE s[j + 1]]
    BY <1>2, UnlinkAt
  <2> DEFINE u == [j \in 1..(Len(s) - 1) |-> IF j < k THEN s[j] ELSE s[j + 1]]
  <2>2. u \in Seq(S) /\ Len(u) = Len(s) - 1 /\ DOMAIN u = 1..(Len(s) - 1)
    OBVIOUS
  <2>3. \A x \in Elems(u) : x \in Elems(s) \ {t}
    BY <2>1, <2>2 DEF Elems, Distinct
  <2>4. ASSUME NEW x \in Elems(s) \ {t} PROVE x \in Elems(u)
    <3>1. PICK m \in 1..Len(s) : s[m] = x
      BY DEF Elems
    <3>2. m # k
      BY <3>1, <2>1
    <3>3. CASE m < k
      <4>1. m \in 1..(Len(s) - 1) /\ u[m] = x
        BY <3>3, <3>1
      <4> QED BY <4>1, <2>2, ElemAt
    <3>4. CASE m > k
      <4>1. m - 1 \in 1..(Len(s) - 1) /\ u[m - 1] = x
        BY <3>4, <3>1
      <4> QED BY <4>1, <2>2, ElemAt
    <3> QED BY <3>2, <3>3, <3>4
  <2>5. Distinct(u)
    BY <2>1, <2>2 DEF Distinct
  <2> QED BY <2>1, <2>2, <2>3, <2>4, <2>5
<1> QED BY <1>1, <1>2

-----------------------------------------------------------------------------
(* The invariant. *)

ReadyMatch ==
  \A c \in Cpus, p \in Prios :
    /\ Distinct(ready[c][p])
    /\ Elems(ready[c][p]) = {t \in Threads : queued[t] /\ linkCpu[t] = c /\ queuedPrio[t] = p}
BlockedMatch ==
  \A c \in Cpus :
    /\ Distinct(blockedList[c]) /\ Distinct(kept[c])
    /\ Elems(blockedList[c]) \cap Elems(kept[c]) = {}
    /\ Elems(blockedList[c]) \cup Elems(kept[c]) =
         {t \in Threads : blocked[t] /\ linkCpu[t] = c}
SuspendedMatch ==
  \A c \in Cpus :
    /\ Distinct(suspendedList[c])
    /\ Elems(suspendedList[c]) = {t \in Threads : suspended[t] /\ linkCpu[t] = c}
OnOneList ==
  \A t \in Threads :
    /\ ~(queued[t] /\ blocked[t]) /\ ~(queued[t] /\ suspended[t])
    /\ ~(blocked[t] /\ suspended[t])
    /\ queued[t] \/ blocked[t] \/ suspended[t] => linkCpu[t] \in Cpus
Lists == ReadyMatch /\ SummaryExact /\ BlockedMatch /\ SuspendedMatch /\ OnOneList

\* A thread runs on the CPU it is linked to.
Own ==
  /\ \A c \in Cpus : pc[c] \in Standing =>
       /\ next[c] \in Threads /\ running[next[c]] /\ linkCpu[next[c]] = c
       /\ pc[c] # "back" =>
            ~queued[next[c]] /\ ~blocked[next[c]] /\ ~suspended[next[c]]
  /\ \A t \in Threads : running[t] =>
       linkCpu[t] \in Cpus /\ pc[linkCpu[t]] \in Standing /\ next[linkCpu[t]] = t

\* A call is about a thread that was created.
Calls ==
  \A k \in Callers :
    /\ callPc[k] # "idle" => callThread[k] \in Threads /\ fiberAt[callThread[k]] # "none"
    /\ callPc[k] = "enqueue" => callCpu[k] \in Cpus
Fresh ==
  \A t \in Threads : fiberAt[t] = "none" =>
    ~queued[t] /\ ~blocked[t] /\ ~suspended[t] /\ ~running[t]

\* One dispatch thread walks, and has moved threads aside only then.
Walk ==
  \A c \in Cpus : /\ pc[c] = "reready" => walker = c
                  /\ pc[c] # "reready" => kept[c] = <<>>
Homes == \A c \in Cpus : pc[c] = "migrate" => home[c] \in Cpus

Control ==
  Own /\ YielderIsReadyHere /\ QueuedAtItsPriority /\ Calls /\ Fresh /\ Walk /\ Homes

IInv == TypeOK /\ Lists /\ Control

\* It says what the properties say.
LEMMA IInvSays == IInv => ListsConsistent
<1> SUFFICES ASSUME IInv PROVE ListsConsistent
  OBVIOUS
<1>1. LinksMatchLists
  BY DEF IInv, Lists, ReadyMatch, BlockedMatch, SuspendedMatch, OnOneList, LinksMatchLists
<1>2. OneDispatcher
  <2>1. Own /\ \A c \in Cpus : c \in Cpus
    BY DEF IInv, Control
  <2> QED
    BY <2>1 DEF Own, OneDispatcher
<1> QED
  BY <1>1, <1>2 DEF IInv, Lists, Control, ListsConsistent

-----------------------------------------------------------------------------
(* Ready lists. *)

\* Levels are numbers, so that there is a lowest and a highest one.
LEMMA LowestIs == ASSUME NEW S, S \subseteq Nat, S # {} PROVE Lowest(S) \in S
<1> DEFINE Less == {p \in Nat \X Nat : p[1] < p[2]}
<1>1. IsWellFoundedOn(Less, Nat)
  BY NatLessThanWellFounded, Zenon DEF OpToRel
<1> HIDE DEF Less
<1>2. PICK x \in S : \A y \in S : <<y, x>> \notin Less
  BY <1>1, WFMin
<1>3. \A y \in S : x <= y
  <2> SUFFICES ASSUME NEW y \in S PROVE ~(y < x)
    OBVIOUS
  <2>1. <<y, x>> \in Nat \X Nat /\ <<y, x>>[1] = y /\ <<y, x>>[2] = x
    OBVIOUS
  <2>2. y < x => <<y, x>> \in Less
    BY <2>1 DEF Less
  <2> QED
    BY <1>2, <2>2
<1> QED
  BY <1>3 DEF Lowest

\* The same from the other end: no level is above 31.
LEMMA HighestIs == ASSUME NEW S, S \subseteq Prios, S # {} PROVE Highest(S) \in S
<1> DEFINE T == {31 - p : p \in S}
           m == Lowest(T)
<1>1. \A p \in S : p \in 0..31
  BY SchedulerAssumption
<1>2. T \subseteq Nat /\ T # {}
  BY <1>1
<1> HIDE DEF T
<1>3. m \in T /\ \A q \in T : m <= q
  <2>1. m \in T
    BY <1>2, LowestIs
  <2>2. PICK x \in T : \A q \in T : x <= q
    <3> DEFINE Less == {p \in Nat \X Nat : p[1] < p[2]}
    <3>1. IsWellFoundedOn(Less, Nat)
      BY NatLessThanWellFounded, Zenon DEF OpToRel
    <3> HIDE DEF Less
    <3>2. PICK x \in T : \A y \in T : <<y, x>> \notin Less
      BY <1>2, <3>1, WFMin
    <3>3. ASSUME NEW y \in T PROVE x <= y
      <4>1. /\ x \in Nat /\ y \in Nat
            /\ <<y, x>> \in Nat \X Nat /\ <<y, x>>[1] = y /\ <<y, x>>[2] = x
        BY <1>2
      <4>2. y < x => <<y, x>> \in Less
        BY <4>1 DEF Less
      <4> QED
        BY <3>2, <4>1, <4>2
    <3> QED
      BY <3>3
  <2> QED
    BY <2>2 DEF Lowest
<1>4. PICK p \in S : m = 31 - p
  BY <1>3 DEF T
<1> HIDE DEF m
<1>5. ASSUME NEW q \in S PROVE q <= p
  <2>1. m <= 31 - q
    BY <1>3 DEF T
  <2> QED
    BY <2>1, <1>1, <1>4
<1> QED
  BY <1>5 DEF Highest

-----------------------------------------------------------------------------
(* What the critical sections do to the ready lists. *)

\* The lists (rdy, sum) are those of every ready thread other than t.
Without(rdy, sum, t) ==
  /\ rdy \in [Cpus -> [Prios -> Seq(Threads)]] /\ sum \in [Cpus -> SUBSET Prios]
  /\ \A c \in Cpus, p \in Prios :
       /\ Distinct(rdy[c][p])
       /\ Elems(rdy[c][p]) =
            {x \in Threads \ {t} : queued[x] /\ linkCpu[x] = c /\ queuedPrio[x] = p}
  /\ \A c \in Cpus : sum[c] = {p \in Prios : rdy[c][p] # <<>>}

\* They are, when t is not ready.
LEMMA NotReadyWithout ==
  ASSUME TypeOK, ReadyMatch, SummaryExact, NEW t \in Threads, ~queued[t]
  PROVE  Without(ready, readySummary, t)
<1>1. ASSUME NEW c \in Cpus, NEW p \in Prios
      PROVE  /\ Distinct(ready[c][p])
             /\ Elems(ready[c][p]) =
                  {x \in Threads \ {t} : queued[x] /\ linkCpu[x] = c /\ queuedPrio[x] = p}
  BY DEF ReadyMatch
<1> QED
  BY <1>1 DEF Without, TypeOK, SummaryExact

\* UnlinkReadyLocked and the summary bit: what is left when t is taken out.
LEMMA UnlinkedWithout ==
  ASSUME TypeOK, ReadyMatch, SummaryExact, NEW t \in Threads, linkCpu[t] \in Cpus
  PROVE  Without(ReadyWithout(linkCpu[t], queuedPrio[t], t),
                 SummaryWithout(linkCpu[t], queuedPrio[t], t), t)
<1> DEFINE l == linkCpu[t]
           q == queuedPrio[t]
           u == Unlink(ready[l][q], t)
           rdy == ReadyWithout(l, q, t)
           sum == SummaryWithout(l, q, t)
<1>1. l \in Cpus /\ q \in Prios /\ ready[l][q] \in Seq(Threads) /\ Distinct(ready[l][q])
  BY DEF TypeOK, ReadyMatch
<1>2. u \in Seq(Threads) /\ Elems(u) = Elems(ready[l][q]) \ {t} /\ Distinct(u)
  BY <1>1, UnlinkElems
<1> HIDE DEF u
<1>3. /\ rdy \in [Cpus -> [Prios -> Seq(Threads)]]
      /\ \A c \in Cpus, p \in Prios :
           rdy[c][p] = IF c = l /\ p = q THEN u ELSE ready[c][p]
  BY <1>1, <1>2 DEF ReadyWithout, TypeOK, u
<1>4. /\ sum \in [Cpus -> SUBSET Prios]
      /\ \A c \in Cpus : sum[c] = IF c = l /\ u = <<>> THEN readySummary[c] \ {q}
                                                      ELSE readySummary[c]
  BY <1>1 DEF SummaryWithout, TypeOK, u
<1> HIDE DEF rdy, sum
<1>5. ASSUME NEW c \in Cpus, NEW p \in Prios
      PROVE  /\ Distinct(rdy[c][p])
             /\ Elems(rdy[c][p]) =
                  {x \in Threads \ {t} : queued[x] /\ linkCpu[x] = c /\ queuedPrio[x] = p}
  <2>1. /\ Distinct(ready[c][p])
        /\ Elems(ready[c][p]) =
             {x \in Threads : queued[x] /\ linkCpu[x] = c /\ queuedPrio[x] = p}
    BY DEF ReadyMatch
  <2>2. CASE c = l /\ p = q
    BY <2>1, <2>2, <1>2, <1>3
  <2>3. CASE ~(c = l /\ p = q)
    BY <2>1, <2>3, <1>3
  <2> QED
    BY <2>2, <2>3
<1>6. ASSUME NEW c \in Cpus PROVE sum[c] = {p \in Prios : rdy[c][p] # <<>>}
  <2>1. readySummary[c] = {p \in Prios : ready[c][p] # <<>>}
    BY DEF SummaryExact
  <2>2. u # <<>> => ready[l][q] # <<>>
    <3>1. ready[l][q] = <<>> => t \notin Elems(ready[l][q])
      BY DEF Elems
    <3> QED
      BY <3>1 DEF u, Unlink
  <2>3. ASSUME NEW p \in Prios PROVE p \in sum[c] <=> rdy[c][p] # <<>>
    <3>1. p \in readySummary[c] <=> ready[c][p] # <<>>
      BY <2>1
    <3>2. rdy[c][p] = IF c = l /\ p = q THEN u ELSE ready[c][p]
      BY <1>3
    <3>3. sum[c] = IF c = l /\ u = <<>> THEN readySummary[c] \ {q} ELSE readySummary[c]
      BY <1>4
    <3> QED
      BY <2>2, <3>1, <3>2, <3>3
  <2>4. sum[c] \subseteq Prios
    BY <1>4
  <2> QED
    BY <2>3, <2>4
<1> QED
  BY <1>3, <1>4, <1>5, <1>6 DEF Without, rdy, sum, l, q

\* LinkReadyLocked: t is linked once more, and nothing else moves.
LEMMA LinkReadyDoes ==
  ASSUME TypeOK, NEW rdy, NEW sum, NEW t \in Threads, NEW c \in Cpus, NEW atHead, NEW take,
         Without(rdy, sum, t), LinkReady(rdy, sum, c, t, atHead, take),
         queued'[t], linkCpu'[t] = c,
         \A x \in Threads \ {t} : queued'[x] = queued[x] /\ linkCpu'[x] = linkCpu[x]
  PROVE  /\ ready' \in [Cpus -> [Prios -> Seq(Threads)]]
         /\ readySummary' \in [Cpus -> SUBSET Prios]
         /\ queuedPrio' \in [Threads -> Prios] /\ queuedPrio'[t] = priority[t]
         /\ \A x \in Threads \ {t} : queuedPrio'[x] = queuedPrio[x]
         /\ headRequeue' \in [Threads -> BOOLEAN]
         /\ preemptRequested' \in [Threads -> BOOLEAN]
         /\ ReadyMatch' /\ SummaryExact'
<1> DEFINE q == priority[t]
           s == rdy[c][q]
           u == IF atHead THEN LinkHead(s, t) ELSE LinkTail(s, t)
<1>0. /\ rdy \in [Cpus -> [Prios -> Seq(Threads)]] /\ sum \in [Cpus -> SUBSET Prios]
      /\ q \in Prios /\ s \in Seq(Threads)
  <2>1. rdy \in [Cpus -> [Prios -> Seq(Threads)]] /\ sum \in [Cpus -> SUBSET Prios]
    BY DEF Without
  <2>2. q \in Prios
    BY DEF TypeOK
  <2> QED
    BY <2>1, <2>2
<1>1. \A d \in Cpus, p \in Prios :
        /\ Distinct(rdy[d][p])
        /\ Elems(rdy[d][p]) =
             {x \in Threads \ {t} : queued[x] /\ linkCpu[x] = d /\ queuedPrio[x] = p}
  BY DEF Without
<1>2. t \notin Elems(s) /\ Distinct(s)
  BY <1>0, <1>1
<1>3. u \in Seq(Threads) /\ Elems(u) = Elems(s) \cup {t} /\ Distinct(u)
  BY <1>0, <1>2, LinkHeadElems, LinkTailElems, SMTT(30)
<1>4. u # <<>>
  BY <1>3 DEF Elems
<1>5. /\ ready' \in [Cpus -> [Prios -> Seq(Threads)]]
      /\ \A d \in Cpus, p \in Prios :
           ready'[d][p] = IF d = c /\ p = q THEN u ELSE rdy[d][p]
  BY <1>0, <1>3 DEF LinkReady
<1>6. /\ readySummary' \in [Cpus -> SUBSET Prios]
      /\ \A d \in Cpus : readySummary'[d] = IF d = c THEN sum[d] \cup {q} ELSE sum[d]
  BY <1>0 DEF LinkReady
<1>7. /\ queuedPrio' \in [Threads -> Prios] /\ queuedPrio'[t] = q
      /\ \A x \in Threads \ {t} : queuedPrio'[x] = queuedPrio[x]
  BY <1>0 DEF LinkReady, TypeOK
<1>8. headRequeue' \in [Threads -> BOOLEAN] /\ preemptRequested' \in [Threads -> BOOLEAN]
  BY DEF LinkReady
<1> HIDE DEF u, s, q
<1>9. ReadyMatch'
  <2> SUFFICES ASSUME NEW d \in Cpus, NEW p \in Prios
               PROVE  /\ Distinct(ready'[d][p])
                      /\ Elems(ready'[d][p]) = {x \in Threads :
                           queued'[x] /\ linkCpu'[x] = d /\ queuedPrio'[x] = p}
    BY Zenon DEF ReadyMatch
  <2>1. CASE d = c /\ p = q
    <3>1. ready'[d][p] = u
      BY <2>1, <1>5
    <3>2. Elems(u) = {x \in Threads \ {t} : queued[x] /\ linkCpu[x] = d /\ queuedPrio[x] = p}
                       \cup {t}
      BY <2>1, <1>1, <1>3 DEF s
    <3> QED
      BY <3>1, <3>2, <2>1, <1>3, <1>7
  <2>2. CASE ~(d = c /\ p = q)
    <3>1. ready'[d][p] = rdy[d][p]
      BY <2>2, <1>5
    <3>2. ASSUME NEW x \in Threads
          PROVE  x # t /\ queued[x] /\ linkCpu[x] = d /\ queuedPrio[x] = p <=>
                   queued'[x] /\ linkCpu'[x] = d /\ queuedPrio'[x] = p
      BY <2>2, <1>7
    <3> QED
      BY <3>1, <3>2, <1>1, ZenonT(60)
  <2> QED
    BY <2>1, <2>2
<1>10. SummaryExact'
  <2> SUFFICES ASSUME NEW d \in Cpus
               PROVE  readySummary'[d] = {p \in Prios : ready'[d][p] # <<>>}
    BY Zenon DEF SummaryExact
  <2>1. ASSUME NEW p \in Prios PROVE p \in readySummary'[d] <=> ready'[d][p] # <<>>
    <3>1. p \in sum[d] <=> rdy[d][p] # <<>>
      BY DEF Without
    <3>2. ready'[d][p] = IF d = c /\ p = q THEN u ELSE rdy[d][p]
      BY <1>5
    <3>3. readySummary'[d] = IF d = c THEN sum[d] \cup {q} ELSE sum[d]
      BY <1>6
    <3> QED
      BY <3>1, <3>2, <3>3, <1>4
  <2>2. readySummary'[d] \subseteq Prios
    BY <1>6
  <2> QED
    BY <2>1, <2>2
<1> QED
  BY <1>5, <1>6, <1>7, <1>8, <1>9, <1>10 DEF q

-----------------------------------------------------------------------------
(* Steps that leave the lists alone. *)

USE DEF linkVars, listVars, cpuVars, sleepVars, loopVars, threadVars, callVars

\* The lists, and the links that place a thread on one, are as they were.
SameLists ==
  UNCHANGED <<ready, readySummary, blockedList, suspendedList, kept, queued, blocked,
              suspended, linkCpu, queuedPrio>>

\* Then they still agree.
LEMMA SameListsKeep == ASSUME Lists, SameLists PROVE Lists'
  BY DEF SameLists, Lists, ReadyMatch, SummaryExact, BlockedMatch, SuspendedMatch, OnOneList

\* The dispatch thread of c, or the fiber on it, goes on with the same thread and outside
\* a walk.  A queued thread keeps its priority.
QuietStep(c) ==
  /\ SameLists /\ UNCHANGED <<running, next, walker, callVars>>
  /\ \A d \in Cpus \ {c} : pc'[d] = pc[d] /\ home'[d] = home[d]
  /\ pc'[c] \in Standing <=> pc[c] \in Standing
  /\ pc[c] # "back" /\ "reready" \notin {pc[c], pc'[c]}
  /\ pc'[c] = "migrate" => home'[c] \in Cpus
  /\ \A d \in Cpus : yieldToOther'[d] \in {yieldToOther[d], NoThread}
  /\ \A t \in Threads : /\ queued[t] => priority'[t] = priority[t]
                        /\ fiberAt'[t] = "none" <=> fiberAt[t] = "none"

\* Such a step keeps the invariant.
LEMMA QuietStepKeeps == ASSUME IInv, NEW c \in Cpus, QuietStep(c), TypeOK' PROVE IInv'
<1>1. Lists'
  BY SameListsKeep DEF IInv, QuietStep
<1>2. Own'
  BY ZenonT(60) DEF IInv, TypeOK, Control, Own, QuietStep, SameLists
<1>3. YielderIsReadyHere'
  BY DEF IInv, Control, YielderIsReadyHere, QuietStep, SameLists
<1>4. QueuedAtItsPriority'
  BY DEF IInv, Control, QueuedAtItsPriority, QuietStep, SameLists
<1>5. Calls' /\ Fresh'
  BY DEF IInv, Control, Calls, Fresh, QuietStep, SameLists
<1>6. Walk' /\ Homes'
  BY DEF IInv, Control, Walk, Homes, QuietStep, SameLists
<1> QED
  BY <1>1, <1>2, <1>3, <1>4, <1>5, <1>6 DEF IInv, Control

\* The caller k goes on with its call, or begins one about a created thread.  Only the
\* call that will requeue it may have changed the priority of a queued thread.
QuietCall(k) ==
  /\ SameLists /\ UNCHANGED <<running, next, walker, pc, home, yieldToOther>>
  /\ \A j \in Callers \ {k} : /\ callPc'[j] = callPc[j] /\ callThread'[j] = callThread[j]
                              /\ callCpu'[j] = callCpu[j]
  /\ callPc'[k] # "idle" =>
       callThread'[k] \in Threads /\ fiberAt'[callThread'[k]] # "none"
  /\ callPc'[k] = "enqueue" => callCpu'[k] \in Cpus
  /\ callPc[k] # "requeue"
  /\ \A t \in Threads :
       /\ queued[t] => \/ priority'[t] = priority[t]
                       \/ callPc'[k] = "requeue" /\ callThread'[k] = t
       /\ fiberAt'[t] = "none" => fiberAt[t] = "none"

\* Such a step keeps the invariant.
LEMMA QuietCallKeeps == ASSUME IInv, NEW k \in Callers, QuietCall(k), TypeOK' PROVE IInv'
<1>1. Lists'
  BY SameListsKeep DEF IInv, QuietCall
<1>2. Own' /\ YielderIsReadyHere' /\ Walk' /\ Homes'
  BY DEF IInv, Control, Own, YielderIsReadyHere, Walk, Homes, QuietCall, SameLists
<1>3. QueuedAtItsPriority'
  <2> SUFFICES ASSUME NEW t \in Threads, queued[t], queuedPrio[t] # priority'[t]
               PROVE  \E j \in Callers : callPc'[j] = "requeue" /\ callThread'[j] = t
    BY DEF QueuedAtItsPriority, QuietCall, SameLists
  <2>1. CASE priority'[t] = priority[t]
    <3>1. PICK j \in Callers : callPc[j] = "requeue" /\ callThread[j] = t
      BY <2>1 DEF IInv, Control, QueuedAtItsPriority
    <3>2. j # k
      BY <3>1 DEF QuietCall
    <3> QED
      BY <3>1, <3>2 DEF QuietCall
  <2>2. CASE priority'[t] # priority[t]
    BY <2>2 DEF QuietCall
  <2> QED
    BY <2>1, <2>2
<1>4. Calls'
  <2> SUFFICES ASSUME NEW j \in Callers
               PROVE  /\ callPc'[j] # "idle" =>
                           callThread'[j] \in Threads /\ fiberAt'[callThread'[j]] # "none"
                      /\ callPc'[j] = "enqueue" => callCpu'[j] \in Cpus
    BY DEF Calls
  <2>1. CASE j = k
    BY <2>1 DEF QuietCall
  <2>2. CASE j # k
    <3>1. /\ callPc'[j] = callPc[j] /\ callThread'[j] = callThread[j]
          /\ callCpu'[j] = callCpu[j]
      BY <2>2 DEF QuietCall
    <3>2. /\ callPc[j] # "idle" =>
               callThread[j] \in Threads /\ fiberAt[callThread[j]] # "none"
          /\ callPc[j] = "enqueue" => callCpu[j] \in Cpus
      BY DEF IInv, Control, Calls
    <3> QED
      BY <3>1, <3>2 DEF QuietCall
  <2> QED
    BY <2>1, <2>2
<1>5. Fresh'
  BY DEF IInv, Control, Fresh, QuietCall, SameLists
<1> QED
  BY <1>1, <1>2, <1>3, <1>4, <1>5 DEF IInv, Control

\* Leaving for good, as ExitIfTerminated, Exit and a self-Terminate do.
LEMMA ExitFiberKeeps ==
  ASSUME IInv, NEW c \in Cpus, pc[c] \in {"resumed", "guest"}, ExitFiber(c),
         preemptRequested' \in [Threads -> BOOLEAN],
         suspendCount' \in [Threads -> 0..MaxSuspend], UNCHANGED workload
  PROVE  IInv'
<1>1. next[c] \in Threads /\ fiberAt[next[c]] # "none"
  BY DEF IInv, TypeOK, Control, Own, Fresh, Standing
<1>2. TypeOK'
  BY <1>1 DEF IInv, TypeOK, CpuPc, FiberAt, ExitFiber
<1>3. QuietStep(c)
  BY <1>1 DEF IInv, TypeOK, QuietStep, SameLists, Standing, ExitFiber
<1> QED
  BY <1>2, <1>3, QuietStepKeeps

\* A yield, up to its EnqueueReady.  The yielder is not queued, so its priority may drop.
LEMMA BeginYieldKeeps ==
  ASSUME IInv, NEW c \in Cpus, NEW quantumEnd, NEW lower \in BOOLEAN, pc[c] = "guest",
         BeginYield(c, quantumEnd, lower), preemptRequested' \in [Threads -> BOOLEAN],
         suspendCount' \in [Threads -> 0..MaxSuspend], UNCHANGED workload
  PROVE  IInv'
<1>1. next[c] \in Threads /\ fiberAt[next[c]] # "none" /\ ~queued[next[c]]
  BY DEF IInv, TypeOK, Control, Own, Fresh, Standing
<1>2. PICK p \in Prios : priority' = [priority EXCEPT ![next[c]] = p]
  BY DEF BeginYield
<1>3. TypeOK'
  BY <1>1, <1>2 DEF IInv, TypeOK, CpuPc, FiberAt, BeginYield
<1>4. QuietStep(c)
  BY <1>1, <1>2 DEF IInv, TypeOK, QuietStep, SameLists, Standing, BeginYield
<1> QED
  BY <1>3, <1>4, QuietStepKeeps

\* The steps of a dispatch thread outside its critical sections on the lists.
LEMMA QuietLoopKeeps ==
  ASSUME IInv, NEW c \in Cpus, UNCHANGED workload,
         \/ SkipReready(c) \/ DequeueNothing(c) \/ Inspect(c) \/ RunAfterAll(c)
         \/ SwitchTo(c) \/ EnterFiber(c) \/ Reclaim(c) \/ IdlePark(c) \/ RecheckWork(c)
         \/ WakeUp(c) \/ ResumeGuest(c) \/ ResumeDead(c) \/ Crash(c)
  PROVE  IInv'
<1>1. pc[c] \in Standing => next[c] \in Threads
  BY DEF IInv, Control, Own
<1>2. pc[c] \in Standing => fiberAt[next[c]] # "none"
  BY <1>1 DEF IInv, Control, Own, Fresh
<1> SUFFICES TypeOK' /\ QuietStep(c)
  BY QuietStepKeeps
<1>3. CASE SkipReready(c)
  <2>1. TypeOK'
    BY <1>1, <1>3 DEF IInv, TypeOK, CpuPc, FiberAt, Standing, SkipReready
  <2>2. QuietStep(c)
    BY <1>1, <1>2, <1>3 DEF IInv, TypeOK, QuietStep, SameLists, Standing, SkipReready
  <2> QED
    BY <2>1, <2>2
<1>4. CASE DequeueNothing(c)
  <2>1. TypeOK'
    BY <1>1, <1>4 DEF IInv, TypeOK, CpuPc, FiberAt, Standing, DequeueNothing
  <2>2. QuietStep(c)
    BY <1>1, <1>2, <1>4 DEF IInv, TypeOK, QuietStep, SameLists, Standing, DequeueNothing
  <2> QED
    BY <2>1, <2>2
<1>5. CASE Inspect(c)
  <2>1. TypeOK'
    BY <1>1, <1>5 DEF IInv, TypeOK, CpuPc, FiberAt, Standing, Inspect, LeavesHome
  <2>2. QuietStep(c)
    BY <1>1, <1>2, <1>5 DEF IInv, TypeOK, QuietStep, SameLists, Standing, Inspect, LeavesHome
  <2> QED
    BY <2>1, <2>2
<1>6. CASE RunAfterAll(c)
  <2>1. TypeOK'
    BY <1>1, <1>6 DEF IInv, TypeOK, CpuPc, FiberAt, Standing, RunAfterAll
  <2>2. QuietStep(c)
    BY <1>1, <1>2, <1>6 DEF IInv, TypeOK, QuietStep, SameLists, Standing, RunAfterAll
  <2> QED
    BY <2>1, <2>2
<1>7. CASE SwitchTo(c)
  <2>1. TypeOK'
    BY <1>1, <1>7 DEF IInv, TypeOK, CpuPc, FiberAt, Standing, SwitchTo
  <2>2. QuietStep(c)
    BY <1>1, <1>2, <1>7 DEF IInv, TypeOK, QuietStep, SameLists, Standing, SwitchTo
  <2> QED
    BY <2>1, <2>2
<1>8. CASE EnterFiber(c)
  <2>1. TypeOK'
    BY <1>1, <1>8 DEF IInv, TypeOK, CpuPc, FiberAt, Standing, EnterFiber
  <2>2. QuietStep(c)
    BY <1>1, <1>2, <1>8 DEF IInv, TypeOK, QuietStep, SameLists, Standing, EnterFiber
  <2> QED
    BY <2>1, <2>2
<1>9. CASE Reclaim(c)
  <2>1. TypeOK'
    BY <1>1, <1>9 DEF IInv, TypeOK, CpuPc, FiberAt, Standing, Reclaim
  <2>2. QuietStep(c)
    BY <1>1, <1>2, <1>9 DEF IInv, TypeOK, QuietStep, SameLists, Standing, Reclaim
  <2> QED
    BY <2>1, <2>2
<1>10. CASE IdlePark(c)
  <2>1. TypeOK'
    BY <1>1, <1>10 DEF IInv, TypeOK, CpuPc, FiberAt, Standing, IdlePark
  <2>2. QuietStep(c)
    BY <1>1, <1>2, <1>10 DEF IInv, TypeOK, QuietStep, SameLists, Standing, IdlePark
  <2> QED
    BY <2>1, <2>2
<1>11. CASE RecheckWork(c)
  <2>1. TypeOK'
    BY <1>1, <1>11, ZenonT(60) DEF IInv, TypeOK, CpuPc, FiberAt, Standing, RecheckWork, SleepKind
  <2>2. QuietStep(c)
    <3>1. /\ pc[c] = "recheck" /\ pc'[c] \in {"loop", "sleep", "sleepTimed"}
          /\ \A d \in Cpus \ {c} : pc'[d] = pc[d]
      BY <1>11 DEF IInv, TypeOK, RecheckWork, SleepKind
    <3> QED
      BY <3>1, <1>11 DEF IInv, TypeOK, QuietStep, SameLists, Standing, RecheckWork
  <2> QED
    BY <2>1, <2>2
<1>12. CASE WakeUp(c)
  <2>1. TypeOK'
    BY <1>1, <1>12 DEF IInv, TypeOK, CpuPc, FiberAt, Standing, WakeUp
  <2>2. QuietStep(c)
    BY <1>1, <1>2, <1>12 DEF IInv, TypeOK, QuietStep, SameLists, Standing, WakeUp
  <2> QED
    BY <2>1, <2>2
<1>13. CASE ResumeGuest(c)
  <2>1. TypeOK'
    BY <1>1, <1>13 DEF IInv, TypeOK, CpuPc, FiberAt, Standing, ResumeGuest
  <2>2. QuietStep(c)
    BY <1>1, <1>2, <1>13 DEF IInv, TypeOK, QuietStep, SameLists, Standing, ResumeGuest
  <2> QED
    BY <2>1, <2>2
<1>14. CASE ResumeDead(c)
  <2>1. TypeOK'
    BY <1>1, <1>14 DEF IInv, TypeOK, CpuPc, FiberAt, Standing, ResumeDead
  <2>2. QuietStep(c)
    BY <1>1, <1>2, <1>14 DEF IInv, TypeOK, QuietStep, SameLists, Standing, ResumeDead
  <2> QED
    BY <2>1, <2>2
<1>15. CASE Crash(c)
  <2>1. TypeOK'
    BY <1>1, <1>15 DEF IInv, TypeOK, CpuPc, FiberAt, Standing, Crash
  <2>2. QuietStep(c)
    BY <1>1, <1>2, <1>15 DEF IInv, TypeOK, QuietStep, SameLists, Standing, Crash
  <2> QED
    BY <2>1, <2>2
<1> QED
  BY <1>3, <1>4, <1>5, <1>6, <1>7, <1>8, <1>9, <1>10, <1>11, <1>12, <1>13, <1>14, <1>15

\* What guest code does, and what it does when it is resumed to exit.
LEMMA GuestStepKeeps ==
  ASSUME IInv, NEW c \in Cpus, UNCHANGED workload,
         GuestStep(c) \/ Safepoint(c) \/ ResumeAndExit(c), ~Crash(c)
  PROVE  IInv'
<1>1. next[c] \in Threads /\ fiberAt[next[c]] # "none"
  BY DEF IInv, TypeOK, Control, Own, Fresh, Standing, GuestStep, Safepoint, ResumeAndExit,
         YieldVoluntary, SelfSuspend, FiberExit, Block
<1>2. CASE ResumeAndExit(c) \/ FiberExit(c)
  <2> SUFFICES /\ ExitFiber(c) /\ pc[c] \in {"resumed", "guest"}
               /\ UNCHANGED <<suspendCount, preemptRequested>>
    BY ExitFiberKeeps DEF IInv, TypeOK
  <2> QED
    BY <1>2 DEF ResumeAndExit, FiberExit
<1>3. CASE YieldVoluntary(c)
  <2>1. pc[c] = "guest" /\ UNCHANGED <<suspendCount, preemptRequested>>
    BY <1>3 DEF YieldVoluntary
  <2>2. CASE ExitFiber(c)
    BY <2>1, <2>2, ExitFiberKeeps DEF IInv, TypeOK
  <2>3. CASE \E quantumEnd \in BOOLEAN : BeginYield(c, quantumEnd, TRUE)
    BY <2>1, <2>3, BeginYieldKeeps DEF IInv, TypeOK
  <2> QED
    BY <1>3, <2>2, <2>3 DEF YieldVoluntary
<1>4. CASE Safepoint(c)
  <2>1. /\ pc[c] = "guest" /\ UNCHANGED suspendCount
        /\ preemptRequested' \in [Threads -> BOOLEAN]
    BY <1>1, <1>4 DEF Safepoint, IInv, TypeOK
  <2>2. CASE ExitFiber(c)
    BY <2>1, <2>2, ExitFiberKeeps DEF IInv, TypeOK
  <2>3. CASE BeginYield(c, TRUE, FALSE)
    BY <2>1, <2>3, BeginYieldKeeps DEF IInv, TypeOK
  <2> QED
    BY <1>4, <2>2, <2>3 DEF Safepoint
<1>5. CASE SelfSuspend(c)
  <2>1. /\ pc[c] = "guest" /\ UNCHANGED preemptRequested
        /\ suspendCount' \in [Threads -> 0..MaxSuspend]
    BY <1>1, <1>5, SchedulerAssumption DEF SelfSuspend, IInv, TypeOK
  <2>2. CASE ExitFiber(c)
    BY <2>1, <2>2, ExitFiberKeeps DEF IInv, TypeOK
  <2>3. CASE BeginYield(c, FALSE, TRUE)
    BY <2>1, <2>3, BeginYieldKeeps DEF IInv, TypeOK
  <2> QED
    BY <1>5, <2>2, <2>3 DEF SelfSuspend
<1>6. ASSUME NEW interruptible \in BOOLEAN, Block(c, interruptible) PROVE IInv'
  <2>1. pc[c] = "guest" /\ UNCHANGED <<suspendCount, preemptRequested>>
    BY <1>6 DEF Block
  <2>2. CASE ExitFiber(c)
    BY <2>1, <2>2, ExitFiberKeeps DEF IInv, TypeOK
  <2>3. CASE ~ExitFiber(c)
    <3>1. /\ pc' = [pc EXCEPT ![c] = "park"]
          /\ fiberAt' = [fiberAt EXCEPT ![next[c]] =
                           IF interruptible THEN "wait" ELSE "hardWait"]
          /\ UNCHANGED <<linkVars, listVars, cpuVars, sleepVars, next, home, toLower,
                         stateTerminated, currentCpu, priority, reclaimed, callVars, toWake>>
      BY <1>6, <2>3 DEF Block
    <3>2. TypeOK'
      BY <1>1, <2>1, <3>1 DEF IInv, TypeOK, CpuPc, FiberAt
    <3>3. QuietStep(c)
      BY <1>1, <2>1, <3>1 DEF IInv, TypeOK, QuietStep, SameLists, Standing
    <3> QED
      BY <3>2, <3>3, QuietStepKeeps
  <2> QED
    BY <2>2, <2>3
<1> QED
  BY <1>2, <1>3, <1>4, <1>5, <1>6 DEF GuestStep

\* The wakes, the watchdog and the two hooks change nothing the invariant is about.
LEMMA BystandersKeep ==
  ASSUME IInv, UNCHANGED workload,
         \/ \E a \in Actors : Wake(a)
         \/ \E c \in Cpus : Watchdog(c)
         \/ \E k \in Callers, S \in SUBSET Cpus : WakeForSignal(k, S) \/ EnterBackgroundMode(k, S)
  PROVE  IInv'
<1>1. ASSUME /\ SameLists
             /\ UNCHANGED <<running, next, walker, pc, home, yieldToOther, callVars, priority,
                            fiberAt>>
      PROVE  Lists' /\ Control'
  <2>1. Lists'
    BY <1>1, SameListsKeep DEF IInv
  <2>2. Control'
    BY <1>1 DEF IInv, Control, Own, YielderIsReadyHere, QueuedAtItsPriority, Calls, Fresh,
                Walk, Homes, SameLists
  <2> QED
    BY <2>1, <2>2
<1>2. ASSUME NEW a \in Actors, Wake(a) PROVE IInv'
  <2>1. PICK x \in toWake[a] :
          /\ toWake' = [toWake EXCEPT ![a] = @ \ {x}]
          /\ readyEvent' = [readyEvent EXCEPT ![x] = @ \/ parked[x]]
          /\ UNCHANGED <<linkVars, listVars, cpuVars, parked, repollNow, loopVars, threadVars,
                         callVars>>
    BY <1>2 DEF Wake
  <2>2. x \in Cpus /\ toWake[a] \subseteq Cpus
    BY DEF IInv, TypeOK
  <2>3. toWake' \in [Actors -> SUBSET Cpus] /\ readyEvent' \in [Cpus -> BOOLEAN]
    BY <2>1, <2>2 DEF IInv, TypeOK
  <2>4. TypeOK'
    BY <2>1, <2>3 DEF IInv, TypeOK
  <2> QED
    BY <1>1, <2>1, <2>4 DEF IInv, SameLists
<1>3. ASSUME NEW c \in Cpus, Watchdog(c) PROVE IInv'
  <2>1. TypeOK'
    BY <1>3 DEF IInv, TypeOK, Watchdog
  <2> QED
    BY <1>1, <1>3, <2>1 DEF Watchdog, IInv, SameLists
<1>4. ASSUME NEW k \in Callers, NEW S \in SUBSET Cpus, WakeForSignal(k, S) PROVE IInv'
  <2>1. headRequeue' \in [Threads -> BOOLEAN] /\ preemptRequested' \in [Threads -> BOOLEAN]
    BY <1>4 DEF WakeForSignal, Bump
  <2>2. repollNow' \in [Cpus -> BOOLEAN] /\ toWake' \in [Actors -> SUBSET Cpus]
    BY <1>4 DEF WakeForSignal, IInv, TypeOK, Actors
  <2>3. TypeOK'
    BY <1>4, <2>1, <2>2 DEF IInv, TypeOK, WakeForSignal
  <2> QED
    BY <1>1, <1>4, <2>3 DEF WakeForSignal, IInv, SameLists
<1>5. ASSUME NEW k \in Callers, NEW S \in SUBSET Cpus, EnterBackgroundMode(k, S) PROVE IInv'
  <2>1. headRequeue' \in [Threads -> BOOLEAN] /\ preemptRequested' \in [Threads -> BOOLEAN]
    BY <1>5 DEF EnterBackgroundMode, Bump
  <2>2. window' \in [Cpus -> BOOLEAN]
    BY <1>5 DEF EnterBackgroundMode, IInv, TypeOK
  <2>3. TypeOK'
    BY <1>5, <2>1, <2>2 DEF IInv, TypeOK, EnterBackgroundMode
  <2> QED
    BY <1>1, <1>5, <2>3 DEF EnterBackgroundMode, IInv, SameLists
<1> QED
  BY <1>2, <1>3, <1>4, <1>5

\* The steps of a call outside its critical sections on the lists.
LEMMA QuietCallStepKeeps ==
  ASSUME IInv, NEW k \in Callers, NEW t \in Threads, UNCHANGED workload,
         \/ MarkReady(k) \/ ReclaimByCaller(k) \/ Suspend(k, t) \/ Resume(k, t) \/ Terminate(k, t)
         \/ \E c \in Cpus, p \in Prios : Create(k, t, c, p)
         \/ \E c \in Cpus : SetActiveCpu(k, t, c)
         \/ \E p \in Prios : PublishPriority(k, t, p)
  PROVE  IInv'
<1>1. callPc[k] # "idle" => callThread[k] \in Threads /\ fiberAt[callThread[k]] # "none"
  BY DEF IInv, Control, Calls
<1>2. ~Created(t) => ~queued[t]
  BY DEF IInv, Control, Fresh, Created
<1> SUFFICES TypeOK' /\ QuietCall(k)
  BY QuietCallKeeps
<1>3. CASE MarkReady(k)
  <2>1. CASE stateTerminated[callThread[k]]
    <3>1. Return(k) /\ callPc[k] = "markReady"
      BY <1>3, <2>1 DEF MarkReady
    <3>2. TypeOK'
      BY <1>3, <3>1 DEF IInv, TypeOK, CallPc, MarkReady, Return
    <3>3. QuietCall(k)
      BY <1>3, <3>1 DEF IInv, TypeOK, QuietCall, SameLists, MarkReady, Return
    <3> QED
      BY <3>2, <3>3
  <2>2. CASE ~stateTerminated[callThread[k]]
    <3>1. /\ callPc[k] = "markReady" /\ Call(k, callThread[k], "enqueue")
          /\ callCpu' = [callCpu EXCEPT ![k] = currentCpu[callThread[k]]]
      BY <1>3, <2>2 DEF MarkReady
    <3>2. currentCpu[callThread[k]] \in Cpus
      BY <1>1, <3>1 DEF IInv, TypeOK
    <3>3. TypeOK'
      BY <1>1, <1>3, <3>1, <3>2 DEF IInv, TypeOK, CallPc, MarkReady, Call
    <3>4. QuietCall(k)
      BY <1>1, <1>3, <3>1, <3>2 DEF IInv, TypeOK, QuietCall, SameLists, MarkReady, Call
    <3> QED
      BY <3>3, <3>4
  <2> QED
    BY <2>1, <2>2
<1>4. CASE ReclaimByCaller(k)
  <2>1. TypeOK'
    BY <1>1, <1>4, SchedulerAssumption DEF IInv, TypeOK, CallPc, FiberAt, ReclaimByCaller, Return
  <2>2. QuietCall(k)
    BY <1>1, <1>2, <1>4 DEF IInv, TypeOK, QuietCall, SameLists, ReclaimByCaller, Return
  <2> QED
    BY <2>1, <2>2
<1>5. CASE Suspend(k, t)
  <2>1. TypeOK'
    BY <1>1, <1>5, SchedulerAssumption DEF IInv, TypeOK, CallPc, FiberAt, Suspend, Idle, Created
  <2>2. QuietCall(k)
    BY <1>1, <1>2, <1>5 DEF IInv, TypeOK, QuietCall, SameLists, Suspend, Idle, Created
  <2> QED
    BY <2>1, <2>2
<1>6. CASE Resume(k, t)
  <2>0. suspendCount' \in [Threads -> 0..MaxSuspend]
    BY <1>6, SchedulerAssumption DEF IInv, TypeOK, Resume, Resumable
  <2>3. /\ callPc' \in [Callers -> CallPc]
        /\ callThread' \in [Callers -> Threads \cup {NoThread}]
    BY <1>6 DEF IInv, TypeOK, CallPc, Resume, Call
  <2>1. TypeOK'
    BY <1>6, <2>0, <2>3 DEF IInv, TypeOK, Resume
  <2>2. QuietCall(k)
    BY <1>1, <1>2, <1>6 DEF IInv, TypeOK, QuietCall, SameLists, Resume, Resumable, Call, Idle,
           Created
  <2> QED
    BY <2>1, <2>2
<1>7. CASE Terminate(k, t)
  <2>1. TypeOK'
    BY <1>1, <1>7, SchedulerAssumption DEF IInv, TypeOK, CallPc, FiberAt, Terminate, Call, Idle,
           Created
  <2>2. QuietCall(k)
    BY <1>1, <1>2, <1>7 DEF IInv, TypeOK, QuietCall, SameLists, Terminate, Call, Idle, Created
  <2> QED
    BY <2>1, <2>2
<1>8. ASSUME NEW c \in Cpus, NEW p \in Prios, Create(k, t, c, p) PROVE TypeOK' /\ QuietCall(k)
  <2>1. /\ callPc[k] = "idle" /\ ~queued[t] /\ fiberAt' = [fiberAt EXCEPT ![t] = "fresh"]
        /\ priority' = [priority EXCEPT ![t] = p]
    BY <1>2, <1>8 DEF Create, Idle
  <2>4. /\ fiberAt' \in [Threads -> FiberAt] /\ currentCpu' \in [Threads -> Cpus]
        /\ priority' \in [Threads -> Prios]
        /\ UNCHANGED <<linkVars, listVars, cpuVars, sleepVars, loopVars, stateTerminated,
                       preemptRequested, reclaimed, callCpu, toWake>>
    BY <1>8 DEF IInv, TypeOK, FiberAt, Create
  <2>2. CASE Call(k, t, "markReady") /\ UNCHANGED suspendCount
    <3>1. TypeOK'
      BY <2>2, <2>4 DEF IInv, TypeOK, CallPc, Call
    <3>2. QuietCall(k)
      BY <1>8, <2>1, <2>2 DEF IInv, TypeOK, QuietCall, SameLists, Create, Call
    <3> QED
      BY <3>1, <3>2
  <2>3. CASE /\ MaxSuspend > 0 /\ suspendCount' = [suspendCount EXCEPT ![t] = 1]
             /\ UNCHANGED <<callPc, callThread>>
    <3>1. suspendCount' \in [Threads -> 0..MaxSuspend]
      BY <2>3, SchedulerAssumption DEF IInv, TypeOK
    <3>2. TypeOK'
      BY <2>3, <2>4, <3>1 DEF IInv, TypeOK
    <3>3. QuietCall(k)
      BY <1>8, <2>1, <2>3 DEF IInv, TypeOK, QuietCall, SameLists, Create
    <3> QED
      BY <3>2, <3>3
  <2> QED
    BY <1>8, <2>2, <2>3 DEF Create
<1>9. ASSUME NEW c \in Cpus, SetActiveCpu(k, t, c) PROVE TypeOK' /\ QuietCall(k)
  <2>1. TypeOK'
    BY <1>1, <1>9, SchedulerAssumption DEF IInv, TypeOK, CallPc, FiberAt, SetActiveCpu, Call,
           Idle, Created
  <2>2. QuietCall(k)
    BY <1>1, <1>2, <1>9 DEF IInv, TypeOK, QuietCall, SameLists, SetActiveCpu, Call, Idle, Created
  <2> QED
    BY <2>1, <2>2
<1>10. ASSUME NEW p \in Prios, PublishPriority(k, t, p) PROVE TypeOK' /\ QuietCall(k)
  <2>1. TypeOK'
    BY <1>1, <1>10, SchedulerAssumption DEF IInv, TypeOK, CallPc, FiberAt, PublishPriority, Call,
           Idle, Created
  <2>2. QuietCall(k)
    BY <1>1, <1>2, <1>10 DEF IInv, TypeOK, QuietCall, SameLists, PublishPriority, Call, Idle,
           Created
  <2> QED
    BY <2>1, <2>2
<1> QED
  BY <1>3, <1>4, <1>5, <1>6, <1>7, <1>8, <1>9, <1>10

-----------------------------------------------------------------------------
(* The critical sections on the lists, by the dispatch threads. *)

\* Moving a thread that is parked nowhere leaves the parked lists right.
LEMMA ParkedKeep ==
  ASSUME BlockedMatch, SuspendedMatch, NEW t \in Threads, ~blocked[t], ~suspended[t],
         UNCHANGED <<blocked, suspended, blockedList, suspendedList, kept>>,
         \A x \in Threads \ {t} : linkCpu'[x] = linkCpu[x]
  PROVE  BlockedMatch' /\ SuspendedMatch'
<1>1. ASSUME NEW d \in Cpus, NEW x \in Threads
      PROVE  /\ blocked'[x] /\ linkCpu'[x] = d <=> blocked[x] /\ linkCpu[x] = d
             /\ suspended'[x] /\ linkCpu'[x] = d <=> suspended[x] /\ linkCpu[x] = d
  OBVIOUS
<1>2. ASSUME NEW d \in Cpus
      PROVE  /\ {x \in Threads : blocked'[x] /\ linkCpu'[x] = d} =
                  {x \in Threads : blocked[x] /\ linkCpu[x] = d}
             /\ {x \in Threads : suspended'[x] /\ linkCpu'[x] = d} =
                  {x \in Threads : suspended[x] /\ linkCpu[x] = d}
  BY <1>1
<1> QED
  BY <1>2 DEF BlockedMatch, SuspendedMatch

\* What the invariant says of a thread that a dispatch thread stands on.
LEMMA Stander ==
  ASSUME IInv, NEW c \in Cpus, pc[c] \in Standing
  PROVE  /\ next[c] \in Threads /\ running[next[c]] /\ linkCpu[next[c]] = c
         /\ pc[c] # "back" =>
              ~queued[next[c]] /\ ~blocked[next[c]] /\ ~suspended[next[c]]
         /\ fiberAt[next[c]] # "none"
         /\ \A d \in Cpus \ {c} : pc[d] \in Standing => next[d] # next[c]
  BY DEF IInv, Control, Own, Fresh

\* A thread that is linked again is at the level of its priority; a call that is on its way
\* to requeue another thread is still on its way.
LEMMA RelinkedKeep ==
  ASSUME QueuedAtItsPriority, NEW t \in Threads, queuedPrio'[t] = priority[t],
         UNCHANGED priority,
         \A x \in Threads \ {t} : queued'[x] = queued[x] /\ queuedPrio'[x] = queuedPrio[x],
         \A k \in Callers : callPc[k] = "requeue" /\ callThread[k] # t =>
                             callPc'[k] = "requeue" /\ callThread'[k] = callThread[k]
  PROVE  QueuedAtItsPriority'
<1> SUFFICES ASSUME NEW x \in Threads, queued'[x], queuedPrio'[x] # priority'[x]
             PROVE  \E k \in Callers : callPc'[k] = "requeue" /\ callThread'[k] = x
  BY DEF QueuedAtItsPriority
<1>1. x # t /\ queued[x] /\ queuedPrio[x] # priority[x]
  OBVIOUS
<1>2. PICK k \in Callers : callPc[k] = "requeue" /\ callThread[k] = x
  BY <1>1 DEF QueuedAtItsPriority
<1> QED
  BY <1>1, <1>2

\* With lock_ free no walk is on.
LEMMA NoWalk == IInv /\ LockFree => \A c \in Cpus : pc[c] # "reready" /\ kept[c] = <<>>
  BY SchedulerAssumption DEF IInv, Control, Walk, LockFree

\* RereadyBlocked begins a walk only with lock_ free, so there is one walker.
LEMMA BeginRereadyKeeps ==
  ASSUME IInv, NEW c \in Cpus, BeginReready(c), UNCHANGED workload
  PROVE  IInv'
<1>1. TypeOK'
  BY DEF IInv, TypeOK, CpuPc, BeginReready
<1>2. Lists'
  BY SameListsKeep DEF IInv, SameLists, BeginReready
<1>3. \A d \in Cpus : pc[d] # "reready"
  BY NoWalk DEF BeginReready
<1>4. /\ pc[c] = "loop" /\ pc'[c] = "reready" /\ \A d \in Cpus \ {c} : pc'[d] = pc[d]
      /\ walker' = c
  BY DEF BeginReready, IInv, TypeOK
<1>5. Own'
  BY <1>4, ZenonT(60) DEF IInv, TypeOK, Control, Own, Standing, BeginReready
<1>6. YielderIsReadyHere' /\ QueuedAtItsPriority' /\ Calls' /\ Fresh'
  BY DEF IInv, Control, YielderIsReadyHere, QueuedAtItsPriority, Calls, Fresh, BeginReready
<1>7. Walk' /\ Homes'
  BY <1>3, <1>4 DEF IInv, Control, Walk, Homes, BeginReready
<1> QED
  BY <1>1, <1>2, <1>5, <1>6, <1>7 DEF IInv, Control

\* SwitchTo returns: nobody else stands on the thread that stops running.
LEMMA SwitchBackKeeps ==
  ASSUME IInv, NEW c \in Cpus, SwitchBack(c), UNCHANGED workload
  PROVE  IInv'
<1> DEFINE t == next[c]
<1>1. /\ pc[c] = "back" /\ t \in Threads /\ linkCpu[t] = c
      /\ \A d \in Cpus \ {c} : pc[d] \in Standing => next[d] # t
  BY Stander DEF SwitchBack, Standing
<1>2. /\ pc'[c] \in {"reclaim", "loop"} /\ next'[c] = NoThread
      /\ \A d \in Cpus \ {c} : pc'[d] = pc[d] /\ next'[d] = next[d]
      /\ ~running'[t] /\ \A x \in Threads \ {t} : running'[x] = running[x]
  BY <1>1 DEF SwitchBack, IInv, TypeOK
<1>3. TypeOK'
  BY <1>1 DEF IInv, TypeOK, CpuPc, SwitchBack
<1>4. Lists'
  BY SameListsKeep DEF IInv, SameLists, SwitchBack
<1>5. Own'
  <2> USE DEF Standing
  <2>1. UNCHANGED <<linkCpu, queued, blocked, suspended>>
    BY DEF SwitchBack
  <2>2. ASSUME NEW d \in Cpus, pc'[d] \in Standing
        PROVE  /\ next'[d] \in Threads /\ running'[next'[d]] /\ linkCpu'[next'[d]] = d
               /\ pc'[d] # "back" =>
                    ~queued'[next'[d]] /\ ~blocked'[next'[d]] /\ ~suspended'[next'[d]]
    BY <1>1, <1>2, <2>1, <2>2, Stander
  <2>3. ASSUME NEW x \in Threads, running'[x]
        PROVE  linkCpu'[x] \in Cpus /\ pc'[linkCpu'[x]] \in Standing /\ next'[linkCpu'[x]] = x
    BY <1>1, <1>2, <2>1, <2>3 DEF IInv, Control, Own
  <2> QED
    BY <2>2, <2>3 DEF Own
<1>6. YielderIsReadyHere' /\ QueuedAtItsPriority' /\ Calls'
  BY DEF IInv, Control, YielderIsReadyHere, QueuedAtItsPriority, Calls, SwitchBack
<1>7. Fresh'
  BY <1>1, <1>2 DEF IInv, Control, Fresh, SwitchBack
<1>8. Walk' /\ Homes'
  BY <1>1, <1>2 DEF IInv, Control, Walk, Homes, SwitchBack
<1> QED
  BY <1>3, <1>4, <1>5, <1>6, <1>7, <1>8 DEF IInv, Control

\* RereadyBlocked keeps a waiter: it moves from the list to the one that replaces it.
LEMMA KeepParkedKeeps ==
  ASSUME IInv, NEW c \in Cpus, KeepParked(c), UNCHANGED workload
  PROVE  IInv'
<1> DEFINE b == blockedList[c]
           t == Head(b)
<1>1. b \in Seq(Threads) /\ kept[c] \in Seq(Threads) /\ b # <<>>
  BY DEF IInv, TypeOK, KeepParked
<1>2. /\ Distinct(b) /\ Distinct(kept[c]) /\ Elems(b) \cap Elems(kept[c]) = {}
      /\ Elems(b) \cup Elems(kept[c]) = {x \in Threads : blocked[x] /\ linkCpu[x] = c}
  BY DEF IInv, Lists, BlockedMatch
<1>3. /\ t \in Threads /\ t \in Elems(b) /\ Tail(b) \in Seq(Threads)
      /\ Elems(Tail(b)) = Elems(b) \ {t} /\ Distinct(Tail(b))
  BY <1>1, <1>2, TailElems
<1>4. /\ LinkTail(kept[c], t) \in Seq(Threads)
      /\ Elems(LinkTail(kept[c], t)) = Elems(kept[c]) \cup {t}
      /\ Distinct(LinkTail(kept[c], t))
  <2>1. t \in Threads /\ t \notin Elems(kept[c]) /\ Distinct(kept[c])
    BY <1>2, <1>3
  <2> QED
    BY <1>1, <2>1, LinkTailElems, ZenonT(60)
<1> HIDE DEF b, t
<1>5. /\ blockedList' = [blockedList EXCEPT ![c] = Tail(b)]
      /\ kept' = [kept EXCEPT ![c] = LinkTail(kept[c], t)]
      /\ pc[c] = "reready"
  BY DEF KeepParked, b, t
<1>6. TypeOK'
  <2>1. blockedList' \in [Cpus -> Seq(Threads)] /\ kept' \in [Cpus -> Seq(Threads)]
    BY <1>3, <1>4, <1>5 DEF IInv, TypeOK
  <2> QED
    BY <2>1 DEF IInv, TypeOK, KeepParked
<1>7. BlockedMatch'
  <2> SUFFICES ASSUME NEW d \in Cpus
               PROVE  /\ Distinct(blockedList'[d]) /\ Distinct(kept'[d])
                      /\ Elems(blockedList'[d]) \cap Elems(kept'[d]) = {}
                      /\ Elems(blockedList'[d]) \cup Elems(kept'[d]) =
                           {x \in Threads : blocked[x] /\ linkCpu[x] = d}
    BY DEF BlockedMatch, KeepParked
  <2>1. CASE d = c
    <3>1. blockedList'[d] = Tail(b) /\ kept'[d] = LinkTail(kept[c], t)
      BY <1>5, <2>1 DEF IInv, TypeOK
    <3>2. /\ Elems(Tail(b)) \cap Elems(LinkTail(kept[c], t)) = {}
          /\ Elems(Tail(b)) \cup Elems(LinkTail(kept[c], t)) = Elems(b) \cup Elems(kept[c])
      BY <1>2, <1>3, <1>4
    <3> QED
      BY <1>2, <1>3, <1>4, <2>1, <3>1, <3>2
  <2>2. CASE d # c
    BY <1>5, <2>2 DEF IInv, TypeOK, Lists, BlockedMatch
  <2> QED
    BY <2>1, <2>2
<1>8. Lists'
  BY <1>7 DEF IInv, Lists, ReadyMatch, SummaryExact, SuspendedMatch, OnOneList, KeepParked
<1>9. Own' /\ YielderIsReadyHere' /\ QueuedAtItsPriority' /\ Calls' /\ Fresh' /\ Homes'
  BY DEF IInv, Control, Own, YielderIsReadyHere, QueuedAtItsPriority, Calls, Fresh, Homes,
         KeepParked
<1>10. Walk'
  BY <1>5 DEF IInv, TypeOK, Control, Walk, KeepParked
<1> QED
  BY <1>6, <1>8, <1>9, <1>10 DEF IInv, Control

\* The walk ends with the list empty, and what was kept takes its place.
LEMMA EndRereadyKeeps ==
  ASSUME IInv, NEW c \in Cpus, EndReready(c), UNCHANGED workload
  PROVE  IInv'
<1>1. /\ pc[c] = "reready" /\ pc'[c] = "dequeue" /\ \A d \in Cpus \ {c} : pc'[d] = pc[d]
      /\ blockedList[c] = <<>> /\ blockedList'[c] = kept[c] /\ kept'[c] = <<>>
      /\ \A d \in Cpus \ {c} : blockedList'[d] = blockedList[d] /\ kept'[d] = kept[d]
  BY DEF EndReready, IInv, TypeOK
<1>2. TypeOK'
  BY DEF IInv, TypeOK, CpuPc, EndReready
<1>3. BlockedMatch'
  <2> SUFFICES ASSUME NEW d \in Cpus
               PROVE  /\ Distinct(blockedList'[d]) /\ Distinct(kept'[d])
                      /\ Elems(blockedList'[d]) \cap Elems(kept'[d]) = {}
                      /\ Elems(blockedList'[d]) \cup Elems(kept'[d]) =
                           {x \in Threads : blocked[x] /\ linkCpu[x] = d}
    BY DEF BlockedMatch, EndReready
  <2>1. /\ Distinct(blockedList[d]) /\ Distinct(kept[d])
        /\ Elems(blockedList[d]) \cap Elems(kept[d]) = {}
        /\ Elems(blockedList[d]) \cup Elems(kept[d]) =
             {x \in Threads : blocked[x] /\ linkCpu[x] = d}
    BY DEF IInv, Lists, BlockedMatch
  <2>2. Elems(<<>>) = {} /\ Distinct(<<>>)
    BY DEF Elems, Distinct
  <2> QED
    BY <1>1, <2>1, <2>2
<1>4. Lists'
  BY <1>3 DEF IInv, Lists, ReadyMatch, SummaryExact, SuspendedMatch, OnOneList, EndReready
<1>5. Own'
  BY <1>1 DEF IInv, Control, Own, Standing, EndReready
<1>6. YielderIsReadyHere' /\ QueuedAtItsPriority' /\ Calls' /\ Fresh'
  BY DEF IInv, Control, YielderIsReadyHere, QueuedAtItsPriority, Calls, Fresh, EndReready
<1>7. Walk' /\ Homes'
  BY <1>1, SchedulerAssumption DEF IInv, Control, Walk, Homes, EndReready
<1> QED
  BY <1>2, <1>4, <1>5, <1>6, <1>7 DEF IInv, Control

\* A fiber that blocks is parked on the CPU it stands on, and still runs there.
LEMMA ParkBlockedKeeps ==
  ASSUME IInv, NEW c \in Cpus, ParkBlocked(c), UNCHANGED workload
  PROVE  IInv'
<1> DEFINE t == next[c]
<1>1. /\ pc[c] = "park" /\ t \in Threads /\ linkCpu[t] = c /\ running[t]
      /\ ~queued[t] /\ ~blocked[t] /\ ~suspended[t] /\ kept[c] = <<>>
  BY Stander, NoWalk DEF ParkBlocked, Standing
<1>2. /\ pc'[c] = "back" /\ \A d \in Cpus \ {c} : pc'[d] = pc[d]
      /\ blocked'[t] /\ \A x \in Threads \ {t} : blocked'[x] = blocked[x]
      /\ \A x \in Threads : linkCpu'[x] = linkCpu[x]
  BY <1>1 DEF ParkBlocked, IInv, TypeOK
<1>3. /\ blockedList[c] \in Seq(Threads) /\ Distinct(blockedList[c])
      /\ t \notin Elems(blockedList[c])
  BY <1>1 DEF IInv, TypeOK, Lists, BlockedMatch
<1> DEFINE b == LinkTail(blockedList[c], t)
<1>4. b \in Seq(Threads) /\ Elems(b) = Elems(blockedList[c]) \cup {t} /\ Distinct(b)
  BY <1>1, <1>3, LinkTailElems
<1> HIDE DEF b
<1>5. blockedList' = [blockedList EXCEPT ![c] = b]
  BY DEF ParkBlocked, b
<1>6. blockedList' \in [Cpus -> Seq(Threads)] /\ repollNow' \in [Cpus -> BOOLEAN]
  BY <1>4, <1>5 DEF ParkBlocked, IInv, TypeOK
<1>7. TypeOK'
  BY <1>1, <1>6 DEF IInv, TypeOK, CpuPc, ParkBlocked
<1>8. BlockedMatch'
  <2> SUFFICES ASSUME NEW d \in Cpus
               PROVE  /\ Distinct(blockedList'[d]) /\ Distinct(kept[d])
                      /\ Elems(blockedList'[d]) \cap Elems(kept[d]) = {}
                      /\ Elems(blockedList'[d]) \cup Elems(kept[d]) =
                           {x \in Threads : blocked'[x] /\ linkCpu'[x] = d}
    BY DEF BlockedMatch, ParkBlocked
  <2>1. /\ Distinct(blockedList[d]) /\ Distinct(kept[d])
        /\ Elems(blockedList[d]) \cap Elems(kept[d]) = {}
        /\ Elems(blockedList[d]) \cup Elems(kept[d]) =
             {x \in Threads : blocked[x] /\ linkCpu[x] = d}
    BY DEF IInv, Lists, BlockedMatch
  <2>2. CASE d = c
    <3>1. blockedList'[d] = b /\ Elems(kept[d]) = {}
      BY <1>1, <1>5, <2>2 DEF IInv, TypeOK, Elems
    <3> QED
      BY <1>1, <1>2, <1>4, <2>1, <2>2, <3>1
  <2>3. CASE d # c
    <3>1. blockedList'[d] = blockedList[d]
      BY <1>5, <2>3 DEF IInv, TypeOK
    <3> QED
      BY <1>1, <1>2, <2>1, <2>3, <3>1
  <2> QED
    BY <2>2, <2>3
<1>9. ReadyMatch' /\ SummaryExact' /\ SuspendedMatch'
  BY <1>2 DEF IInv, Lists, ReadyMatch, SummaryExact, SuspendedMatch, ParkBlocked
<1>10. OnOneList'
  BY <1>1, <1>2 DEF IInv, Lists, OnOneList, ParkBlocked
<1>11. Own'
  BY <1>1, <1>2 DEF IInv, Control, Own, Standing, ParkBlocked
<1>12. YielderIsReadyHere' /\ QueuedAtItsPriority' /\ Calls'
  BY <1>2 DEF IInv, TypeOK, Control, YielderIsReadyHere, QueuedAtItsPriority, Calls, ParkBlocked
<1>13. Fresh'
  BY <1>1, <1>2 DEF IInv, Control, Fresh, ParkBlocked
<1>14. Walk' /\ Homes'
  BY <1>1, <1>2 DEF IInv, Control, Walk, Homes, ParkBlocked
<1> QED
  BY <1>7, <1>8, <1>9, <1>10, <1>11, <1>12, <1>13, <1>14 DEF IInv, Lists, Control

\* A dispatch thread parks a thread whose suspend count it finds not zero.
LEMMA ParkSuspendedKeeps ==
  ASSUME IInv, NEW c \in Cpus, ParkSuspended(c), UNCHANGED workload
  PROVE  IInv'
<1> DEFINE t == next[c]
<1>1. /\ pc[c] = "hold" /\ t \in Threads /\ linkCpu[t] = c /\ running[t] /\ fiberAt[t] # "none"
      /\ ~queued[t] /\ ~blocked[t] /\ ~suspended[t]
      /\ \A d \in Cpus \ {c} : pc[d] \in Standing => next[d] # t
  BY Stander DEF ParkSuspended, Standing
<1>2. /\ pc'[c] = "loop" /\ \A d \in Cpus \ {c} : pc'[d] = pc[d] /\ next'[d] = next[d]
      /\ suspended'[t] /\ \A x \in Threads \ {t} : suspended'[x] = suspended[x]
      /\ ~running'[t] /\ \A x \in Threads \ {t} : running'[x] = running[x]
      /\ \A x \in Threads : linkCpu'[x] = linkCpu[x]
  BY <1>1 DEF ParkSuspended, IInv, TypeOK
<1>3. /\ suspendedList[c] \in Seq(Threads) /\ Distinct(suspendedList[c])
      /\ t \notin Elems(suspendedList[c])
  BY <1>1 DEF IInv, TypeOK, Lists, SuspendedMatch
<1> DEFINE b == LinkTail(suspendedList[c], t)
<1>4. b \in Seq(Threads) /\ Elems(b) = Elems(suspendedList[c]) \cup {t} /\ Distinct(b)
  BY <1>1, <1>3, LinkTailElems
<1> HIDE DEF b
<1>5. suspendedList' = [suspendedList EXCEPT ![c] = b]
  BY DEF ParkSuspended, b
<1>6. suspendedList' \in [Cpus -> Seq(Threads)]
  BY <1>4, <1>5 DEF IInv, TypeOK
<1>7. TypeOK'
  BY <1>1, <1>6 DEF IInv, TypeOK, CpuPc, ParkSuspended
<1>8. SuspendedMatch'
  <2> SUFFICES ASSUME NEW d \in Cpus
               PROVE  /\ Distinct(suspendedList'[d])
                      /\ Elems(suspendedList'[d]) =
                           {x \in Threads : suspended'[x] /\ linkCpu'[x] = d}
    BY DEF SuspendedMatch
  <2>1. /\ Distinct(suspendedList[d])
        /\ Elems(suspendedList[d]) = {x \in Threads : suspended[x] /\ linkCpu[x] = d}
    BY DEF IInv, Lists, SuspendedMatch
  <2>2. CASE d = c
    <3>1. suspendedList'[d] = b
      BY <1>5, <2>2 DEF IInv, TypeOK
    <3> QED
      BY <1>1, <1>2, <1>4, <2>1, <2>2, <3>1
  <2>3. CASE d # c
    <3>1. suspendedList'[d] = suspendedList[d]
      BY <1>5, <2>3 DEF IInv, TypeOK
    <3> QED
      BY <1>1, <1>2, <2>1, <2>3, <3>1
  <2> QED
    BY <2>2, <2>3
<1>9. ReadyMatch' /\ SummaryExact' /\ BlockedMatch'
  BY <1>2, SMTT(30) DEF IInv, Lists, ReadyMatch, SummaryExact, BlockedMatch, ParkSuspended
<1>10. OnOneList'
  BY <1>1, <1>2 DEF IInv, Lists, OnOneList, ParkSuspended
<1>11. Own'
  <2> USE DEF Standing
  <2>1. ASSUME NEW d \in Cpus, pc'[d] \in Standing
        PROVE  /\ next'[d] \in Threads /\ running'[next'[d]] /\ linkCpu'[next'[d]] = d
               /\ pc'[d] # "back" =>
                    ~queued'[next'[d]] /\ ~blocked'[next'[d]] /\ ~suspended'[next'[d]]
    <3>1. d # c /\ next'[d] = next[d] /\ next[d] # t /\ pc'[d] = pc[d]
      BY <1>1, <1>2, <2>1
    <3> QED
      BY <1>2, <2>1, <3>1, Stander DEF ParkSuspended
  <2>2. ASSUME NEW x \in Threads, running'[x]
        PROVE  linkCpu'[x] \in Cpus /\ pc'[linkCpu'[x]] \in Standing /\ next'[linkCpu'[x]] = x
    BY <1>1, <1>2, <2>2 DEF IInv, Control, Own
  <2> QED
    BY <2>1, <2>2 DEF Own
<1>12. YielderIsReadyHere' /\ QueuedAtItsPriority' /\ Calls'
  BY <1>2 DEF IInv, TypeOK, Control, YielderIsReadyHere, QueuedAtItsPriority, Calls,
              ParkSuspended
<1>13. Fresh'
  BY <1>1, <1>2 DEF IInv, Control, Fresh, ParkSuspended
<1>14. Walk' /\ Homes'
  BY <1>1, <1>2 DEF IInv, Control, Walk, Homes, ParkSuspended
<1> QED
  BY <1>7, <1>8, <1>9, <1>10, <1>11, <1>12, <1>13, <1>14 DEF IInv, Lists, Control

\* RereadyBlocked hands one waiter over.  It runs nowhere: its CPU is in the walk.
LEMMA RereadyOneKeeps ==
  ASSUME IInv, NEW c \in Cpus, RereadyOne(c), UNCHANGED workload
  PROVE  IInv'
<1> DEFINE b == blockedList[c]
           t == Head(b)
           target == currentCpu[t]
<1>1. b \in Seq(Threads) /\ kept[c] \in Seq(Threads) /\ b # <<>> /\ pc[c] = "reready"
  BY DEF IInv, TypeOK, RereadyOne
<1>2. /\ Distinct(b) /\ Distinct(kept[c]) /\ Elems(b) \cap Elems(kept[c]) = {}
      /\ Elems(b) \cup Elems(kept[c]) = {x \in Threads : blocked[x] /\ linkCpu[x] = c}
  BY DEF IInv, Lists, BlockedMatch
<1>3. /\ t \in Threads /\ t \in Elems(b) /\ Tail(b) \in Seq(Threads)
      /\ Elems(Tail(b)) = Elems(b) \ {t} /\ Distinct(Tail(b))
  BY <1>1, <1>2, TailElems
<1>4. blocked[t] /\ linkCpu[t] = c /\ t \notin Elems(kept[c])
  BY <1>2, <1>3
<1>5. ~queued[t] /\ ~suspended[t] /\ ~running[t] /\ target \in Cpus /\ fiberAt[t] # "none"
  <2>1. ~queued[t] /\ ~suspended[t]
    BY <1>3, <1>4 DEF IInv, Lists, OnOneList
  <2>2. target \in Cpus
    BY <1>3 DEF IInv, TypeOK
  <2>3. fiberAt[t] # "none"
    BY <1>3, <1>4 DEF IInv, Control, Fresh
  <2>4. ~running[t]
    BY <1>1, <1>3, <1>4 DEF IInv, Control, Own, Standing
  <2> QED
    BY <2>1, <2>2, <2>3, <2>4
<1>6. /\ blockedList' = [blockedList EXCEPT ![c] = Tail(b)]
      /\ blocked' = [blocked EXCEPT ![t] = FALSE] /\ queued' = [queued EXCEPT ![t] = TRUE]
      /\ linkCpu' = [linkCpu EXCEPT ![t] = target]
      /\ LinkReady(ready, readySummary, target, t, headRequeue[t], TRUE)
      /\ toWake' = [toWake EXCEPT ![c] = @ \cup ({target} \ {c})]
      /\ UNCHANGED <<suspended, running, suspendedList, kept, walker, yieldToOther, pc, next,
                     home, priority, fiberAt, callVars>>
  BY DEF RereadyOne
<1> HIDE DEF b, t, target
<1>7. /\ queued'[t] /\ ~blocked'[t] /\ linkCpu'[t] = target
      /\ \A x \in Threads \ {t} : /\ queued'[x] = queued[x] /\ linkCpu'[x] = linkCpu[x]
                                  /\ blocked'[x] = blocked[x]
  BY <1>3, <1>6 DEF IInv, TypeOK
<1>8. Without(ready, readySummary, t)
  BY <1>3, <1>5, NotReadyWithout DEF IInv, Lists
<1>9. /\ ready' \in [Cpus -> [Prios -> Seq(Threads)]]
      /\ readySummary' \in [Cpus -> SUBSET Prios]
      /\ queuedPrio' \in [Threads -> Prios] /\ queuedPrio'[t] = priority[t]
      /\ \A x \in Threads \ {t} : queuedPrio'[x] = queuedPrio[x]
      /\ headRequeue' \in [Threads -> BOOLEAN]
      /\ preemptRequested' \in [Threads -> BOOLEAN]
      /\ ReadyMatch' /\ SummaryExact'
  BY <1>3, <1>5, <1>6, <1>7, <1>8, LinkReadyDoes DEF IInv
<1>10. /\ blockedList' \in [Cpus -> Seq(Threads)] /\ blocked' \in [Threads -> BOOLEAN]
       /\ queued' \in [Threads -> BOOLEAN] /\ linkCpu' \in [Threads -> Cpus \cup {NoCpu}]
       /\ toWake' \in [Actors -> SUBSET Cpus]
  BY <1>3, <1>5, <1>6 DEF IInv, TypeOK, Actors
<1>11. TypeOK'
  BY <1>9, <1>10 DEF IInv, TypeOK, RereadyOne
<1>12. BlockedMatch'
  <2> SUFFICES ASSUME NEW d \in Cpus
               PROVE  /\ Distinct(blockedList'[d]) /\ Distinct(kept[d])
                      /\ Elems(blockedList'[d]) \cap Elems(kept[d]) = {}
                      /\ Elems(blockedList'[d]) \cup Elems(kept[d]) =
                           {x \in Threads : blocked'[x] /\ linkCpu'[x] = d}
    BY <1>6 DEF BlockedMatch
  <2>1. CASE d = c
    <3>1. blockedList'[d] = Tail(b)
      BY <1>6, <2>1 DEF IInv, TypeOK
    <3>2. {x \in Threads : blocked'[x] /\ linkCpu'[x] = d} =
            {x \in Threads : blocked[x] /\ linkCpu[x] = c} \ {t}
      BY <1>7, <2>1
    <3> QED
      BY <1>2, <1>3, <1>4, <2>1, <3>1, <3>2
  <2>2. CASE d # c
    <3>1. blockedList'[d] = blockedList[d]
      BY <1>6, <2>2 DEF IInv, TypeOK
    <3>2. {x \in Threads : blocked'[x] /\ linkCpu'[x] = d} =
            {x \in Threads : blocked[x] /\ linkCpu[x] = d}
      BY <1>4, <1>7, <2>2
    <3> QED
      BY <3>1, <3>2 DEF IInv, Lists, BlockedMatch
  <2> QED
    BY <2>1, <2>2
<1>13. SuspendedMatch'
  <2>1. ASSUME NEW d \in Cpus
        PROVE  {x \in Threads : suspended'[x] /\ linkCpu'[x] = d} =
                 {x \in Threads : suspended[x] /\ linkCpu[x] = d}
    BY <1>5, <1>6, <1>7
  <2> QED
    BY <1>6, <2>1 DEF IInv, Lists, SuspendedMatch
<1>14. OnOneList'
  BY <1>5, <1>6, <1>7 DEF IInv, Lists, OnOneList
<1>15. Own'
  BY <1>5, <1>6, <1>7 DEF IInv, Control, Own
<1>16. YielderIsReadyHere' /\ QueuedAtItsPriority'
  <2>1. QueuedAtItsPriority'
    BY <1>3, <1>6, <1>7, <1>9, RelinkedKeep DEF IInv, Control
  <2>2. YielderIsReadyHere'
    BY <1>5, <1>6, <1>7 DEF IInv, TypeOK, Control, YielderIsReadyHere
  <2> QED
    BY <2>1, <2>2
<1>17. Calls' /\ Fresh' /\ Walk' /\ Homes'
  BY <1>5, <1>6, <1>7 DEF IInv, Control, Calls, Fresh, Walk, Homes
<1> QED
  BY <1>9, <1>11, <1>12, <1>13, <1>14, <1>15, <1>16, <1>17 DEF IInv, Lists, Control

\* The loop gives back a thread that belongs to another CPU now.
LEMMA MigrateHomeKeeps ==
  ASSUME IInv, NEW c \in Cpus, MigrateHome(c), UNCHANGED workload
  PROVE  IInv'
<1> DEFINE t == next[c]
           target == home[c]
<1>1. /\ pc[c] = "migrate" /\ t \in Threads /\ linkCpu[t] = c /\ running[t]
      /\ fiberAt[t] # "none" /\ ~queued[t] /\ ~blocked[t] /\ ~suspended[t]
      /\ \A d \in Cpus \ {c} : pc[d] \in Standing => next[d] # t
  BY Stander DEF MigrateHome, Standing
<1>2. target \in Cpus
  BY <1>1 DEF IInv, Control, Homes
<1>3. /\ running' = [running EXCEPT ![t] = FALSE] /\ queued' = [queued EXCEPT ![t] = TRUE]
      /\ linkCpu' = [linkCpu EXCEPT ![t] = target]
      /\ LinkReady(ready, readySummary, target, t, headRequeue[t], TRUE)
      /\ toWake' = [toWake EXCEPT ![c] = {target}]
      /\ pc' = [pc EXCEPT ![c] = "loop"] /\ next' = [next EXCEPT ![c] = NoThread]
      /\ home' = [home EXCEPT ![c] = NoCpu]
      /\ UNCHANGED <<blocked, suspended, blockedList, suspendedList, kept, walker, yieldToOther,
                     priority, fiberAt, callVars>>
  BY DEF MigrateHome
<1> HIDE DEF t, target
<1>4. /\ queued'[t] /\ linkCpu'[t] = target /\ ~running'[t]
      /\ \A x \in Threads \ {t} : /\ queued'[x] = queued[x] /\ linkCpu'[x] = linkCpu[x]
                                  /\ running'[x] = running[x]
      /\ pc'[c] = "loop" /\ home'[c] = NoCpu
      /\ \A d \in Cpus \ {c} : pc'[d] = pc[d] /\ next'[d] = next[d] /\ home'[d] = home[d]
  BY <1>1, <1>3 DEF IInv, TypeOK
<1>5. Without(ready, readySummary, t)
  BY <1>1, NotReadyWithout DEF IInv, Lists
<1>6. /\ ready' \in [Cpus -> [Prios -> Seq(Threads)]]
      /\ readySummary' \in [Cpus -> SUBSET Prios]
      /\ queuedPrio' \in [Threads -> Prios] /\ queuedPrio'[t] = priority[t]
      /\ \A x \in Threads \ {t} : queuedPrio'[x] = queuedPrio[x]
      /\ headRequeue' \in [Threads -> BOOLEAN]
      /\ preemptRequested' \in [Threads -> BOOLEAN]
      /\ ReadyMatch' /\ SummaryExact'
  BY <1>1, <1>2, <1>3, <1>4, <1>5, LinkReadyDoes DEF IInv
<1>7. /\ running' \in [Threads -> BOOLEAN] /\ queued' \in [Threads -> BOOLEAN]
      /\ linkCpu' \in [Threads -> Cpus \cup {NoCpu}] /\ toWake' \in [Actors -> SUBSET Cpus]
      /\ pc' \in [Cpus -> CpuPc] /\ next' \in [Cpus -> Threads \cup {NoThread}]
      /\ home' \in [Cpus -> Cpus \cup {NoCpu}]
  <2>1. running' \in [Threads -> BOOLEAN] /\ queued' \in [Threads -> BOOLEAN]
    BY <1>3 DEF IInv, TypeOK
  <2>2. linkCpu' \in [Threads -> Cpus \cup {NoCpu}] /\ home' \in [Cpus -> Cpus \cup {NoCpu}]
    BY <1>2, <1>3 DEF IInv, TypeOK
  <2>3. toWake' \in [Actors -> SUBSET Cpus]
    BY <1>2, <1>3 DEF IInv, TypeOK
  <2>4. pc' \in [Cpus -> CpuPc] /\ next' \in [Cpus -> Threads \cup {NoThread}]
    BY <1>3 DEF IInv, TypeOK, CpuPc
  <2> QED
    BY <2>1, <2>2, <2>3, <2>4
<1>8. TypeOK'
  BY <1>6, <1>7 DEF IInv, TypeOK, MigrateHome
<1>9. BlockedMatch' /\ SuspendedMatch'
  BY <1>1, <1>3, <1>4, ParkedKeep DEF IInv, Lists
<1>10. OnOneList'
  BY <1>1, <1>2, <1>3, <1>4 DEF IInv, Lists, OnOneList
<1>11. Own'
  <2>1. ASSUME NEW d \in Cpus, pc'[d] \in Standing
        PROVE  /\ next'[d] \in Threads /\ running'[next'[d]] /\ linkCpu'[next'[d]] = d
               /\ pc'[d] # "back" =>
                    ~queued'[next'[d]] /\ ~blocked'[next'[d]] /\ ~suspended'[next'[d]]
    <3>1. d # c /\ next'[d] = next[d] /\ next[d] # t /\ pc'[d] = pc[d] /\ pc[d] \in Standing
      BY <1>1, <1>4, <2>1 DEF Standing
    <3> QED
      BY <1>3, <1>4, <3>1, Stander
  <2>2. ASSUME NEW x \in Threads, running'[x]
        PROVE  linkCpu'[x] \in Cpus /\ pc'[linkCpu'[x]] \in Standing /\ next'[linkCpu'[x]] = x
    <3>1. x # t /\ running[x] /\ linkCpu'[x] = linkCpu[x]
      BY <1>4, <2>2
    <3>2. linkCpu[x] \in Cpus /\ pc[linkCpu[x]] \in Standing /\ next[linkCpu[x]] = x
      BY <3>1 DEF IInv, Control, Own
    <3> QED
      BY <1>4, <3>1, <3>2 DEF t
  <2> QED
    BY <2>1, <2>2 DEF Own
<1>12. QueuedAtItsPriority'
  BY <1>1, <1>3, <1>4, <1>6, RelinkedKeep, ZenonT(60) DEF IInv, Control
<1>13. YielderIsReadyHere'
  BY <1>1, <1>3, <1>4 DEF IInv, TypeOK, Control, YielderIsReadyHere
<1>14. Calls' /\ Fresh' /\ Walk' /\ Homes'
  BY <1>1, <1>3, <1>4 DEF IInv, Control, Calls, Fresh, Walk, Homes
<1> QED
  BY <1>6, <1>8, <1>9, <1>10, <1>11, <1>12, <1>13, <1>14 DEF IInv, Lists, Control

\* A fiber that yields queues itself on the CPU it stands on.
LEMMA EnqueueSelfKeeps ==
  ASSUME IInv, NEW c \in Cpus, EnqueueSelf(c), UNCHANGED workload
  PROVE  IInv'
<1> DEFINE t == next[c]
<1>1. /\ pc[c] = "enqueue" /\ t \in Threads /\ linkCpu[t] = c /\ running[t]
      /\ fiberAt[t] # "none" /\ ~queued[t] /\ ~blocked[t] /\ ~suspended[t]
      /\ \A d \in Cpus \ {c} : pc[d] \in Standing => next[d] # t
  BY Stander DEF EnqueueSelf, Standing
<1>2. Enqueueable(t, c)
  BY <1>1 DEF Enqueueable
<1>3. /\ LinkReady(ready, readySummary, c, t, headRequeue[t], TRUE)
      /\ queued' = [queued EXCEPT ![t] = TRUE] /\ linkCpu' = [linkCpu EXCEPT ![t] = c]
      /\ \/ yieldToOther' = yieldToOther
         \/ yieldToOther' = [yieldToOther EXCEPT ![c] = t]
  BY <1>2 DEF EnqueueSelf, EnqueueReady
<1>4. /\ pc' = [pc EXCEPT ![c] = "back"] /\ toLower' = [toLower EXCEPT ![c] = FALSE]
      /\ UNCHANGED <<blocked, suspended, blockedList, suspendedList, kept, walker, running, next,
                     home, priority, fiberAt, callVars>>
  BY DEF EnqueueSelf
<1> HIDE DEF t
<1>5. /\ queued'[t] /\ linkCpu'[t] = c /\ pc'[c] = "back"
      /\ \A x \in Threads \ {t} : queued'[x] = queued[x] /\ linkCpu'[x] = linkCpu[x]
      /\ \A d \in Cpus \ {c} : pc'[d] = pc[d]
  BY <1>1, <1>3, <1>4 DEF IInv, TypeOK
<1>6. Without(ready, readySummary, t)
  BY <1>1, NotReadyWithout DEF IInv, Lists
<1>7. /\ ready' \in [Cpus -> [Prios -> Seq(Threads)]]
      /\ readySummary' \in [Cpus -> SUBSET Prios]
      /\ queuedPrio' \in [Threads -> Prios] /\ queuedPrio'[t] = priority[t]
      /\ \A x \in Threads \ {t} : queuedPrio'[x] = queuedPrio[x]
      /\ headRequeue' \in [Threads -> BOOLEAN]
      /\ preemptRequested' \in [Threads -> BOOLEAN]
      /\ ReadyMatch' /\ SummaryExact'
  BY <1>1, <1>3, <1>5, <1>6, LinkReadyDoes DEF IInv
<1>8. /\ queued' \in [Threads -> BOOLEAN] /\ linkCpu' \in [Threads -> Cpus \cup {NoCpu}]
      /\ pc' \in [Cpus -> CpuPc] /\ toLower' \in [Cpus -> BOOLEAN]
  BY <1>1, <1>3, <1>4 DEF IInv, TypeOK, CpuPc
<1>16. yieldToOther' \in [Cpus -> Threads \cup {NoThread}]
  BY <1>1, <1>3 DEF IInv, TypeOK
<1>9. TypeOK'
  BY <1>7, <1>8, <1>16 DEF IInv, TypeOK, EnqueueSelf
<1>10. BlockedMatch' /\ SuspendedMatch'
  BY <1>1, <1>4, <1>5, ParkedKeep DEF IInv, Lists
<1>11. OnOneList'
  BY <1>1, <1>4, <1>5 DEF IInv, Lists, OnOneList
<1>12. Own'
  <2>1. ASSUME NEW d \in Cpus, pc'[d] \in Standing
        PROVE  /\ next'[d] \in Threads /\ running'[next'[d]] /\ linkCpu'[next'[d]] = d
               /\ pc'[d] # "back" =>
                    ~queued'[next'[d]] /\ ~blocked'[next'[d]] /\ ~suspended'[next'[d]]
    <3>1. CASE d = c
      BY <1>1, <1>4, <1>5, <3>1 DEF t
    <3>2. CASE d # c
      <4>1. next'[d] = next[d] /\ next[d] # t /\ pc'[d] = pc[d] /\ pc[d] \in Standing
        BY <1>1, <1>4, <1>5, <2>1, <3>2
      <4> QED
        BY <1>4, <1>5, <4>1, Stander
    <3> QED
      BY <3>1, <3>2
  <2>2. ASSUME NEW x \in Threads, running'[x]
        PROVE  linkCpu'[x] \in Cpus /\ pc'[linkCpu'[x]] \in Standing /\ next'[linkCpu'[x]] = x
    <3>1. linkCpu[x] \in Cpus /\ pc[linkCpu[x]] \in Standing /\ next[linkCpu[x]] = x
      BY <1>4, <2>2 DEF IInv, Control, Own
    <3>2. linkCpu'[x] = linkCpu[x]
      BY <1>1, <1>5
    <3> QED
      BY <1>4, <1>5, <3>1, <3>2 DEF Standing
  <2> QED
    BY <2>1, <2>2 DEF Own
<1>13. QueuedAtItsPriority'
  BY <1>1, <1>4, <1>5, <1>7, RelinkedKeep DEF IInv, Control
<1>14. YielderIsReadyHere'
  <2> SUFFICES ASSUME NEW d \in Cpus, yieldToOther'[d] # NoThread
               PROVE  queued'[yieldToOther'[d]] /\ linkCpu'[yieldToOther'[d]] = d
    BY DEF YielderIsReadyHere
  <2>1. \/ yieldToOther'[d] = yieldToOther[d]
        \/ d = c /\ yieldToOther'[d] = t
    BY <1>3 DEF IInv, TypeOK
  <2>2. CASE yieldToOther'[d] = yieldToOther[d]
    <3>1. yieldToOther[d] \in Threads
      BY <2>2 DEF IInv, TypeOK
    <3>2. queued[yieldToOther[d]] /\ linkCpu[yieldToOther[d]] = d
      BY <2>2 DEF IInv, Control, YielderIsReadyHere
    <3> QED
      BY <1>1, <1>5, <2>2, <3>1, <3>2
  <2>3. CASE d = c /\ yieldToOther'[d] = t
    BY <1>5, <2>3
  <2> QED
    BY <2>1, <2>2, <2>3
<1>15. Calls' /\ Fresh' /\ Walk' /\ Homes'
  BY <1>1, <1>4, <1>5 DEF IInv, Control, Calls, Fresh, Walk, Homes
<1> QED
  BY <1>7, <1>9, <1>10, <1>11, <1>12, <1>13, <1>14, <1>15 DEF IInv, Lists, Control

\* The head of a level is ready on this CPU, at this level.
LEMMA HeadIsReady ==
  ASSUME IInv, NEW c \in Cpus, NEW p \in readySummary[c]
  PROVE  LET t == Head(ready[c][p])
         IN t \in Threads /\ queued[t] /\ linkCpu[t] = c /\ queuedPrio[t] = p
<1>1. p \in Prios /\ ready[c][p] # <<>> /\ ready[c][p] \in Seq(Threads)
  BY DEF IInv, TypeOK, Lists, SummaryExact
<1>2. Head(ready[c][p]) \in Threads /\ Head(ready[c][p]) \in Elems(ready[c][p])
  BY <1>1, TailElems
<1>3. Elems(ready[c][p]) = {t \in Threads : queued[t] /\ linkCpu[t] = c /\ queuedPrio[t] = p}
  BY <1>1 DEF IInv, Lists, ReadyMatch
<1> QED
  BY <1>2, <1>3

\* Whatever HighestReadyExcept finds is ready on this CPU.
LEMMA OtherIsReady ==
  ASSUME IInv, NEW c \in Cpus, NEW t
  PROVE  LET other == HighestReadyExcept(c, t)
         IN other # NoThread => other \in Threads /\ queued[other] /\ linkCpu[other] = c
<1> DEFINE levels == {p \in readySummary[c] : Elems(ready[c][p]) \ {t} # {}}
           h == Highest(levels)
           s == ready[c][h]
           other == HighestReadyExcept(c, t)
<1>1. CASE levels = {}
  BY <1>1 DEF HighestReadyExcept
<1>2. CASE levels # {}
  <2>1. levels \subseteq Prios
    BY DEF IInv, TypeOK
  <2>2. h \in levels
    BY <1>2, <2>1, HighestIs
  <2>3. h \in Prios /\ s \in Seq(Threads) /\ Elems(s) \ {t} # {}
    BY <2>1, <2>2 DEF IInv, TypeOK
  <2>4. other = IF s[1] # t THEN s[1] ELSE s[2]
    BY <1>2, Zenon DEF HighestReadyExcept
  <2>5. Elems(s) = {x \in Threads : queued[x] /\ linkCpu[x] = c /\ queuedPrio[x] = h}
    BY <2>3 DEF IInv, Lists, ReadyMatch
  <2> HIDE DEF levels, h, s, other
  <2>6. PICK i \in 1..Len(s) : s[i] # t
    BY <2>3 DEF Elems
  <2>7. other \in Elems(s)
    <3>1. CASE s[1] # t
      BY <2>3, <2>4, <2>6, <3>1, ElemAt
    <3>2. CASE s[1] = t
      BY <2>3, <2>4, <2>6, <3>2, ElemAt
    <3> QED
      BY <3>1, <3>2
  <2> QED
    BY <2>5, <2>7 DEF other
<1> QED
  BY <1>1, <1>2

\* What DequeueReady picks is ready here, and at the level it is taken from.
LEMMA PickedIsReady ==
  ASSUME IInv, NEW c \in Cpus, readySummary[c] # {}, NEW open
  PROVE  LET t == Picked(c, open)
         IN /\ t \in Threads /\ queued[t] /\ linkCpu[t] = c
            /\ t = Head(ready[c][Highest(Selectable(c, open))]) =>
                 queuedPrio[t] = Highest(Selectable(c, open))
<1> DEFINE S == Selectable(c, open)
           head == Head(ready[c][Highest(S)])
           other == HighestReadyExcept(c, head)
           t == Picked(c, open)
<1>1. S \subseteq readySummary[c] /\ S # {} /\ S \subseteq Prios
  BY DEF Selectable, IInv, TypeOK
<1>2. Highest(S) \in readySummary[c]
  BY <1>1, HighestIs
<1>3. head \in Threads /\ queued[head] /\ linkCpu[head] = c /\ queuedPrio[head] = Highest(S)
  BY <1>2, HeadIsReady
<1>4. other # NoThread => other \in Threads /\ queued[other] /\ linkCpu[other] = c
  BY OtherIsReady
<1>5. t = IF yieldToOther[c] = head /\ other # NoThread THEN other ELSE head
  BY DEF Picked
<1> HIDE DEF S, head, other, t
<1> QED
  BY <1>3, <1>4, <1>5 DEF S, head, t

\* DequeueReady takes a thread nobody runs: this CPU, which it is linked to, is in its loop.
LEMMA DequeueReadyKeeps ==
  ASSUME IInv, NEW c \in Cpus, DequeueReady(c), UNCHANGED workload
  PROVE  IInv'
<1>1. readySummary[c] # {} /\ pc[c] = "dequeue" /\ LockFree
  BY DEF DequeueReady
<1>2. PICK open \in {window[c], FALSE} :
        LET t == Picked(c, open)
            level == IF t = Head(ready[c][Highest(Selectable(c, open))])
                     THEN Highest(Selectable(c, open)) ELSE queuedPrio[t]
        IN /\ window' = [window EXCEPT ![c] = open]
           /\ ready' = ReadyWithout(c, level, t)
           /\ readySummary' = SummaryWithout(c, level, t)
           /\ queued' = [queued EXCEPT ![t] = FALSE]
           /\ running' = [running EXCEPT ![t] = TRUE]
           /\ next' = [next EXCEPT ![c] = t]
  BY Zenon DEF DequeueReady
<1> DEFINE t == Picked(c, open)
<1>3. /\ t \in Threads /\ queued[t] /\ linkCpu[t] = c
      /\ t = Head(ready[c][Highest(Selectable(c, open))]) =>
           queuedPrio[t] = Highest(Selectable(c, open))
  BY <1>1, PickedIsReady
<1>4. /\ window' = [window EXCEPT ![c] = open]
      /\ ready' = ReadyWithout(linkCpu[t], queuedPrio[t], t)
      /\ readySummary' = SummaryWithout(linkCpu[t], queuedPrio[t], t)
      /\ queued' = [queued EXCEPT ![t] = FALSE]
      /\ running' = [running EXCEPT ![t] = TRUE]
      /\ next' = [next EXCEPT ![c] = t]
  BY <1>2, <1>3, Zenon
<1> HIDE DEF t
<1>5. /\ yieldToOther' = [yieldToOther EXCEPT ![c] = NoThread]
      /\ pc' = [pc EXCEPT ![c] = "dequeued"]
      /\ UNCHANGED <<blocked, suspended, linkCpu, queuedPrio, blockedList, suspendedList, kept,
                     walker, home, priority, fiberAt, callVars>>
  BY DEF DequeueReady
<1>6. ~blocked[t] /\ ~suspended[t] /\ ~running[t] /\ fiberAt[t] # "none"
  BY <1>1, <1>3 DEF IInv, Lists, OnOneList, Control, Own, Fresh, Standing
<1>7. /\ ~queued'[t] /\ running'[t] /\ next'[c] = t /\ pc'[c] = "dequeued"
      /\ \A x \in Threads \ {t} : queued'[x] = queued[x] /\ running'[x] = running[x]
      /\ \A d \in Cpus \ {c} : pc'[d] = pc[d] /\ next'[d] = next[d]
  BY <1>3, <1>4, <1>5 DEF IInv, TypeOK
<1>8. Without(ready', readySummary', t)
  BY <1>3, <1>4, UnlinkedWithout, Zenon DEF IInv, Lists
<1>9. ReadyMatch' /\ SummaryExact'
  <2>1. ASSUME NEW d \in Cpus, NEW p \in Prios
        PROVE  {x \in Threads \ {t} : queued[x] /\ linkCpu[x] = d /\ queuedPrio[x] = p} =
                 {x \in Threads : queued'[x] /\ linkCpu'[x] = d /\ queuedPrio'[x] = p}
    BY <1>5, <1>7
  <2>2. ReadyMatch'
    <3> SUFFICES ASSUME NEW d \in Cpus, NEW p \in Prios
                 PROVE  /\ Distinct(ready'[d][p])
                        /\ Elems(ready'[d][p]) = {x \in Threads :
                             queued'[x] /\ linkCpu'[x] = d /\ queuedPrio'[x] = p}
      BY Zenon DEF ReadyMatch
    <3> QED
      BY <1>8, <2>1, ZenonT(60) DEF Without
  <2>3. SummaryExact'
    BY <1>8, Zenon DEF Without, SummaryExact
  <2> QED
    BY <2>2, <2>3
<1>10. /\ ready' \in [Cpus -> [Prios -> Seq(Threads)]] /\ readySummary' \in [Cpus -> SUBSET Prios]
  BY <1>8 DEF Without
<1>18. /\ window' \in [Cpus -> BOOLEAN] /\ queued' \in [Threads -> BOOLEAN]
       /\ running' \in [Threads -> BOOLEAN] /\ next' \in [Cpus -> Threads \cup {NoThread}]
       /\ yieldToOther' \in [Cpus -> Threads \cup {NoThread}] /\ pc' \in [Cpus -> CpuPc]
  <2>1. open \in BOOLEAN
    BY DEF IInv, TypeOK
  <2> QED
    BY <1>3, <1>4, <1>5, <2>1 DEF IInv, TypeOK, CpuPc
<1>11. TypeOK'
  BY <1>10, <1>18 DEF IInv, TypeOK, DequeueReady
<1>12. BlockedMatch' /\ SuspendedMatch'
  BY <1>5 DEF IInv, Lists, BlockedMatch, SuspendedMatch
<1>13. OnOneList'
  BY <1>5, <1>7 DEF IInv, Lists, OnOneList
<1>14. Own'
  <2>1. ASSUME NEW d \in Cpus, pc'[d] \in Standing
        PROVE  /\ next'[d] \in Threads /\ running'[next'[d]] /\ linkCpu'[next'[d]] = d
               /\ pc'[d] # "back" =>
                    ~queued'[next'[d]] /\ ~blocked'[next'[d]] /\ ~suspended'[next'[d]]
    <3>1. CASE d = c
      BY <1>3, <1>5, <1>6, <1>7, <3>1
    <3>2. CASE d # c
      <4>1. next'[d] = next[d] /\ pc'[d] = pc[d] /\ pc[d] \in Standing
        BY <1>7, <2>1, <3>2
      <4>2. next[d] # t
        BY <4>1, <1>6, Stander
      <4> QED
        BY <1>5, <1>7, <4>1, <4>2, Stander
    <3> QED
      BY <3>1, <3>2
  <2>2. ASSUME NEW x \in Threads, running'[x]
        PROVE  linkCpu'[x] \in Cpus /\ pc'[linkCpu'[x]] \in Standing /\ next'[linkCpu'[x]] = x
    <3>1. CASE x = t
      BY <1>3, <1>5, <1>7, <3>1 DEF Standing
    <3>2. CASE x # t
      <4>1. linkCpu[x] \in Cpus /\ pc[linkCpu[x]] \in Standing /\ next[linkCpu[x]] = x
        BY <1>7, <2>2, <3>2 DEF IInv, Control, Own
      <4>2. linkCpu[x] # c
        BY <1>1, <4>1 DEF Standing
      <4> QED
        BY <1>5, <1>7, <4>1, <4>2
    <3> QED
      BY <3>1, <3>2
  <2> QED
    BY <2>1, <2>2 DEF Own
<1>15. QueuedAtItsPriority'
  BY <1>5, <1>7 DEF IInv, Control, QueuedAtItsPriority
<1>16. YielderIsReadyHere'
  <2> SUFFICES ASSUME NEW d \in Cpus, yieldToOther'[d] # NoThread
               PROVE  queued'[yieldToOther'[d]] /\ linkCpu'[yieldToOther'[d]] = d
    BY DEF YielderIsReadyHere
  <2>1. d # c /\ yieldToOther'[d] = yieldToOther[d] /\ yieldToOther[d] \in Threads
    BY <1>5 DEF IInv, TypeOK
  <2>2. queued[yieldToOther[d]] /\ linkCpu[yieldToOther[d]] = d
    BY <2>1 DEF IInv, Control, YielderIsReadyHere
  <2> QED
    BY <1>3, <1>5, <1>7, <2>1, <2>2
<1>17. Calls' /\ Fresh' /\ Walk' /\ Homes'
  BY <1>1, <1>5, <1>6, <1>7 DEF IInv, Control, Calls, Fresh, Walk, Homes
<1> QED
  BY <1>9, <1>11, <1>12, <1>13, <1>14, <1>15, <1>16, <1>17 DEF IInv, Lists, Control

-----------------------------------------------------------------------------
(* The critical sections on the lists, by the callers. *)

\* Where the thread of a call is, for the callers that find it queued or parked.
LEMMA CallsThread ==
  ASSUME IInv, NEW k \in Callers, callPc[k] # "idle"
  PROVE  /\ callThread[k] \in Threads /\ fiberAt[callThread[k]] # "none"
         /\ callPc[k] = "enqueue" => callCpu[k] \in Cpus
  BY DEF IInv, Control, Calls

\* When a call returns, or moves to a step without a CPU, the others are as they were.
OtherCallsStay(k) ==
  /\ callPc' \in [Callers -> CallPc] /\ callCpu' \in [Callers -> Cpus \cup {NoCpu}]
  /\ callThread' \in [Callers -> Threads \cup {NoThread}]
  /\ Calls'
  /\ \A j \in Callers \ {k} : callPc'[j] = callPc[j] /\ callThread'[j] = callThread[j]

\* A return is such a step.
LEMMA CallReturns ==
  ASSUME IInv, NEW k \in Callers, Return(k), UNCHANGED fiberAt
  PROVE  OtherCallsStay(k)
  BY DEF IInv, TypeOK, CallPc, Control, Calls, Return, OtherCallsStay

\* So is a step to the next part of the same call.
LEMMA CallMoves ==
  ASSUME IInv, NEW k \in Callers, callPc[k] # "idle", NEW step \in CallPc, step # "enqueue",
         Call(k, callThread[k], step), UNCHANGED <<callCpu, fiberAt>>
  PROVE  OtherCallsStay(k)
<1>1. callThread[k] \in Threads /\ fiberAt[callThread[k]] # "none"
  BY CallsThread
<1> QED
  BY <1>1 DEF IInv, TypeOK, CallPc, Control, Calls, Call, OtherCallsStay

\* ResumeThread takes a thread off the suspended list; it is then on none.
LEMMA ResumeThreadKeeps ==
  ASSUME IInv, NEW k \in Callers, ResumeThread(k), UNCHANGED workload
  PROVE  IInv'
<1> DEFINE t == callThread[k]
           l == linkCpu[t]
           s == suspendedList[l]
<1>1. callPc[k] = "unpark" /\ t \in Threads /\ fiberAt[t] # "none"
  BY CallsThread DEF ResumeThread
<1>2. Call(k, t, "markReady") /\ UNCHANGED <<callCpu, fiberAt>>
  BY DEF ResumeThread
<1>3. OtherCallsStay(k)
  <2>1. "markReady" \in CallPc
    BY DEF CallPc
  <2> QED
    BY <1>1, <1>2, <2>1, CallMoves
<1>4. QueuedAtItsPriority'
  <2> SUFFICES ASSUME NEW x \in Threads, queued[x], queuedPrio[x] # priority[x]
               PROVE  \E j \in Callers : callPc'[j] = "requeue" /\ callThread'[j] = x
    BY DEF QueuedAtItsPriority, ResumeThread
  <2>1. PICK j \in Callers : callPc[j] = "requeue" /\ callThread[j] = x
    BY DEF IInv, Control, QueuedAtItsPriority
  <2> QED
    BY <1>1, <1>3, <2>1 DEF OtherCallsStay
<1>5. CASE ~suspended[t]
  <2>1. UNCHANGED <<suspendedList, suspended>>
    BY <1>5 DEF ResumeThread
  <2>2. TypeOK'
    BY <1>3, <2>1 DEF OtherCallsStay, IInv, TypeOK, ResumeThread
  <2>3. Lists'
    BY <2>1, SameListsKeep DEF IInv, SameLists, ResumeThread
  <2>4. Own' /\ YielderIsReadyHere' /\ Fresh' /\ Walk' /\ Homes'
    BY <2>1 DEF IInv, Control, Own, YielderIsReadyHere, Fresh, Walk, Homes, ResumeThread
  <2> QED
    BY <1>3, <1>4, <2>2, <2>3, <2>4 DEF OtherCallsStay, IInv, Control
<1>6. CASE suspended[t]
  <2>1. /\ suspendedList' = [suspendedList EXCEPT ![l] = Unlink(s, t)]
        /\ suspended' = [suspended EXCEPT ![t] = FALSE]
    BY <1>6 DEF ResumeThread
  <2>2. l \in Cpus
    BY <1>1, <1>6 DEF IInv, Lists, OnOneList
  <2>3. s \in Seq(Threads) /\ Distinct(s)
    BY <2>2 DEF IInv, TypeOK, Lists, SuspendedMatch
  <2>4. /\ Unlink(s, t) \in Seq(Threads) /\ Elems(Unlink(s, t)) = Elems(s) \ {t}
        /\ Distinct(Unlink(s, t))
    BY <2>3, UnlinkElems
  <2>5. /\ suspendedList' \in [Cpus -> Seq(Threads)] /\ suspended' \in [Threads -> BOOLEAN]
    BY <2>1, <2>4 DEF IInv, TypeOK
  <2>6. /\ ~suspended'[t] /\ \A x \in Threads \ {t} : suspended'[x] = suspended[x]
        /\ suspendedList'[l] = Unlink(s, t)
        /\ \A d \in Cpus \ {l} : suspendedList'[d] = suspendedList[d]
    BY <1>1, <2>1, <2>2 DEF IInv, TypeOK
  <2>7. UNCHANGED linkCpu
    BY DEF ResumeThread
  <2>8. TypeOK'
    BY <1>3, <2>5 DEF OtherCallsStay, IInv, TypeOK, ResumeThread
  <2>9. SuspendedMatch'
    <3> SUFFICES ASSUME NEW d \in Cpus
                 PROVE  /\ Distinct(suspendedList'[d])
                        /\ Elems(suspendedList'[d]) =
                             {x \in Threads : suspended'[x] /\ linkCpu[x] = d}
      BY <2>7 DEF SuspendedMatch
    <3>1. /\ Distinct(suspendedList[d])
          /\ Elems(suspendedList[d]) = {x \in Threads : suspended[x] /\ linkCpu[x] = d}
      BY DEF IInv, Lists, SuspendedMatch
    <3>2. CASE d = l
      BY <2>4, <2>6, <3>1, <3>2
    <3>3. CASE d # l
      BY <2>6, <3>1, <3>3
    <3> QED
      BY <3>2, <3>3
  <2>10. Lists'
    BY <1>1, <2>6, <2>9 DEF IInv, Lists, ReadyMatch, SummaryExact, BlockedMatch, OnOneList,
                      ResumeThread
  <2>11. Own'
    BY <1>1, <2>6 DEF IInv, TypeOK, Control, Own, ResumeThread
  <2>12. YielderIsReadyHere' /\ Fresh' /\ Walk' /\ Homes'
    BY <1>1, <2>6 DEF IInv, Control, YielderIsReadyHere, Fresh, Walk, Homes, ResumeThread
  <2> QED
    BY <1>3, <1>4, <2>8, <2>10, <2>11, <2>12 DEF OtherCallsStay, IInv, Control
<1> QED
  BY <1>5, <1>6

\* A thread that no dispatch thread stands on may be linked elsewhere.
LEMMA OwnNotRunning ==
  ASSUME IInv, NEW t \in Threads, ~running[t], UNCHANGED <<running, pc, next>>,
         \A x \in Threads \ {t} : /\ linkCpu'[x] = linkCpu[x] /\ queued'[x] = queued[x]
                                  /\ blocked'[x] = blocked[x] /\ suspended'[x] = suspended[x]
  PROVE  Own'
  BY DEF IInv, Control, Own

\* EnqueueReady for a thread that MarkReady found: it is neither linked nor running.
LEMMA EnqueueByCallerKeeps ==
  ASSUME IInv, NEW k \in Callers, EnqueueByCaller(k), UNCHANGED workload
  PROVE  IInv'
<1> DEFINE t == callThread[k]
           c == callCpu[k]
<1>1. callPc[k] = "enqueue" /\ t \in Threads /\ c \in Cpus /\ fiberAt[t] # "none"
  BY CallsThread DEF EnqueueByCaller
<1>2. Return(k) /\ UNCHANGED <<blocked, suspended, running, blockedList, suspendedList, kept,
                               walker, pc, next, home, priority, fiberAt>>
  BY DEF EnqueueByCaller
<1>3. OtherCallsStay(k)
  BY <1>2, CallReturns
<1>4. CASE ~Enqueueable(t, NoCpu)
  <2>1. UNCHANGED <<queued, linkCpu, queuedPrio, headRequeue, ready, readySummary,
                    preemptRequested, yieldToOther, toWake>>
    BY <1>4 DEF EnqueueByCaller
  <2>2. TypeOK'
    BY <1>3, <2>1 DEF OtherCallsStay, IInv, TypeOK, EnqueueByCaller
  <2>3. Lists'
    BY <1>2, <2>1, SameListsKeep DEF IInv, SameLists
  <2>4. QueuedAtItsPriority'
    BY <1>1, <1>2, <1>3, <2>1 DEF OtherCallsStay, IInv, Control, QueuedAtItsPriority
  <2>5. Own' /\ YielderIsReadyHere' /\ Fresh' /\ Walk' /\ Homes'
    BY <1>2, <2>1 DEF IInv, Control, Own, YielderIsReadyHere, Fresh, Walk, Homes
  <2> QED
    BY <1>3, <2>2, <2>3, <2>4, <2>5 DEF OtherCallsStay, IInv, Control
<1>5. CASE Enqueueable(t, NoCpu)
  <2>1. EnqueueReady(t, c, FALSE) /\ toWake' = [toWake EXCEPT ![k] = {c}]
    BY <1>5 DEF EnqueueByCaller
  <2>2. ~queued[t] /\ ~blocked[t] /\ ~suspended[t] /\ ~running[t]
    BY <1>1, <1>5, SchedulerAssumption DEF Enqueueable, IInv, Control, Own
  <2>3. /\ LinkReady(ready, readySummary, c, t, headRequeue[t], TRUE)
        /\ queued' = [queued EXCEPT ![t] = TRUE] /\ linkCpu' = [linkCpu EXCEPT ![t] = c]
        /\ yieldToOther' = yieldToOther
    BY <2>1 DEF EnqueueReady
  <2> HIDE DEF t, c
  <2>4. /\ queued'[t] /\ linkCpu'[t] = c
        /\ \A x \in Threads \ {t} : queued'[x] = queued[x] /\ linkCpu'[x] = linkCpu[x]
    BY <1>1, <2>3 DEF IInv, TypeOK
  <2>5. Without(ready, readySummary, t)
    BY <1>1, <2>2, NotReadyWithout DEF IInv, Lists
  <2>6. /\ ready' \in [Cpus -> [Prios -> Seq(Threads)]]
        /\ readySummary' \in [Cpus -> SUBSET Prios]
        /\ queuedPrio' \in [Threads -> Prios] /\ queuedPrio'[t] = priority[t]
        /\ \A x \in Threads \ {t} : queuedPrio'[x] = queuedPrio[x]
        /\ headRequeue' \in [Threads -> BOOLEAN]
        /\ preemptRequested' \in [Threads -> BOOLEAN]
        /\ ReadyMatch' /\ SummaryExact'
    BY <1>1, <2>3, <2>4, <2>5, LinkReadyDoes DEF IInv
  <2>7. /\ queued' \in [Threads -> BOOLEAN] /\ linkCpu' \in [Threads -> Cpus \cup {NoCpu}]
        /\ toWake' \in [Actors -> SUBSET Cpus]
    BY <1>1, <2>1, <2>3 DEF IInv, TypeOK, Actors
  <2>8. TypeOK'
    BY <1>3, <2>3, <2>6, <2>7 DEF OtherCallsStay, IInv, TypeOK, EnqueueByCaller
  <2>9. BlockedMatch' /\ SuspendedMatch'
    BY <1>1, <1>2, <2>2, <2>4, ParkedKeep DEF IInv, Lists
  <2>10. OnOneList'
    BY <1>1, <1>2, <2>2, <2>4 DEF IInv, Lists, OnOneList
  <2>11. Own'
    BY <1>1, <1>2, <2>2, <2>4, OwnNotRunning
  <2>12. QueuedAtItsPriority'
    BY <1>1, <1>2, <1>3, <2>4, <2>6, RelinkedKeep DEF OtherCallsStay, IInv, Control
  <2>13. YielderIsReadyHere'
    BY <1>1, <2>2, <2>3, <2>4 DEF IInv, TypeOK, Control, YielderIsReadyHere
  <2>14. Fresh' /\ Walk' /\ Homes'
    BY <1>1, <1>2, <2>4 DEF IInv, Control, Fresh, Walk, Homes
  <2> QED
    BY <1>3, <2>6, <2>8, <2>9, <2>10, <2>11, <2>12, <2>13, <2>14
         DEF OtherCallsStay, IInv, Lists, Control
<1> QED
  BY <1>4, <1>5

\* A queued thread follows its affinity, and is nobody's yielder on the CPU it leaves.
LEMMA MigrateForAffinityKeeps ==
  ASSUME IInv, NEW k \in Callers, MigrateForAffinity(k), UNCHANGED workload
  PROVE  IInv'
<1> DEFINE t == callThread[k]
           from == linkCpu[t]
           target == currentCpu[t]
<1>1. callPc[k] = "migrate" /\ t \in Threads /\ fiberAt[t] # "none" /\ target \in Cpus
  BY CallsThread DEF MigrateForAffinity, IInv, TypeOK
<1>2. Return(k) /\ UNCHANGED <<queued, blocked, suspended, running, blockedList, suspendedList,
                               kept, walker, pc, next, home, priority, fiberAt>>
  BY DEF MigrateForAffinity
<1>3. OtherCallsStay(k)
  BY <1>2, CallReturns
<1>4. CASE ~(queued[t] /\ ~running[t] /\ target # from)
  <2>1. UNCHANGED <<linkCpu, queuedPrio, headRequeue, ready, readySummary,
                    preemptRequested, yieldToOther, toWake>>
    BY <1>4 DEF MigrateForAffinity
  <2>2. TypeOK'
    BY <1>3, <2>1 DEF OtherCallsStay, IInv, TypeOK, MigrateForAffinity
  <2>3. Lists'
    BY <1>2, <2>1, SameListsKeep DEF IInv, SameLists
  <2>4. QueuedAtItsPriority'
    BY <1>1, <1>2, <1>3, <2>1 DEF OtherCallsStay, IInv, Control, QueuedAtItsPriority
  <2>5. Own' /\ YielderIsReadyHere' /\ Fresh' /\ Walk' /\ Homes'
    BY <1>2, <2>1 DEF IInv, Control, Own, YielderIsReadyHere, Fresh, Walk, Homes
  <2> QED
    BY <1>3, <2>2, <2>3, <2>4, <2>5 DEF OtherCallsStay, IInv, Control
<1>5. CASE queued[t] /\ ~running[t] /\ target # from
  <2>1. from \in Cpus /\ ~blocked[t] /\ ~suspended[t]
    BY <1>1, <1>5 DEF IInv, Lists, OnOneList
  <2>2. /\ LinkReady(ReadyWithout(from, queuedPrio[t], t), SummaryWithout(from, queuedPrio[t], t),
                     target, t, headRequeue[t], TRUE)
        /\ yieldToOther' = YielderWithout(from, t)
        /\ linkCpu' = [linkCpu EXCEPT ![t] = target]
        /\ toWake' = [toWake EXCEPT ![k] = {target}]
    BY <1>5, Zenon DEF MigrateForAffinity
  <2>3. Without(ReadyWithout(from, queuedPrio[t], t), SummaryWithout(from, queuedPrio[t], t), t)
    BY <1>1, <2>1, UnlinkedWithout DEF IInv, Lists
  <2> HIDE DEF t, from, target
  <2>4. /\ queued'[t] /\ linkCpu'[t] = target
        /\ \A x \in Threads \ {t} : queued'[x] = queued[x] /\ linkCpu'[x] = linkCpu[x]
    BY <1>1, <1>2, <1>5, <2>2 DEF IInv, TypeOK
  <2>5. /\ ready' \in [Cpus -> [Prios -> Seq(Threads)]]
        /\ readySummary' \in [Cpus -> SUBSET Prios]
        /\ queuedPrio' \in [Threads -> Prios] /\ queuedPrio'[t] = priority[t]
        /\ \A x \in Threads \ {t} : queuedPrio'[x] = queuedPrio[x]
        /\ headRequeue' \in [Threads -> BOOLEAN]
        /\ preemptRequested' \in [Threads -> BOOLEAN]
        /\ ReadyMatch' /\ SummaryExact'
    BY <1>1, <2>2, <2>3, <2>4, LinkReadyDoes DEF IInv
  <2>6. /\ linkCpu' \in [Threads -> Cpus \cup {NoCpu}] /\ toWake' \in [Actors -> SUBSET Cpus]
    <3>1. linkCpu' \in [Threads -> Cpus \cup {NoCpu}]
      BY <1>1, <2>2 DEF IInv, TypeOK
    <3>2. toWake' \in [Actors -> SUBSET Cpus]
      BY <1>1, <2>2 DEF IInv, TypeOK
    <3> QED
      BY <3>1, <3>2
  <2>7. /\ yieldToOther' \in [Cpus -> Threads \cup {NoThread}]
        /\ \A d \in Cpus : yieldToOther'[d] =
             IF d = from /\ yieldToOther[d] = t THEN NoThread ELSE yieldToOther[d]
    BY <2>1, <2>2 DEF IInv, TypeOK, YielderWithout
  <2>8. TypeOK'
    BY <1>3, <2>5, <2>6, <2>7 DEF OtherCallsStay, IInv, TypeOK, MigrateForAffinity
  <2>9. BlockedMatch' /\ SuspendedMatch'
    BY <1>1, <1>2, <2>1, <2>4, ParkedKeep DEF IInv, Lists
  <2>10. OnOneList'
    BY <1>1, <1>2, <2>1, <2>4 DEF IInv, Lists, OnOneList
  <2>11. Own'
    BY <1>1, <1>2, <1>5, <2>4, OwnNotRunning
  <2>12. QueuedAtItsPriority'
    BY <1>1, <1>2, <1>3, <2>4, <2>5, RelinkedKeep DEF OtherCallsStay, IInv, Control
  <2>13. YielderIsReadyHere'
    <3> SUFFICES ASSUME NEW d \in Cpus, yieldToOther'[d] # NoThread
                 PROVE  queued'[yieldToOther'[d]] /\ linkCpu'[yieldToOther'[d]] = d
      BY DEF YielderIsReadyHere
    <3>1. yieldToOther'[d] = yieldToOther[d] /\ yieldToOther[d] \in Threads
      BY <2>7 DEF IInv, TypeOK
    <3>2. queued[yieldToOther[d]] /\ linkCpu[yieldToOther[d]] = d
      BY <3>1 DEF IInv, Control, YielderIsReadyHere
    <3>3. yieldToOther[d] # t
      BY <2>7, <3>1, <3>2 DEF from
    <3> QED
      BY <2>4, <3>1, <3>2, <3>3
  <2>14. Fresh' /\ Walk' /\ Homes'
    BY <1>1, <1>2, <2>4 DEF IInv, Control, Fresh, Walk, Homes
  <2> QED
    BY <1>3, <2>5, <2>8, <2>9, <2>10, <2>11, <2>12, <2>13, <2>14
         DEF OtherCallsStay, IInv, Lists, Control
<1> QED
  BY <1>4, <1>5

\* A queued thread goes to the level of its new priority, on the same CPU.
LEMMA RequeueForPriorityKeeps ==
  ASSUME IInv, NEW k \in Callers, RequeueForPriority(k), UNCHANGED workload
  PROVE  IInv'
<1> DEFINE t == callThread[k]
           c == linkCpu[t]
<1>1. callPc[k] = "requeue" /\ t \in Threads /\ fiberAt[t] # "none"
  BY CallsThread DEF RequeueForPriority, IInv, TypeOK
<1>2. Return(k) /\ UNCHANGED <<queued, blocked, suspended, running, linkCpu, blockedList,
                               suspendedList, kept, walker, yieldToOther, pc, next, home,
                               priority, fiberAt>>
  BY DEF RequeueForPriority
<1>3. OtherCallsStay(k)
  BY <1>2, CallReturns
<1>4. CASE ~queued[t]
  <2>1. UNCHANGED <<queuedPrio, headRequeue, ready, readySummary, preemptRequested>>
    BY <1>4 DEF RequeueForPriority, NeedsRequeue
  <2>2. TypeOK'
    BY <1>3, <2>1 DEF OtherCallsStay, IInv, TypeOK, RequeueForPriority
  <2>3. Lists'
    BY <1>2, <2>1, SameListsKeep DEF IInv, SameLists
  <2>4. QueuedAtItsPriority'
    <3> SUFFICES ASSUME NEW x \in Threads, queued[x], queuedPrio[x] # priority[x]
                 PROVE  \E j \in Callers : callPc'[j] = "requeue" /\ callThread'[j] = x
      BY <1>2, <2>1 DEF QueuedAtItsPriority
    <3>1. PICK j \in Callers : callPc[j] = "requeue" /\ callThread[j] = x
      BY DEF IInv, Control, QueuedAtItsPriority
    <3>2. j # k
      BY <1>4, <3>1
    <3> QED
      BY <1>3, <3>1, <3>2 DEF OtherCallsStay
  <2>5. Own' /\ YielderIsReadyHere' /\ Fresh' /\ Walk' /\ Homes'
    BY <1>2 DEF IInv, Control, Own, YielderIsReadyHere, Fresh, Walk, Homes
  <2> QED
    BY <1>3, <2>2, <2>3, <2>4, <2>5 DEF OtherCallsStay, IInv, Control
<1>5. CASE queued[t]
  <2>1. c \in Cpus
    BY <1>1, <1>5 DEF IInv, Lists, OnOneList
  <2>2. LinkReady(ReadyWithout(c, queuedPrio[t], t), SummaryWithout(c, queuedPrio[t], t),
                  c, t, FALSE, FALSE)
    BY <1>5, Zenon DEF RequeueForPriority, NeedsRequeue
  <2>3. Without(ReadyWithout(c, queuedPrio[t], t), SummaryWithout(c, queuedPrio[t], t), t)
    BY <1>1, <2>1, UnlinkedWithout DEF IInv, Lists
  <2>4. /\ queued'[t] /\ linkCpu'[t] = c
        /\ \A x \in Threads \ {t} : queued'[x] = queued[x] /\ linkCpu'[x] = linkCpu[x]
    BY <1>2, <1>5
  <2> HIDE DEF t, c
  <2>5. /\ ready' \in [Cpus -> [Prios -> Seq(Threads)]]
        /\ readySummary' \in [Cpus -> SUBSET Prios]
        /\ queuedPrio' \in [Threads -> Prios] /\ queuedPrio'[t] = priority[t]
        /\ \A x \in Threads \ {t} : queuedPrio'[x] = queuedPrio[x]
        /\ headRequeue' \in [Threads -> BOOLEAN]
        /\ preemptRequested' \in [Threads -> BOOLEAN]
        /\ ReadyMatch' /\ SummaryExact'
    BY <1>1, <2>1, <2>2, <2>3, <2>4, LinkReadyDoes DEF IInv
  <2>6. TypeOK'
    BY <1>3, <2>5 DEF OtherCallsStay, IInv, TypeOK, RequeueForPriority
  <2>7. BlockedMatch' /\ SuspendedMatch' /\ OnOneList'
    BY <1>2 DEF IInv, Lists, BlockedMatch, SuspendedMatch, OnOneList
  <2>8. QueuedAtItsPriority'
    <3>1. \A j \in Callers : callPc[j] = "requeue" /\ callThread[j] # t =>
                             callPc'[j] = "requeue" /\ callThread'[j] = callThread[j]
      BY <1>3 DEF OtherCallsStay, t
    <3> QED
      BY <1>1, <1>2, <2>4, <2>5, <3>1, RelinkedKeep DEF IInv, Control
  <2>9. Own' /\ YielderIsReadyHere' /\ Fresh' /\ Walk' /\ Homes'
    BY <1>2 DEF IInv, Control, Own, YielderIsReadyHere, Fresh, Walk, Homes
  <2> QED
    BY <1>3, <2>5, <2>6, <2>7, <2>8, <2>9 DEF OtherCallsStay, IInv, Lists, Control
<1> QED
  BY <1>4, <1>5

\* TerminateThread takes a parked thread off its list and puts it at the head of a ready one.
LEMMA UnparkDoes ==
  ASSUME IInv, NEW t \in Threads, Unpark(t), LockFree, UNCHANGED <<linkCpu, kept>>
  PROVE  /\ ~queued[t] /\ ~running[t] /\ linkCpu[t] \in Cpus
         /\ blockedList' \in [Cpus -> Seq(Threads)] /\ suspendedList' \in [Cpus -> Seq(Threads)]
         /\ blocked' \in [Threads -> BOOLEAN] /\ suspended' \in [Threads -> BOOLEAN]
         /\ ~blocked'[t] /\ ~suspended'[t]
         /\ \A x \in Threads \ {t} : blocked'[x] = blocked[x] /\ suspended'[x] = suspended[x]
         /\ BlockedMatch' /\ SuspendedMatch'
<1> DEFINE l == linkCpu[t]
<1>1. /\ ~queued[t] /\ ~running[t] /\ l \in Cpus /\ ~(blocked[t] /\ suspended[t])
      /\ blocked[t] \/ suspended[t]
  BY DEF Unpark, IInv, Lists, OnOneList
<1>2. /\ blocked' \in [Threads -> BOOLEAN] /\ suspended' \in [Threads -> BOOLEAN]
      /\ ~blocked'[t] /\ ~suspended'[t]
      /\ \A x \in Threads \ {t} : blocked'[x] = blocked[x] /\ suspended'[x] = suspended[x]
  BY DEF Unpark, IInv, TypeOK
<1>3. \A d \in Cpus : kept[d] = <<>>
  BY NoWalk
<1>4. Elems(<<>>) = {}
  BY DEF Elems
<1>5. ASSUME NEW d \in Cpus
      PROVE  /\ Distinct(blockedList[d]) /\ Distinct(kept[d])
             /\ Elems(blockedList[d]) = {x \in Threads : blocked[x] /\ linkCpu[x] = d}
             /\ Distinct(suspendedList[d])
             /\ Elems(suspendedList[d]) = {x \in Threads : suspended[x] /\ linkCpu[x] = d}
  BY <1>3, <1>4 DEF IInv, Lists, BlockedMatch, SuspendedMatch
<1>6. CASE blocked[t]
  <2> DEFINE u == Unlink(blockedList[l], t)
  <2>1. u \in Seq(Threads) /\ Elems(u) = Elems(blockedList[l]) \ {t} /\ Distinct(u)
    <3>1. blockedList[l] \in Seq(Threads) /\ Distinct(blockedList[l])
      BY <1>1, <1>5 DEF IInv, TypeOK
    <3> QED
      BY <3>1, UnlinkElems
  <2>2. blockedList' = [blockedList EXCEPT ![l] = u] /\ suspendedList' = suspendedList
    BY <1>6 DEF Unpark
  <2> HIDE DEF u
  <2>3. /\ blockedList' \in [Cpus -> Seq(Threads)] /\ blockedList'[l] = u
        /\ \A d \in Cpus \ {l} : blockedList'[d] = blockedList[d]
    BY <1>1, <2>1, <2>2 DEF IInv, TypeOK
  <2>4. ASSUME NEW d \in Cpus
        PROVE  /\ Distinct(blockedList'[d])
               /\ Elems(blockedList'[d]) = {x \in Threads : blocked'[x] /\ linkCpu[x] = d}
    <3>1. CASE d = l
      BY <1>2, <1>5, <2>1, <2>3, <3>1
    <3>2. CASE d # l
      <4>1. {x \in Threads : blocked'[x] /\ linkCpu[x] = d} =
              {x \in Threads : blocked[x] /\ linkCpu[x] = d}
        BY <1>2, <3>2
      <4> QED
        BY <1>5, <2>3, <3>2, <4>1
    <3> QED
      BY <3>1, <3>2
  <2>5. BlockedMatch'
    BY <1>3, <1>4, <1>5, <2>4 DEF BlockedMatch
  <2>6. SuspendedMatch'
    <3>1. ASSUME NEW d \in Cpus
          PROVE  {x \in Threads : suspended'[x] /\ linkCpu[x] = d} =
                   {x \in Threads : suspended[x] /\ linkCpu[x] = d}
      BY <1>1, <1>2, <1>6
    <3> QED
      BY <1>5, <2>2, <3>1 DEF SuspendedMatch
  <2> QED
    BY <1>1, <1>2, <2>2, <2>3, <2>5, <2>6 DEF IInv, TypeOK
<1>7. CASE suspended[t]
  <2> DEFINE u == Unlink(suspendedList[l], t)
  <2>1. u \in Seq(Threads) /\ Elems(u) = Elems(suspendedList[l]) \ {t} /\ Distinct(u)
    <3>1. suspendedList[l] \in Seq(Threads) /\ Distinct(suspendedList[l])
      BY <1>1, <1>5 DEF IInv, TypeOK
    <3> QED
      BY <3>1, UnlinkElems
  <2>2. suspendedList' = [suspendedList EXCEPT ![l] = u] /\ blockedList' = blockedList
    BY <1>1, <1>7 DEF Unpark
  <2> HIDE DEF u
  <2>3. /\ suspendedList' \in [Cpus -> Seq(Threads)] /\ suspendedList'[l] = u
        /\ \A d \in Cpus \ {l} : suspendedList'[d] = suspendedList[d]
    BY <1>1, <2>1, <2>2 DEF IInv, TypeOK
  <2>4. ASSUME NEW d \in Cpus
        PROVE  /\ Distinct(suspendedList'[d])
               /\ Elems(suspendedList'[d]) = {x \in Threads : suspended'[x] /\ linkCpu[x] = d}
    <3>1. CASE d = l
      BY <1>2, <1>5, <2>1, <2>3, <3>1
    <3>2. CASE d # l
      <4>1. {x \in Threads : suspended'[x] /\ linkCpu[x] = d} =
              {x \in Threads : suspended[x] /\ linkCpu[x] = d}
        BY <1>2, <3>2
      <4> QED
        BY <1>5, <2>3, <3>2, <4>1
    <3> QED
      BY <3>1, <3>2
  <2>5. SuspendedMatch'
    BY <2>4 DEF SuspendedMatch
  <2>6. BlockedMatch'
    <3>1. ASSUME NEW d \in Cpus
          PROVE  {x \in Threads : blocked'[x] /\ linkCpu[x] = d} =
                   {x \in Threads : blocked[x] /\ linkCpu[x] = d}
      BY <1>1, <1>2, <1>7
    <3> QED
      BY <1>3, <1>4, <1>5, <2>2, <3>1 DEF BlockedMatch
  <2> QED
    BY <1>1, <1>2, <2>2, <2>3, <2>5, <2>6 DEF IInv, TypeOK
<1> QED
  BY <1>1, <1>6, <1>7

\* TerminateThread: a running or unparked thread stays where it is, a parked one is moved.
LEMMA TerminateThreadKeeps ==
  ASSUME IInv, NEW k \in Callers, TerminateThread(k), UNCHANGED workload
  PROVE  IInv'
<1> DEFINE t == callThread[k]
           c == linkCpu[t]
<1>1. callPc[k] = "terminate" /\ LockFree /\ t \in Threads /\ fiberAt[t] # "none"
  BY CallsThread DEF TerminateThread
<1>2. /\ terminatePending' = [terminatePending EXCEPT ![t] = TRUE]
      /\ UNCHANGED <<running, linkCpu, kept, walker, yieldToOther, pc, next, home, priority,
                     fiberAt>>
  BY DEF TerminateThread
<1>3. OtherCallsStay(k)
  <2>1. IF NeverRan(t) THEN Call(k, t, "reclaim") /\ UNCHANGED callCpu ELSE Return(k)
    BY Zenon DEF TerminateThread
  <2>2. "reclaim" \in CallPc
    BY DEF CallPc
  <2> QED
    BY <1>1, <1>2, <2>1, <2>2, CallReturns, CallMoves
<1>4. /\ terminatePending' \in [Threads -> BOOLEAN]
      /\ toWake' = [toWake EXCEPT ![k] =
                      IF ~running[t] /\ (blocked[t] \/ suspended[t]) THEN {c} ELSE {}]
  BY <1>2 DEF TerminateThread, IInv, TypeOK
<1>5. ~running[t] /\ (blocked[t] \/ suspended[t]) => c \in Cpus
  BY <1>1 DEF IInv, Lists, OnOneList
<1>6. toWake' \in [Actors -> SUBSET Cpus]
  BY <1>4, <1>5 DEF IInv, TypeOK, Actors
<1>7. ASSUME TerminateRunning(t) \/ TerminateUnparked(t) PROVE IInv'
  <2>1. /\ UNCHANGED <<queued, blocked, suspended, queuedPrio, headRequeue, ready, readySummary,
                      blockedList, suspendedList>>
        /\ preemptRequested' \in [Threads -> BOOLEAN]
    BY <1>7 DEF TerminateRunning, TerminateUnparked, IInv, TypeOK
  <2>2. TypeOK'
    BY <1>3, <1>4, <1>6, <2>1 DEF OtherCallsStay, IInv, TypeOK, TerminateThread
  <2>3. Lists'
    BY <1>2, <2>1, SameListsKeep DEF IInv, SameLists
  <2>4. QueuedAtItsPriority'
    BY <1>1, <1>2, <1>3, <2>1 DEF OtherCallsStay, IInv, Control, QueuedAtItsPriority
  <2>5. Own' /\ YielderIsReadyHere' /\ Fresh' /\ Walk' /\ Homes'
    BY <1>2, <2>1 DEF IInv, Control, Own, YielderIsReadyHere, Fresh, Walk, Homes
  <2> QED
    BY <1>3, <2>2, <2>3, <2>4, <2>5 DEF OtherCallsStay, IInv, Control
<1>8. ASSUME TerminateParked(t) PROVE IInv'
  <2>1. /\ Unpark(t) /\ queued' = [queued EXCEPT ![t] = TRUE]
        /\ LinkReady(ready, readySummary, c, t, TRUE, FALSE)
    BY <1>8 DEF TerminateParked
  <2> HIDE DEF t, c
  <2>2. /\ ~queued[t] /\ ~running[t] /\ linkCpu[t] \in Cpus
        /\ blockedList' \in [Cpus -> Seq(Threads)] /\ suspendedList' \in [Cpus -> Seq(Threads)]
        /\ blocked' \in [Threads -> BOOLEAN] /\ suspended' \in [Threads -> BOOLEAN]
        /\ ~blocked'[t] /\ ~suspended'[t]
        /\ \A x \in Threads \ {t} : blocked'[x] = blocked[x] /\ suspended'[x] = suspended[x]
        /\ BlockedMatch' /\ SuspendedMatch'
    BY <1>1, <1>2, <2>1, UnparkDoes
  <2>3. /\ queued'[t] /\ linkCpu'[t] = c /\ c \in Cpus /\ queued' \in [Threads -> BOOLEAN]
        /\ \A x \in Threads \ {t} : queued'[x] = queued[x] /\ linkCpu'[x] = linkCpu[x]
    BY <1>1, <1>2, <2>1, <2>2 DEF IInv, TypeOK, c
  <2>4. Without(ready, readySummary, t)
    BY <1>1, <2>2, NotReadyWithout DEF IInv, Lists
  <2>5. /\ ready' \in [Cpus -> [Prios -> Seq(Threads)]]
        /\ readySummary' \in [Cpus -> SUBSET Prios]
        /\ queuedPrio' \in [Threads -> Prios] /\ queuedPrio'[t] = priority[t]
        /\ \A x \in Threads \ {t} : queuedPrio'[x] = queuedPrio[x]
        /\ headRequeue' \in [Threads -> BOOLEAN]
        /\ preemptRequested' \in [Threads -> BOOLEAN]
        /\ ReadyMatch' /\ SummaryExact'
    BY <1>1, <2>1, <2>3, <2>4, LinkReadyDoes DEF IInv
  <2>6. TypeOK'
    BY <1>3, <1>4, <1>6, <2>2, <2>3, <2>5
       DEF OtherCallsStay, IInv, TypeOK, TerminateThread
  <2>7. OnOneList'
    BY <1>1, <2>2, <2>3 DEF IInv, Lists, OnOneList
  <2>8. Own'
    BY <1>1, <1>2, <2>2, <2>3, OwnNotRunning
  <2>9. QueuedAtItsPriority'
    BY <1>1, <1>2, <1>3, <2>3, <2>5, RelinkedKeep DEF OtherCallsStay, IInv, Control
  <2>10. YielderIsReadyHere'
    <3> SUFFICES ASSUME NEW d \in Cpus, yieldToOther[d] # NoThread
                 PROVE  queued'[yieldToOther[d]] /\ linkCpu'[yieldToOther[d]] = d
      BY <1>2 DEF YielderIsReadyHere
    <3>1. yieldToOther[d] \in Threads
      BY DEF IInv, TypeOK
    <3>2. queued[yieldToOther[d]] /\ linkCpu[yieldToOther[d]] = d
      BY DEF IInv, Control, YielderIsReadyHere
    <3> QED
      BY <2>2, <2>3, <3>1, <3>2
  <2>11. Fresh' /\ Walk' /\ Homes'
    BY <1>1, <1>2, <2>2, <2>3 DEF IInv, Control, Fresh, Walk, Homes
  <2> QED
    BY <1>3, <2>2, <2>5, <2>6, <2>7, <2>8, <2>9, <2>10, <2>11
       DEF OtherCallsStay, IInv, Lists, Control
<1> QED
  BY <1>7, <1>8 DEF TerminateThread

-----------------------------------------------------------------------------
(* The lists agree in every behaviour. *)

\* Nothing is linked at first.
LEMMA InitHolds == Init => IInv
<1> SUFFICES ASSUME Init PROVE IInv
  OBVIOUS
<1>1. Lowest(Prios) \in Prios
  <2>1. Prios \subseteq Nat /\ Prios # {}
    BY SchedulerAssumption
  <2> QED
    BY <2>1, LowestIs
<1>2. <<>> \in Seq(Threads) /\ Elems(<<>>) = {} /\ Distinct(<<>>)
  BY DEF Elems, Distinct
<1>3. PICK c \in Cpus : currentCpu = [t \in Threads |-> c]
  BY DEF Init
<1>4. TypeOK
  BY <1>1, <1>2, <1>3, SchedulerAssumption DEF Init, TypeOK, CpuPc, CallPc, FiberAt
<1>5. Lists
  BY <1>2, SchedulerAssumption
     DEF Init, Lists, ReadyMatch, SummaryExact, BlockedMatch, SuspendedMatch, OnOneList
<1>6. Control
  BY SchedulerAssumption DEF Init, Control, Own, Standing, YielderIsReadyHere,
     QueuedAtItsPriority, Calls, Fresh, Walk, Homes
<1> QED
  BY <1>4, <1>5, <1>6 DEF IInv

\* Every step keeps the invariant.
LEMMA StepKeeps == IInv /\ [Next]_vars => IInv'
<1> SUFFICES ASSUME IInv, [Next]_vars PROVE IInv'
  OBVIOUS
<1>1. CASE UNCHANGED vars
  <2>1. TypeOK'
    BY <1>1 DEF IInv, TypeOK, vars, steps
  <2>2. Lists'
    BY <1>1, SameListsKeep DEF IInv, SameLists, vars, steps
  <2>3. Control'
    BY <1>1 DEF IInv, Control, Own, YielderIsReadyHere, QueuedAtItsPriority, Calls, Fresh, Walk,
                Homes, vars, steps
  <2> QED
    BY <2>1, <2>2, <2>3 DEF IInv
<1>2. ASSUME NEW c \in Cpus, LoopStep(c), UNCHANGED workload PROVE IInv'
  <2> c \in Actors
    BY DEF Actors
  <2> QED
    BY <1>2, BystandersKeep, BeginRereadyKeeps, RereadyOneKeeps, KeepParkedKeeps,
       EndRereadyKeeps, DequeueReadyKeeps, MigrateHomeKeeps, ParkSuspendedKeeps,
       SwitchBackKeeps, QuietLoopKeeps DEF LoopStep
<1>3. ASSUME NEW c \in Cpus, FiberStep(c), UNCHANGED workload PROVE IInv'
  <2>1. Crash(c) => IInv'
    BY <1>3, QuietLoopKeeps
  <2> QED
    BY <1>3, <2>1, GuestStepKeeps, QuietLoopKeeps, EnqueueSelfKeeps, ParkBlockedKeeps
       DEF FiberStep
<1>4. ASSUME NEW c \in Cpus, GuestStep(c), UNCHANGED workload PROVE IInv'
  BY <1>4, GuestStepKeeps, QuietLoopKeeps
<1>5. ASSUME NEW c \in Cpus, Watchdog(c), UNCHANGED workload PROVE IInv'
  BY <1>5, BystandersKeep
<1>6. ASSUME NEW k \in Callers, CallStep(k), UNCHANGED workload PROVE IInv'
  <2> k \in Actors
    BY DEF Actors
  <2>1. (MarkReady(k) \/ ReclaimByCaller(k)) => callThread[k] \in Threads
    BY CallsThread DEF MarkReady, ReclaimByCaller
  <2>2. (MarkReady(k) \/ ReclaimByCaller(k)) => IInv'
    BY <1>6, <2>1, QuietCallStepKeeps
  <2> QED
    BY <1>6, <2>2, BystandersKeep, ResumeThreadKeeps, EnqueueByCallerKeeps,
       MigrateForAffinityKeeps, RequeueForPriorityKeeps, TerminateThreadKeeps DEF CallStep
<1>7. ASSUME NEW k \in Callers, NewCall(k), UNCHANGED workload PROVE IInv'
  <2>1. ASSUME NEW t \in Threads,
               \/ \E c \in Cpus, p \in Prios : Create(k, t, c, p)
               \/ Suspend(k, t) \/ Resume(k, t) \/ Terminate(k, t)
               \/ \E c \in Cpus : SetActiveCpu(k, t, c)
               \/ \E p \in Prios : PublishPriority(k, t, p)
        PROVE  IInv'
    BY <1>7, <2>1, QuietCallStepKeeps
  <2>2. ASSUME NEW S \in SUBSET Cpus, WakeForSignal(k, S) \/ EnterBackgroundMode(k, S)
        PROVE  IInv'
    BY <1>7, <2>2, BystandersKeep
  <2> QED
    BY <1>7, <2>1, <2>2 DEF NewCall
<1> QED
  BY <1>1, <1>2, <1>3, <1>4, <1>5, <1>6, <1>7 DEF Next, Step

\* So it always holds.
LEMMA Invariant == Spec => []IInv
  BY InitHolds, StepKeeps, PTL DEF Spec

\* Every list holds exactly the threads that are linked to it, once; the level summaries,
\* the priorities and yield_to_other agree with them; and one dispatch thread at most uses
\* a fiber's stack (guest_scheduler.cc, LinkReadyLocked to UnlinkLocked, EnqueueReady,
\* RereadyBlocked, ParkSuspended, TerminateThread, SwitchTo).
THEOREM ListsHold == Spec => []ListsConsistent
  BY Invariant, IInvSays, PTL

-----------------------------------------------------------------------------
(* No dispatch thread sleeps through work. *)

\* A sleeper is marked parked, which is what a waker looks at, before it looks at its
\* queues for the last time.  An actor that has somebody
\* to wake does so before anything else, or walks or loops first.
Awake ==
  /\ \A c \in Cpus :
       /\ pc[c] \in {"recheck", "sleep", "sleepTimed"} => parked[c]
       /\ pc[c] \notin {"loop", "reready", "dequeue"} => toWake[c] = {}
  /\ \A k \in Callers : callPc[k] # "idle" => toWake[k] = {}

SleepInv == IInv /\ Awake /\ NoSleepThroughWork

\* A step of dispatch thread c that does not put it to sleep.  It may make a thread of
\* another CPU ready, and then owes that CPU a wake.
AwakeStep(c) ==
  /\ \A d \in Cpus \ {c} :
       /\ pc'[d] = pc[d] /\ parked'[d] = parked[d] /\ readyEvent'[d] = readyEvent[d]
       /\ repollNow'[d] = repollNow[d] /\ blockedList'[d] = blockedList[d]
       /\ readySummary'[d] = readySummary[d] \/ d \in toWake'[c]
  /\ \A a \in Actors \ {c} : toWake'[a] = toWake[a]
  /\ toWake[c] \subseteq toWake'[c]
  /\ pc'[c] \notin {"sleep", "sleepTimed"} /\ (pc'[c] = "recheck" => parked'[c])
  /\ pc'[c] \notin {"loop", "reready", "dequeue"} => toWake'[c] = {}
  /\ UNCHANGED callPc

\* Such a step leaves no other dispatch thread asleep with work.
LEMMA AwakeStepKeeps ==
  ASSUME SleepInv, NEW c \in Cpus, AwakeStep(c) PROVE Awake' /\ NoSleepThroughWork'
<1> c \in Actors
  BY DEF Actors
<1>1. Awake'
  <2>1. \A k \in Callers : k \in Actors /\ k # c
    BY SchedulerAssumption DEF Actors
  <2>2. \A d \in Cpus : d \in Actors
    BY DEF Actors
  <2> QED
    BY <2>1, <2>2 DEF SleepInv, Awake, AwakeStep
<1>2. NoSleepThroughWork'
  <2> SUFFICES ASSUME NEW d \in Cpus, pc'[d] \in {"sleep", "sleepTimed"}
               PROVE  /\ readySummary'[d] # {} \/ repollNow'[d] =>
                           readyEvent'[d] \/ \E a \in Actors : d \in toWake'[a]
                      /\ pc'[d] = "sleep" => blockedList'[d] = <<>>
    BY DEF NoSleepThroughWork
  <2>1. /\ pc'[d] = pc[d] /\ readyEvent'[d] = readyEvent[d]
        /\ repollNow'[d] = repollNow[d] /\ blockedList'[d] = blockedList[d]
        /\ readySummary'[d] = readySummary[d] \/ d \in toWake'[c]
    BY DEF AwakeStep
  <2>2. \A a \in Actors : toWake[a] \subseteq toWake'[a]
    BY DEF AwakeStep
  <2> QED
    BY <2>1, <2>2 DEF SleepInv, NoSleepThroughWork
<1> QED
  BY <1>1, <1>2

\* A step of caller k.  It wakes the CPUs that it gives something to do.
WakingCall(k) ==
  /\ UNCHANGED <<pc, parked, readyEvent>>
  /\ \A d \in Cpus :
       /\ blockedList[d] = <<>> => blockedList'[d] = <<>>
       /\ readySummary'[d] # {} \/ repollNow'[d] =>
            readySummary[d] # {} \/ repollNow[d] \/ d \in toWake'[k]
  /\ \A a \in Actors \ {k} : toWake'[a] = toWake[a]
  /\ toWake[k] = {}
  /\ \A j \in Callers \ {k} : callPc'[j] = callPc[j]
  /\ callPc'[k] # "idle" => toWake'[k] = {}

\* Such a step leaves no dispatch thread asleep with work.
LEMMA WakingCallKeeps ==
  ASSUME SleepInv, NEW k \in Callers, WakingCall(k) PROVE Awake' /\ NoSleepThroughWork'
<1> k \in Actors
  BY DEF Actors
<1>1. Awake'
  <2>1. \A d \in Cpus : d \in Actors /\ d # k
    BY SchedulerAssumption DEF Actors
  <2>2. \A j \in Callers : j \in Actors
    BY DEF Actors
  <2> QED
    BY <2>1, <2>2 DEF SleepInv, Awake, WakingCall
<1>2. NoSleepThroughWork'
  <2> SUFFICES ASSUME NEW d \in Cpus, pc[d] \in {"sleep", "sleepTimed"}
               PROVE  /\ readySummary'[d] # {} \/ repollNow'[d] =>
                           readyEvent[d] \/ \E a \in Actors : d \in toWake'[a]
                      /\ pc[d] = "sleep" => blockedList'[d] = <<>>
    BY DEF NoSleepThroughWork, WakingCall
  <2>1. \A a \in Actors : toWake[a] \subseteq toWake'[a]
    BY DEF WakingCall
  <2>2. pc[d] = "sleep" => blockedList'[d] = <<>>
    BY DEF SleepInv, NoSleepThroughWork, WakingCall
  <2>3. ASSUME readySummary'[d] # {} \/ repollNow'[d]
        PROVE  readyEvent[d] \/ \E a \in Actors : d \in toWake'[a]
    <3>1. CASE d \in toWake'[k]
      BY <3>1
    <3>2. CASE readySummary[d] # {} \/ repollNow[d]
      BY <2>1, <3>2 DEF SleepInv, NoSleepThroughWork
    <3> QED
      BY <2>3, <3>1, <3>2 DEF WakingCall
  <2> QED
    BY <2>2, <2>3
<1> QED
  BY <1>1, <1>2

\* The steps of a dispatch thread and of the fiber on it.
LEMMA LoopAwake ==
  ASSUME SleepInv, NEW c \in Cpus, UNCHANGED workload,
         LoopStep(c) \/ FiberStep(c) \/ GuestStep(c), ~Wake(c), ~RecheckWork(c)
  PROVE  Awake' /\ NoSleepThroughWork'
<1> SUFFICES AwakeStep(c)
  BY AwakeStepKeeps
<1>1. TypeOK /\ (pc[c] \notin {"loop", "reready", "dequeue"} => toWake[c] = {})
  BY DEF SleepInv, IInv, Awake
<1>2. CASE BeginReready(c)
  BY <1>1, <1>2 DEF TypeOK, AwakeStep, BeginReready
<1>3. CASE SkipReready(c)
  BY <1>1, <1>3 DEF TypeOK, AwakeStep, SkipReready
<1>4. CASE KeepParked(c)
  BY <1>1, <1>4 DEF TypeOK, AwakeStep, KeepParked
<1>5. CASE EndReready(c)
  BY <1>1, <1>5 DEF TypeOK, AwakeStep, EndReready
<1>6. CASE DequeueNothing(c)
  BY <1>1, <1>6 DEF TypeOK, AwakeStep, DequeueNothing
<1>7. CASE Inspect(c)
  BY <1>1, <1>7 DEF TypeOK, AwakeStep, Inspect, LeavesHome
<1>8. CASE ParkSuspended(c)
  BY <1>1, <1>8 DEF TypeOK, AwakeStep, ParkSuspended
<1>9. CASE RunAfterAll(c)
  BY <1>1, <1>9 DEF TypeOK, AwakeStep, RunAfterAll
<1>10. CASE SwitchTo(c)
  BY <1>1, <1>10 DEF TypeOK, AwakeStep, SwitchTo
<1>11. CASE EnterFiber(c)
  BY <1>1, <1>11 DEF TypeOK, AwakeStep, EnterFiber
<1>12. CASE SwitchBack(c)
  BY <1>1, <1>12 DEF TypeOK, AwakeStep, SwitchBack
<1>13. CASE Reclaim(c)
  BY <1>1, <1>13 DEF TypeOK, AwakeStep, Reclaim
<1>14. CASE IdlePark(c)
  BY <1>1, <1>14 DEF TypeOK, AwakeStep, IdlePark
<1>15. CASE WakeUp(c)
  BY <1>1, <1>15 DEF TypeOK, AwakeStep, WakeUp
<1>16. CASE ResumeAndExit(c)
  BY <1>1, <1>16 DEF TypeOK, AwakeStep, ResumeAndExit, ExitFiber
<1>17. CASE ResumeGuest(c)
  BY <1>1, <1>17 DEF TypeOK, AwakeStep, ResumeGuest
<1>18. CASE ResumeDead(c)
  BY <1>1, <1>18 DEF TypeOK, AwakeStep, ResumeDead
<1>19. CASE ParkBlocked(c)
  BY <1>1, <1>19 DEF TypeOK, AwakeStep, ParkBlocked
<1>20. CASE Safepoint(c)
  BY <1>1, <1>20, SMTT(30) DEF TypeOK, AwakeStep, Safepoint, ExitFiber, BeginYield
<1>21. CASE YieldVoluntary(c)
  BY <1>1, <1>21, ZenonT(60) DEF TypeOK, AwakeStep, YieldVoluntary, ExitFiber, BeginYield
<1>22. CASE SelfSuspend(c)
  BY <1>1, <1>22 DEF TypeOK, AwakeStep, SelfSuspend, ExitFiber, BeginYield
<1>23. CASE FiberExit(c)
  BY <1>1, <1>23 DEF TypeOK, AwakeStep, FiberExit, ExitFiber
<1>24. CASE Crash(c)
  BY <1>1, <1>24 DEF TypeOK, AwakeStep, Crash
<1>25. ASSUME NEW i \in BOOLEAN, Block(c, i) PROVE AwakeStep(c)
  BY <1>1, <1>25, SMTT(30) DEF TypeOK, AwakeStep, Block, ExitFiber
<1>26. CASE DequeueReady(c)
  <2>1. PICK p, t : readySummary' = SummaryWithout(c, p, t)
    BY <1>26, Zenon DEF DequeueReady
  <2>2. \A d \in Cpus \ {c} : readySummary'[d] = readySummary[d]
    BY <1>1, <2>1 DEF TypeOK, SummaryWithout
  <2>3. /\ pc' = [pc EXCEPT ![c] = "dequeued"] /\ toWake[c] = {}
        /\ UNCHANGED <<blockedList, sleepVars, callVars, toWake>>
    BY <1>26 DEF DequeueReady
  <2> QED
    BY <1>1, <2>2, <2>3 DEF TypeOK, AwakeStep
<1>27. CASE RereadyOne(c)
  <2> DEFINE t == Head(blockedList[c])
             target == currentCpu[t]
  <2>1. /\ LinkReady(ready, readySummary, target, t, headRequeue[t], TRUE)
        /\ toWake' = [toWake EXCEPT ![c] = @ \cup ({target} \ {c})]
        /\ blockedList' = [blockedList EXCEPT ![c] = Tail(@)]
        /\ pc[c] = "reready" /\ blockedList[c] # <<>>
        /\ UNCHANGED <<sleepVars, pc, callVars>>
    BY <1>27 DEF RereadyOne
  <2>2. t \in Threads /\ target \in Cpus
    BY <1>1, <2>1, TailElems DEF TypeOK
  <2>3. \A d \in Cpus \ {target} : readySummary'[d] = readySummary[d]
    BY <1>1, <2>1, <2>2 DEF TypeOK, LinkReady
  <2> HIDE DEF target
  <2> QED
    BY <1>1, <2>1, <2>2, <2>3 DEF TypeOK, AwakeStep, Actors
<1>28. CASE MigrateHome(c)
  <2> DEFINE t == next[c]
             target == home[c]
  <2>1. /\ LinkReady(ready, readySummary, target, t, headRequeue[t], TRUE)
        /\ toWake' = [toWake EXCEPT ![c] = {target}] /\ pc[c] = "migrate"
        /\ pc' = [pc EXCEPT ![c] = "loop"]
        /\ UNCHANGED <<blockedList, sleepVars, callVars>>
    BY <1>28 DEF MigrateHome
  <2>2. target \in Cpus
    BY <2>1 DEF SleepInv, IInv, Control, Homes
  <2>3. \A d \in Cpus \ {target} : readySummary'[d] = readySummary[d]
    BY <1>1, <2>1, <2>2 DEF TypeOK, LinkReady
  <2> HIDE DEF target
  <2> QED
    BY <1>1, <2>1, <2>2, <2>3 DEF TypeOK, AwakeStep, Actors
<1>29. CASE EnqueueSelf(c)
  <2>1. \A d \in Cpus \ {c} : readySummary'[d] = readySummary[d]
    <3>1. CASE Enqueueable(next[c], c)
      <4>1. LinkReady(ready, readySummary, c, next[c], headRequeue[next[c]], TRUE)
        BY <1>29, <3>1 DEF EnqueueSelf, EnqueueReady
      <4> QED
        BY <1>1, <4>1 DEF TypeOK, LinkReady
    <3>2. CASE ~Enqueueable(next[c], c)
      BY <1>29, <3>2 DEF EnqueueSelf
    <3> QED
      BY <3>1, <3>2
  <2>2. /\ pc[c] = "enqueue" /\ pc' = [pc EXCEPT ![c] = "back"]
        /\ UNCHANGED <<blockedList, sleepVars, callVars, toWake>>
    BY <1>29 DEF EnqueueSelf
  <2> QED
    BY <1>1, <2>1, <2>2 DEF TypeOK, AwakeStep
<1> QED
  BY <1>2, <1>3, <1>4, <1>5, <1>6, <1>7, <1>8, <1>9, <1>10, <1>11, <1>12, <1>13, <1>14, <1>15,
     <1>16, <1>17, <1>18, <1>19, <1>20, <1>21, <1>22, <1>23, <1>24, <1>25, <1>26, <1>27, <1>28,
     <1>29 DEF LoopStep, FiberStep, GuestStep

\* The second look at the queues, parked already, is what lets a dispatch thread sleep.
LEMMA RecheckAwake ==
  ASSUME SleepInv, NEW c \in Cpus, RecheckWork(c) PROVE Awake' /\ NoSleepThroughWork'
<1>1. TypeOK /\ pc[c] = "recheck" /\ toWake[c] = {}
  BY DEF SleepInv, IInv, Awake, RecheckWork
<1>2. CASE WorkArrived(c)
  <2>1. AwakeStep(c)
    BY <1>1, <1>2 DEF TypeOK, AwakeStep, RecheckWork
  <2> QED
    BY <2>1, AwakeStepKeeps
<1>3. CASE ~WorkArrived(c)
  <2>1. /\ pc' = [pc EXCEPT ![c] = SleepKind(c)]
        /\ UNCHANGED <<parked, readyEvent, repollNow, readySummary, blockedList, toWake, callPc>>
    BY <1>3 DEF RecheckWork
  <2>2. /\ SleepKind(c) \in {"sleep", "sleepTimed"}
        /\ SleepKind(c) = "sleep" => blockedList[c] = <<>>
    BY DEF SleepKind
  <2>3. \A d \in Cpus \ {c} : pc'[d] = pc[d]
    BY <1>1, <2>1 DEF TypeOK
  <2>4. pc'[c] = SleepKind(c)
    BY <1>1, <2>1 DEF TypeOK
  <2>5. /\ \A d \in Cpus : /\ pc'[d] \in {"recheck", "sleep", "sleepTimed"} => parked[d]
                           /\ pc'[d] \notin {"loop", "reready", "dequeue"} => toWake[d] = {}
        /\ \A k \in Callers : callPc[k] # "idle" => toWake[k] = {}
    BY <1>1, <2>2, <2>3, <2>4 DEF SleepInv, Awake
  <2>6. NoSleepThroughWork'
    BY <1>3, <2>1, <2>2, <2>3, <2>4 DEF SleepInv, NoSleepThroughWork, WorkArrived
  <2> QED
    BY <2>1, <2>5, <2>6 DEF Awake
<1> QED
  BY <1>2, <1>3

\* A wake sets the event of a CPU it finds parked, so a sleeper it was owed to gets it.
LEMMA WakeAwake ==
  ASSUME SleepInv, NEW a \in Actors, Wake(a) PROVE Awake' /\ NoSleepThroughWork'
<1>1. PICK x \in toWake[a] :
        /\ toWake' = [toWake EXCEPT ![a] = @ \ {x}]
        /\ readyEvent' = [readyEvent EXCEPT ![x] = @ \/ parked[x]]
        /\ UNCHANGED <<pc, parked, repollNow, readySummary, blockedList, callPc>>
  BY DEF Wake
<1>2. /\ x \in Cpus /\ \A b \in Actors : toWake'[b] \subseteq toWake[b]
      /\ \A b \in Actors, d \in Cpus \ {x} : d \in toWake[b] => d \in toWake'[b]
      /\ \A d \in Cpus : readyEvent[d] => readyEvent'[d]
      /\ parked[x] => readyEvent'[x]
  BY <1>1 DEF SleepInv, IInv, TypeOK
<1>3. Awake'
  <2>1. (\A d \in Cpus : d \in Actors) /\ (\A k \in Callers : k \in Actors)
    BY DEF Actors
  <2> QED
    BY <1>1, <1>2, <2>1 DEF SleepInv, Awake
<1>4. NoSleepThroughWork'
  <2> SUFFICES ASSUME NEW d \in Cpus, pc[d] \in {"sleep", "sleepTimed"}
               PROVE  /\ readySummary[d] # {} \/ repollNow[d] =>
                           readyEvent'[d] \/ \E b \in Actors : d \in toWake'[b]
                      /\ pc[d] = "sleep" => blockedList[d] = <<>>
    BY <1>1 DEF NoSleepThroughWork
  <2>1. parked[d]
    BY DEF SleepInv, Awake
  <2> QED
    BY <1>2, <2>1 DEF SleepInv, NoSleepThroughWork
<1> QED
  BY <1>3, <1>4

\* The steps of a caller.
LEMMA CallAwake ==
  ASSUME SleepInv, NEW k \in Callers, CallStep(k) \/ NewCall(k), ~Wake(k), UNCHANGED workload
  PROVE  Awake' /\ NoSleepThroughWork'
<1> SUFFICES WakingCall(k)
  BY WakingCallKeeps
<1>1. TypeOK /\ (callPc[k] # "idle" => toWake[k] = {})
  BY DEF SleepInv, IInv, Awake
<1>2. CASE ReclaimByCaller(k)
  BY <1>1, <1>2 DEF TypeOK, WakingCall, Return, ReclaimByCaller
<1>3. CASE MarkReady(k)
  BY <1>1, <1>3 DEF TypeOK, WakingCall, Return, Call, MarkReady
<1>4. CASE ResumeThread(k)
  BY <1>1, <1>4 DEF TypeOK, WakingCall, Call, ResumeThread
<1>5. CASE EnqueueByCaller(k)
  <2>1. /\ callPc[k] = "enqueue" /\ callPc' = [callPc EXCEPT ![k] = "idle"]
        /\ UNCHANGED <<pc, sleepVars, blockedList>>
    BY <1>5 DEF EnqueueByCaller, Return
  <2>2. CASE ~Enqueueable(callThread[k], NoCpu)
    BY <1>1, <1>5, <2>1, <2>2 DEF TypeOK, WakingCall, EnqueueByCaller
  <2>3. CASE Enqueueable(callThread[k], NoCpu)
    <3>1. /\ LinkReady(ready, readySummary, callCpu[k], callThread[k],
                       headRequeue[callThread[k]], TRUE)
          /\ toWake' = [toWake EXCEPT ![k] = {callCpu[k]}]
      BY <1>5, <2>3 DEF EnqueueByCaller, EnqueueReady
    <3>2. callCpu[k] \in Cpus
      BY <2>1, CallsThread DEF SleepInv
    <3>3. \A d \in Cpus \ {callCpu[k]} : readySummary'[d] = readySummary[d]
      BY <1>1, <3>1, <3>2 DEF TypeOK, LinkReady
    <3> QED
      BY <1>1, <2>1, <3>1, <3>2, <3>3 DEF TypeOK, WakingCall, Actors
  <2> QED
    BY <2>2, <2>3
<1>6. CASE MigrateForAffinity(k)
  <2> DEFINE t == callThread[k]
             from == linkCpu[t]
             target == currentCpu[t]
  <2>1. /\ callPc[k] = "migrate" /\ callPc' = [callPc EXCEPT ![k] = "idle"]
        /\ UNCHANGED <<pc, sleepVars, blockedList>>
    BY <1>6 DEF MigrateForAffinity, Return
  <2>2. CASE ~(queued[t] /\ ~running[t] /\ target # from)
    BY <1>1, <1>6, <2>1, <2>2 DEF TypeOK, WakingCall, MigrateForAffinity
  <2>3. CASE queued[t] /\ ~running[t] /\ target # from
    <3> DEFINE sum == SummaryWithout(from, queuedPrio[t], t)
    <3>1. /\ LinkReady(ReadyWithout(from, queuedPrio[t], t), sum, target, t, headRequeue[t], TRUE)
          /\ toWake' = [toWake EXCEPT ![k] = {target}]
      BY <1>6, <2>3, Zenon DEF MigrateForAffinity
    <3>2. target \in Cpus
      BY <1>1, <2>1, CallsThread DEF SleepInv, TypeOK
    <3>3. sum \in [Cpus -> SUBSET Prios] /\ \A d \in Cpus : sum[d] \subseteq readySummary[d]
      BY <1>1 DEF TypeOK, SummaryWithout
    <3> HIDE DEF sum, target, from
    <3>4. \A d \in Cpus \ {target} : readySummary'[d] \subseteq readySummary[d]
      BY <3>1, <3>2, <3>3 DEF LinkReady
    <3> QED
      BY <1>1, <2>1, <3>1, <3>2, <3>4 DEF TypeOK, WakingCall, Actors
  <2> QED
    BY <2>2, <2>3
<1>7. CASE RequeueForPriority(k)
  <2> DEFINE t == callThread[k]
             c == linkCpu[t]
  <2>1. /\ callPc[k] = "requeue" /\ callPc' = [callPc EXCEPT ![k] = "idle"]
        /\ UNCHANGED <<pc, sleepVars, blockedList, toWake>>
    BY <1>7 DEF RequeueForPriority, Return
  <2>2. CASE ~queued[t]
    BY <1>1, <1>7, <2>1, <2>2 DEF TypeOK, WakingCall, RequeueForPriority, NeedsRequeue
  <2>3. CASE queued[t]
    <3> DEFINE sum == SummaryWithout(c, queuedPrio[t], t)
    <3>1. LinkReady(ReadyWithout(c, queuedPrio[t], t), sum, c, t, FALSE, FALSE)
      BY <1>7, <2>3, Zenon DEF RequeueForPriority, NeedsRequeue
    <3>2. t \in Threads /\ c \in Cpus /\ queuedPrio[t] \in Prios
      BY <1>1, <2>1, <2>3, CallsThread DEF SleepInv, IInv, Lists, OnOneList, TypeOK
    <3>3. sum \in [Cpus -> SUBSET Prios] /\ \A d \in Cpus : sum[d] \subseteq readySummary[d]
      BY <1>1 DEF TypeOK, SummaryWithout
    <3>4. readySummary[c] # {}
      <4>1. t \in Elems(ready[c][queuedPrio[t]])
        BY <2>3, <3>2 DEF SleepInv, IInv, Lists, ReadyMatch
      <4>2. ready[c][queuedPrio[t]] # <<>>
        BY <4>1 DEF Elems
      <4> QED
        BY <3>2, <4>2 DEF SleepInv, IInv, Lists, SummaryExact
    <3> HIDE DEF sum, c
    <3>5. \A d \in Cpus \ {c} : readySummary'[d] \subseteq readySummary[d]
      BY <3>1, <3>2, <3>3 DEF LinkReady
    <3> QED
      BY <1>1, <2>1, <3>4, <3>5 DEF TypeOK, WakingCall, Actors
  <2> QED
    BY <2>2, <2>3
<1>8. CASE TerminateThread(k)
  <2> DEFINE t == callThread[k]
             c == linkCpu[t]
  <2>1. callPc[k] = "terminate" /\ t \in Threads /\ LockFree
    BY <1>8, CallsThread DEF TerminateThread, SleepInv
  <2>2. /\ UNCHANGED <<pc, sleepVars, linkCpu, kept>>
        /\ toWake' = [toWake EXCEPT ![k] =
                        IF ~running[t] /\ (blocked[t] \/ suspended[t]) THEN {c} ELSE {}]
    BY <1>8 DEF TerminateThread
  <2>3. IF NeverRan(t) THEN Call(k, t, "reclaim") /\ UNCHANGED callCpu ELSE Return(k)
    BY <1>8, Zenon DEF TerminateThread
  <2>4. \A j \in Callers \ {k} : callPc'[j] = callPc[j]
    BY <1>1, <2>3 DEF Call, Return, TypeOK
  <2>5. callPc'[k] # "idle" => NeverRan(t)
    BY <1>1, <2>3 DEF Return, TypeOK
  <2>6. ASSUME TerminateRunning(t) \/ TerminateUnparked(t) PROVE WakingCall(k)
    <3>1. /\ UNCHANGED <<blockedList, readySummary>>
          /\ ~(~running[t] /\ (blocked[t] \/ suspended[t]))
      BY <2>6 DEF TerminateRunning, TerminateUnparked
    <3>2. toWake' = [toWake EXCEPT ![k] = {}]
      BY <2>2, <3>1
    <3> QED
      BY <1>1, <2>1, <2>2, <2>4, <3>1, <3>2 DEF TypeOK, WakingCall, Actors
  <2>7. ASSUME TerminateParked(t) PROVE WakingCall(k)
    <3>1. /\ Unpark(t) /\ LinkReady(ready, readySummary, c, t, TRUE, FALSE)
          /\ ~running[t] /\ (blocked[t] \/ suspended[t])
      BY <2>7 DEF TerminateParked, Unpark
    <3>2. c \in Cpus
      BY <2>1, <3>1 DEF SleepInv, IInv, Lists, OnOneList
    <3>3. toWake' = [toWake EXCEPT ![k] = {c}] /\ callPc'[k] = "idle"
      BY <2>2, <2>5, <3>1 DEF NeverRan
    <3>4. \A d \in Cpus : blockedList[d] = <<>> => blockedList'[d] = <<>>
      <4>1. blockedList' \in {blockedList, [blockedList EXCEPT ![c] = Unlink(blockedList[c], t)]}
        BY <3>1 DEF Unpark
      <4>2. blockedList[c] = <<>> => Unlink(blockedList[c], t) = <<>>
        BY DEF Unlink, Elems
      <4> QED
        BY <1>1, <3>2, <4>1, <4>2 DEF TypeOK
    <3>5. \A d \in Cpus \ {c} : readySummary'[d] = readySummary[d]
      BY <1>1, <3>1, <3>2 DEF TypeOK, LinkReady
    <3> HIDE DEF c
    <3> QED
      <4>1. /\ toWake'[k] = {c} /\ \A a \in Actors \ {k} : toWake'[a] = toWake[a]
        BY <1>1, <3>3 DEF TypeOK, Actors
      <4> QED
        BY <1>1, <2>1, <2>2, <2>4, <3>2, <3>3, <3>4, <3>5, <4>1 DEF WakingCall
  <2> QED
    BY <1>8, <2>6, <2>7 DEF TerminateThread
<1>9. ASSUME NEW S \in SUBSET Cpus, WakeForSignal(k, S) PROVE WakingCall(k)
  BY <1>1, <1>9 DEF TypeOK, Actors, WakingCall, Idle, WakeForSignal
<1>10. ASSUME NEW S \in SUBSET Cpus, EnterBackgroundMode(k, S) PROVE WakingCall(k)
  BY <1>1, <1>10 DEF TypeOK, WakingCall, Idle, EnterBackgroundMode
<1>11. ASSUME NEW t \in Threads, Suspend(k, t) \/ Resume(k, t) \/ Terminate(k, t)
       PROVE  WakingCall(k)
  BY <1>1, <1>11 DEF TypeOK, WakingCall, Idle, Call, Suspend, Resume, Terminate
<1>12. ASSUME NEW t \in Threads, NEW c \in Cpus, SetActiveCpu(k, t, c) PROVE WakingCall(k)
  BY <1>1, <1>12 DEF TypeOK, WakingCall, Idle, Call, SetActiveCpu
<1>13. ASSUME NEW t \in Threads, NEW p \in Prios, PublishPriority(k, t, p) PROVE WakingCall(k)
  BY <1>1, <1>13 DEF TypeOK, WakingCall, Idle, Call, PublishPriority
<1>14. ASSUME NEW t \in Threads, NEW c \in Cpus, NEW p \in Prios, Create(k, t, c, p)
       PROVE  WakingCall(k)
  BY <1>1, <1>14 DEF TypeOK, WakingCall, Idle, Call, Create
<1> QED
  BY <1>2, <1>3, <1>4, <1>5, <1>6, <1>7, <1>8, <1>9, <1>10, <1>11, <1>12, <1>13, <1>14
     DEF CallStep, NewCall

\* The watchdog wakes nobody and queues nobody.
LEMMA WatchdogAwake ==
  ASSUME SleepInv, NEW c \in Cpus, Watchdog(c) PROVE Awake' /\ NoSleepThroughWork'
  BY DEF SleepInv, Awake, NoSleepThroughWork, Watchdog

\* So no dispatch thread ever sleeps through work.
LEMMA SleepInvHolds == Spec => []SleepInv
<1>1. Init => SleepInv
  <2>1. Init => Awake /\ NoSleepThroughWork
    BY DEF Init, Awake, NoSleepThroughWork, Actors
  <2> QED
    BY <2>1, InitHolds DEF SleepInv
<1>2. SleepInv /\ [Next]_vars => SleepInv'
  <2> SUFFICES ASSUME SleepInv, [Next]_vars PROVE Awake' /\ NoSleepThroughWork'
    BY StepKeeps DEF SleepInv
  <2>1. CASE UNCHANGED vars
    BY <2>1 DEF SleepInv, Awake, NoSleepThroughWork, vars, steps
  <2>2. ASSUME NEW c \in Cpus, UNCHANGED workload, LoopStep(c) \/ FiberStep(c) \/ GuestStep(c)
        PROVE  Awake' /\ NoSleepThroughWork'
    <3> c \in Actors
      BY DEF Actors
    <3> QED
      BY <2>2, LoopAwake, RecheckAwake, WakeAwake
  <2>3. ASSUME NEW k \in Callers, UNCHANGED workload, CallStep(k) \/ NewCall(k)
        PROVE  Awake' /\ NoSleepThroughWork'
    <3> k \in Actors
      BY DEF Actors
    <3> QED
      BY <2>3, CallAwake, WakeAwake
  <2> QED
    BY <2>1, <2>2, <2>3, WatchdogAwake DEF Next, Step
<1> QED
  BY <1>1, <1>2, PTL DEF Spec

\* A dispatch thread that found nothing to do and went to sleep has its event set, or
\* somebody on the way to set it, as soon as there is something (guest_scheduler.cc,
\* RunLoop's parked flag against EnqueueReady, WakeForSignal and TerminateThread).
THEOREM NobodySleepsThroughWork == Spec => []NoSleepThroughWork
<1>1. SleepInv => NoSleepThroughWork
  BY DEF SleepInv
<1> QED
  BY <1>1, SleepInvHolds, PTL

-----------------------------------------------------------------------------
(* No thread is lost. *)

\* The two ways off a dispatch thread lead on: a thread is parked as suspended for a reason,
\* and a fiber that yielded back is linked or has made its final yield.
OnItsWay(t) ==
  /\ stateTerminated[t] \/ Reachable(t)
  /\ suspended[t] => HeldForAReason(t)
  /\ fiberAt[t] = "none" => ~hasRun[t]
LeavesFor(t) == fiberAt[t] \in {"exit", "crashed"} \/ queued[t] \/ blocked[t]
Leaves == \A c \in Cpus : pc[c] = "back" => LeavesFor(next[c])

Onward == (\A t \in Threads : OnItsWay(t)) /\ Leaves
ReachInv == IInv /\ Onward

\* What led to thread x before the step still does.
StillLed(x) ==
  /\ fiberAt'[x] = fiberAt[x] /\ suspended'[x] = suspended[x] /\ hasRun'[x] = hasRun[x]
  /\ stateTerminated[x] => stateTerminated'[x]
  /\ reclaimed[x] => reclaimed'[x]
  /\ queued[x] \/ blocked[x] => queued'[x] \/ blocked'[x]
  /\ running[x] => running'[x]
  /\ suspendCount[x] > 0 => suspendCount'[x] > 0
StillCalled(x) ==
  \A k \in Callers : BringsBack(k, x) => callThread'[k] = x /\ callPc'[k] = callPc[k]

\* So the thread stays on its way.
LEMMA StillOnItsWay ==
  ASSUME NEW x \in Threads, OnItsWay(x), StillLed(x), StillCalled(x) PROVE OnItsWay(x)'
<1>1. HeldForAReason(x) => HeldForAReason(x)'
  BY DEF HeldForAReason, StillLed, StillCalled, BringsBack
<1>2. ASSUME NEW k \in Callers, BringsBack(k, x) PROVE \E j \in Callers : BringsBack(j, x)'
  BY <1>2 DEF StillCalled, BringsBack
<1>3. Reachable(x) => Reachable(x)'
  BY <1>1, <1>2 DEF Reachable, StillLed
<1> QED
  BY <1>1, <1>3 DEF OnItsWay, StillLed

\* A step of dispatch thread c that is about thread t, which no other dispatch thread leaves.
LEMMA LoopOnward ==
  ASSUME ReachInv, NEW c \in Cpus, NEW t \in Threads,
         \A d \in Cpus \ {c} : pc'[d] = pc[d] /\ next'[d] = next[d]
                               /\ (pc[d] = "back" => next[d] # t),
         UNCHANGED <<callPc, callThread>>,
         \A x \in Threads \ {t} : StillLed(x),
         OnItsWay(t)', pc'[c] = "back" => next'[c] = t /\ LeavesFor(t)'
  PROVE  Onward'
<1>1. ASSUME NEW x \in Threads \ {t} PROVE OnItsWay(x)'
  <2>1. StillCalled(x)
    BY DEF StillCalled, BringsBack
  <2> QED
    BY <2>1, StillOnItsWay DEF ReachInv, Onward
<1>2. ASSUME NEW d \in Cpus, pc'[d] = "back" PROVE LeavesFor(next[d])'
  <2>1. CASE d = c
    BY <1>2, <2>1 DEF LeavesFor
  <2>2. CASE d # c
    <3>1. PICK u \in Threads : u = next[d] /\ u # t /\ next'[d] = u
      BY <1>2, <2>2, Stander DEF ReachInv, Standing
    <3>2. LeavesFor(u)
      BY <1>2, <2>2, <3>1 DEF ReachInv, Onward, Leaves
    <3> QED
      BY <3>1, <3>2 DEF StillLed, LeavesFor
  <2> QED
    BY <2>1, <2>2
<1> QED
  BY <1>1, <1>2 DEF Onward, Leaves

\* A step of dispatch thread c on the fiber it stands on, and goes on standing on.
LEMMA FiberOnward ==
  ASSUME ReachInv, NEW c \in Cpus, NEW t \in Threads, t = next[c],
         pc[c] \in Standing \ {"back"},
         \A d \in Cpus \ {c} : pc'[d] = pc[d] /\ next'[d] = next[d],
         UNCHANGED <<callPc, callThread>>,
         \A x \in Threads \ {t} : StillLed(x),
         running'[t], suspended'[t] = suspended[t], fiberAt'[t] # "none",
         pc'[c] = "back" => next'[c] = t /\ LeavesFor(t)'
  PROVE  Onward'
<1>1. ~suspended[t] /\ \A d \in Cpus \ {c} : pc[d] = "back" => next[d] # t
  BY Stander DEF ReachInv, Standing
<1>2. OnItsWay(t)'
  BY <1>1 DEF OnItsWay, Reachable
<1> QED
  BY <1>1, <1>2, LoopOnward

\* A step of caller k about thread t.
LEMMA CallOnward ==
  ASSUME ReachInv, NEW k \in Callers, NEW t \in Threads, UNCHANGED <<pc, next>>,
         \A j \in Callers \ {k} : callPc'[j] = callPc[j] /\ callThread'[j] = callThread[j],
         callPc[k] # "idle" => callThread[k] = t,
         \A x \in Threads \ {t} : StillLed(x),
         fiberAt[t] \in {"none", fiberAt'[t]},
         queued[t] \/ blocked[t] => queued'[t] \/ blocked'[t],
         OnItsWay(t)'
  PROVE  Onward'
<1>1. ASSUME NEW x \in Threads \ {t} PROVE OnItsWay(x)'
  <2>1. StillCalled(x)
    BY DEF StillCalled, BringsBack
  <2> QED
    BY <2>1, StillOnItsWay DEF ReachInv, Onward
<1>2. ASSUME NEW d \in Cpus, pc[d] = "back" PROVE LeavesFor(next[d])'
  <2>1. PICK u \in Threads : u = next[d] /\ fiberAt[u] # "none"
    BY <1>2, Stander DEF ReachInv, Standing
  <2>2. LeavesFor(u)
    BY <1>2, <2>1 DEF ReachInv, Onward, Leaves
  <2> QED
    BY <2>1, <2>2 DEF StillLed, LeavesFor
<1> QED
  BY <1>1, <1>2 DEF Onward, Leaves

\* A step that changes no link, no thread and no call, and sends nobody back.
LEMMA QuietOnward ==
  ASSUME ReachInv,
         \A d \in Cpus : pc'[d] = "back" => pc[d] = "back" /\ next'[d] = next[d],
         UNCHANGED <<queued, blocked, suspended, running, hasRun, stateTerminated, fiberAt,
                     reclaimed, suspendCount, callPc, callThread>>
  PROVE  Onward'
<1>1. ASSUME NEW x \in Threads PROVE OnItsWay(x)'
  <2>1. StillLed(x) /\ StillCalled(x)
    BY DEF StillLed, StillCalled, BringsBack
  <2> QED
    BY <2>1, StillOnItsWay DEF ReachInv, Onward
<1> QED
  BY <1>1 DEF ReachInv, Onward, Leaves, LeavesFor

\* The dispatch loop, as long as it changes no thread, the watchdog and the wakes.
QuietLoop ==
  \/ \E a \in Actors : Wake(a)
  \/ \E c \in Cpus :
       \/ Watchdog(c) \/ BeginReready(c) \/ SkipReready(c) \/ KeepParked(c)
       \/ EndReready(c) \/ DequeueNothing(c) \/ Inspect(c) \/ RunAfterAll(c)
       \/ IdlePark(c) \/ RecheckWork(c) \/ WakeUp(c)
  \/ \E k \in Callers, S \in SUBSET Cpus :
       WakeForSignal(k, S) \/ EnterBackgroundMode(k, S)
StaysQuiet(d) ==
  \/ pc'[d] = pc[d]
  \/ /\ {pc[d], pc'[d]} \cap {"back", "reclaim", "guest"} = {}
     /\ pc'[d] \in Standing => pc[d] \in Standing

\* All they change of what matters here is where a dispatch thread is in its loop.
LEMMA QuietLoopDoes ==
  ASSUME TypeOK, QuietLoop
  PROVE  /\ UNCHANGED <<queued, blocked, suspended, running, hasRun, terminatePending,
                         stateTerminated, fiberAt, reclaimed, suspendCount, callPc, callThread,
                         next, exitedThread>>
         /\ \A d \in Cpus : StaysQuiet(d)
<1>1. UNCHANGED <<queued, blocked, suspended, running, hasRun, terminatePending, stateTerminated,
                  fiberAt, reclaimed, suspendCount, callPc, callThread, next, exitedThread>>
  <2> DEFINE Q == UNCHANGED <<queued, blocked, suspended, running, hasRun, terminatePending,
                              stateTerminated, fiberAt, reclaimed, suspendCount, callPc,
                              callThread, next, exitedThread>>
  <2>1. ASSUME NEW c \in Cpus, \/ Watchdog(c) \/ BeginReready(c) \/ SkipReready(c)
                               \/ KeepParked(c) \/ EndReready(c)
        PROVE  Q
    BY <2>1 DEF Watchdog, BeginReready, SkipReready, KeepParked, EndReready
  <2>2. ASSUME NEW c \in Cpus, \/ DequeueNothing(c) \/ Inspect(c) \/ RunAfterAll(c)
                               \/ IdlePark(c) \/ RecheckWork(c) \/ WakeUp(c)
        PROVE  Q
    BY <2>2 DEF DequeueNothing, Inspect, RunAfterAll, IdlePark, RecheckWork, WakeUp
  <2>3. ASSUME NEW a \in Actors, Wake(a) PROVE Q
    BY <2>3 DEF Wake
  <2>4. ASSUME NEW k \in Callers, NEW S \in SUBSET Cpus,
               WakeForSignal(k, S) \/ EnterBackgroundMode(k, S)
        PROVE  Q
    BY <2>4 DEF WakeForSignal, EnterBackgroundMode
  <2> HIDE DEF Q
  <2>5. Q
    BY <2>1, <2>2, <2>3, <2>4 DEF QuietLoop
  <2> QED
    BY <2>5 DEF Q
<1>2. ASSUME NEW d \in Cpus PROVE StaysQuiet(d)
  <2>1. ASSUME NEW c \in Cpus, NEW there, pc' = [pc EXCEPT ![c] = there],
               {pc[c], there} \cap {"back", "reclaim", "guest"} = {},
               there \in Standing => pc[c] \in Standing
        PROVE  StaysQuiet(d)
    BY <2>1 DEF TypeOK, StaysQuiet
  <2>2. ASSUME NEW c \in Cpus, \/ BeginReready(c) \/ SkipReready(c) \/ EndReready(c)
                               \/ DequeueNothing(c) \/ IdlePark(c) \/ WakeUp(c)
        PROVE  StaysQuiet(d)
    <3>1. PICK there \in {"loop", "reready", "dequeue", "idle", "recheck"} :
            /\ pc' = [pc EXCEPT ![c] = there]
            /\ pc[c] \in {"loop", "reready", "dequeue", "idle", "sleep", "sleepTimed"}
      BY <2>2 DEF BeginReready, SkipReready, EndReready, DequeueNothing, IdlePark, WakeUp
    <3> QED
      BY <2>1, <3>1 DEF Standing
  <2>3. ASSUME NEW c \in Cpus, Inspect(c) \/ RunAfterAll(c) \/ RecheckWork(c)
        PROVE  StaysQuiet(d)
    <3>1. CASE Inspect(c) \/ RunAfterAll(c)
      <4>1. PICK there \in {"migrate", "hold", "switchTo"} :
              pc' = [pc EXCEPT ![c] = there] /\ pc[c] \in {"dequeued", "hold"}
        BY <3>1 DEF Inspect, RunAfterAll
      <4> QED
        BY <2>1, <4>1 DEF Standing
    <3>2. CASE RecheckWork(c)
      <4>1. PICK there \in {"loop", "sleep", "sleepTimed"} :
              pc' = [pc EXCEPT ![c] = there] /\ pc[c] = "recheck"
        BY <3>2 DEF RecheckWork, SleepKind
      <4> QED
        BY <2>1, <4>1 DEF Standing
    <3> QED
      BY <2>3, <3>1, <3>2
  <2>4. ASSUME NEW c \in Cpus, KeepParked(c) \/ Watchdog(c) PROVE UNCHANGED pc
    BY <2>4 DEF KeepParked, Watchdog
  <2>5. ASSUME NEW a \in Actors, Wake(a) PROVE UNCHANGED pc
    BY <2>5 DEF Wake
  <2>6. ASSUME NEW k \in Callers, NEW S \in SUBSET Cpus,
               WakeForSignal(k, S) \/ EnterBackgroundMode(k, S)
        PROVE  UNCHANGED pc
    BY <2>6 DEF WakeForSignal, EnterBackgroundMode
  <2> QED
    BY <2>2, <2>3, <2>4, <2>5, <2>6 DEF QuietLoop, StaysQuiet
<1> QED
  BY <1>1, <1>2

\* So they lead nobody astray.
LEMMA QuietLoopOnward == ASSUME ReachInv, QuietLoop PROVE Onward'
<1> TypeOK
  BY DEF ReachInv, IInv
<1>1. \A d \in Cpus : pc'[d] = "back" => pc[d] = "back" /\ next'[d] = next[d]
  BY QuietLoopDoes DEF StaysQuiet
<1> QED
  BY <1>1, QuietLoopDoes, QuietOnward

\* Who leaves the blocked list, and who leaves a ready list.
LEMMA RereadyTakes ==
  ASSUME IInv, NEW c \in Cpus, RereadyOne(c)
  PROVE  \E t \in Threads : t = Head(blockedList[c]) /\ blocked[t] /\ linkCpu[t] = c
<1> DEFINE b == blockedList[c]
<1>1. b \in Seq(Threads) /\ b # <<>>
  BY DEF IInv, TypeOK, RereadyOne
<1>2. Head(b) \in Elems(b)
  BY <1>1 DEF Elems
<1>3. Elems(b) \subseteq {t \in Threads : blocked[t] /\ linkCpu[t] = c}
  BY DEF IInv, Lists, BlockedMatch
<1> HIDE DEF b
<1>4. Head(b) \in Threads /\ blocked[Head(b)] /\ linkCpu[Head(b)] = c
  BY <1>2, <1>3
<1> QED
  BY <1>4 DEF b

\* And it is the one DequeueReady picked.
LEMMA DequeueTakes ==
  ASSUME IInv, NEW c \in Cpus, DequeueReady(c)
  PROVE  \E t \in Threads : /\ t = next'[c] /\ queued[t] /\ linkCpu[t] = c
                            /\ queued' = [queued EXCEPT ![t] = FALSE]
                            /\ running' = [running EXCEPT ![t] = TRUE]
<1>1. PICK open \in {window[c], FALSE} :
            /\ queued' = [queued EXCEPT ![Picked(c, open)] = FALSE]
            /\ running' = [running EXCEPT ![Picked(c, open)] = TRUE]
            /\ next' = [next EXCEPT ![c] = Picked(c, open)]
  BY DEF DequeueReady
<1>2. open \in BOOLEAN /\ readySummary[c] # {}
  BY <1>1 DEF IInv, TypeOK, DequeueReady
<1>3. /\ Picked(c, open) \in Threads /\ queued[Picked(c, open)]
      /\ linkCpu[Picked(c, open)] = c
  BY <1>2, PickedIsReady
<1> QED
  BY <1>1, <1>3 DEF IInv, TypeOK

\* The dispatch loop where it links, takes or leaves a thread.
LEMMA DispatchOnward ==
  ASSUME ReachInv, NEW c \in Cpus, UNCHANGED workload, IInv',
         \/ RereadyOne(c) \/ DequeueReady(c) \/ MigrateHome(c) \/ ParkSuspended(c)
         \/ SwitchBack(c) \/ Reclaim(c)
  PROVE  Onward'
<1> TypeOK
  BY DEF ReachInv, IInv
<1>1. CASE RereadyOne(c)
  <2>1. PICK t \in Threads : t = Head(blockedList[c]) /\ blocked[t] /\ linkCpu[t] = c
    BY <1>1, RereadyTakes DEF ReachInv
  <2>2. /\ queued' = [queued EXCEPT ![t] = TRUE] /\ blocked' = [blocked EXCEPT ![t] = FALSE]
        /\ UNCHANGED <<suspended, running, hasRun, pc, next, stateTerminated, fiberAt, reclaimed,
                       suspendCount, callPc, callThread>>
        /\ pc[c] = "reready"
    BY <1>1, <2>1 DEF RereadyOne
  <2>3. ~suspended[t] /\ (fiberAt[t] = "none" => ~hasRun[t])
    BY <2>1 DEF ReachInv, IInv, Lists, OnOneList, Onward, OnItsWay
  <2>4. OnItsWay(t)'
    BY <2>2, <2>3 DEF OnItsWay, Reachable, TypeOK
  <2>5. \A d \in Cpus \ {c} : pc[d] = "back" => next[d] # t
    BY <2>1, Stander DEF ReachInv, Standing
  <2>6. \A x \in Threads \ {t} : StillLed(x)
    BY <2>2 DEF StillLed, TypeOK
  <2> QED
    BY <2>2, <2>4, <2>5, <2>6, LoopOnward
<1>2. CASE DequeueReady(c)
  <2>1. PICK t \in Threads : /\ t = next'[c] /\ queued[t] /\ linkCpu[t] = c
                             /\ queued' = [queued EXCEPT ![t] = FALSE]
                             /\ running' = [running EXCEPT ![t] = TRUE]
    BY <1>2, DequeueTakes DEF ReachInv
  <2>2. /\ UNCHANGED <<blocked, suspended, hasRun, stateTerminated, fiberAt, reclaimed,
                       suspendCount, callPc, callThread>>
        /\ pc' = [pc EXCEPT ![c] = "dequeued"]
        /\ \A d \in Cpus \ {c} : next'[d] = next[d]
    BY <1>2 DEF DequeueReady, TypeOK
  <2>3. ~suspended[t] /\ (fiberAt[t] = "none" => ~hasRun[t])
    BY <2>1 DEF ReachInv, IInv, Lists, OnOneList, Onward, OnItsWay
  <2>4. OnItsWay(t)'
    BY <2>1, <2>2, <2>3 DEF OnItsWay, Reachable, TypeOK
  <2>5. \A d \in Cpus \ {c} : pc[d] = "back" => next[d] # t
    BY <2>1, Stander DEF ReachInv, Standing
  <2>6. \A x \in Threads \ {t} : StillLed(x)
    BY <2>1, <2>2 DEF StillLed, TypeOK
  <2>7. \A d \in Cpus \ {c} : pc'[d] = pc[d]
    BY <2>2 DEF TypeOK
  <2>8. pc'[c] # "back"
    BY <2>2 DEF TypeOK
  <2> QED
    BY <2>2, <2>4, <2>5, <2>6, <2>7, <2>8, LoopOnward
<1>3. CASE MigrateHome(c) \/ ParkSuspended(c) \/ SwitchBack(c)
  <2>1. PICK t \in Threads : /\ t = next[c] /\ running[t] /\ fiberAt[t] # "none"
                             /\ \A d \in Cpus \ {c} : pc[d] \in Standing => next[d] # t
    <3>1. pc[c] \in Standing
      BY <1>3 DEF Standing, MigrateHome, ParkSuspended, SwitchBack
    <3> QED
      BY <3>1, Stander DEF ReachInv
  <2>2. /\ UNCHANGED <<blocked, hasRun, stateTerminated, fiberAt, reclaimed, suspendCount,
                       callPc, callThread>>
        /\ running' = [running EXCEPT ![t] = FALSE]
        /\ next' = [next EXCEPT ![c] = NoThread]
    BY <1>3, <2>1 DEF MigrateHome, ParkSuspended, SwitchBack
  <2>3. OnItsWay(t)' /\ \A x \in Threads \ {t} : StillLed(x)
    <3>1. CASE MigrateHome(c)
      <4>1. ~suspended[t]
        BY <2>1, <3>1, Stander DEF ReachInv, Standing, MigrateHome
      <4>2. queued' = [queued EXCEPT ![t] = TRUE] /\ UNCHANGED suspended
        BY <2>1, <3>1 DEF MigrateHome
      <4> QED
        BY <2>1, <2>2, <4>1, <4>2 DEF OnItsWay, Reachable, StillLed, TypeOK
    <3>2. CASE ParkSuspended(c)
      <4>1. suspendCount[t] > 0
        BY <2>1, <3>2 DEF ParkSuspended, StillHeld, HeldSuspended
      <4>2. suspended' = [suspended EXCEPT ![t] = TRUE] /\ UNCHANGED queued
        BY <2>1, <3>2 DEF ParkSuspended
      <4> QED
        BY <2>1, <2>2, <4>1, <4>2 DEF OnItsWay, Reachable, HeldForAReason, StillLed, TypeOK
    <3>3. CASE SwitchBack(c)
      <4>1. LeavesFor(t)
        BY <2>1, <3>3 DEF ReachInv, Onward, Leaves, SwitchBack
      <4>2. UNCHANGED <<queued, suspended>>
        BY <3>3 DEF SwitchBack
      <4>3. OnItsWay(t)
        BY DEF ReachInv, Onward
      <4>4. suspended[t] => HeldForAReason(t)'
        BY <2>2, <4>2, <4>3 DEF OnItsWay, HeldForAReason
      <4>5. Reachable(t)'
        BY <2>2, <4>1, <4>2 DEF LeavesFor, Reachable
      <4>6. OnItsWay(t)'
        BY <2>1, <2>2, <4>2, <4>4, <4>5 DEF OnItsWay
      <4> QED
        BY <2>2, <4>2, <4>6 DEF StillLed, TypeOK
    <3> QED
      BY <1>3, <3>1, <3>2, <3>3
  <2>4. pc'[c] # "back" /\ \A d \in Cpus \ {c} : pc'[d] = pc[d]
    <3>1. PICK there \in {"loop", "reclaim"} : pc' = [pc EXCEPT ![c] = there]
      BY <1>3 DEF MigrateHome, ParkSuspended, SwitchBack
    <3> QED
      BY <3>1 DEF TypeOK
  <2>5. \A d \in Cpus \ {c} : next'[d] = next[d] /\ (pc[d] = "back" => next[d] # t)
    BY <2>1, <2>2 DEF TypeOK, Standing
  <2> QED
    BY <2>2, <2>3, <2>4, <2>5, LoopOnward
<1>4. CASE Reclaim(c)
  <2>1. /\ UNCHANGED <<queued, blocked, suspended, running, hasRun, stateTerminated, fiberAt,
                       suspendCount, callPc, callThread, next>>
        /\ reclaimed' = [reclaimed EXCEPT ![exitedThread[c]] = TRUE]
        /\ pc' = [pc EXCEPT ![c] = "loop"]
    BY <1>4 DEF Reclaim
  <2>2. ASSUME NEW x \in Threads PROVE OnItsWay(x)'
    <3>1. StillLed(x) /\ StillCalled(x)
      BY <2>1 DEF StillLed, StillCalled, BringsBack, TypeOK
    <3> QED
      BY <3>1, StillOnItsWay DEF ReachInv, Onward
  <2> QED
    BY <2>1, <2>2 DEF ReachInv, Onward, Leaves, LeavesFor, TypeOK
<1> QED
  BY <1>1, <1>2, <1>3, <1>4

\* Nothing in the step is about thread x.
Untouched(x) ==
  /\ queued'[x] = queued[x] /\ blocked'[x] = blocked[x] /\ suspended'[x] = suspended[x]
  /\ running'[x] = running[x] /\ hasRun'[x] = hasRun[x]
  /\ terminatePending'[x] = terminatePending[x] /\ stateTerminated'[x] = stateTerminated[x]
  /\ suspendCount'[x] = suspendCount[x] /\ fiberAt'[x] = fiberAt[x]
  /\ reclaimed'[x] = reclaimed[x]

\* A fiber that made its final yield, having exited or crashed.
Over(t) == fiberAt[t] \in {"exit", "crashed"}

\* What a step of fiber t on dispatch thread c may do: only to itself and its own links, and
\* it yields back only once it is linked or has made its final yield.
FiberDoes(c, t) ==
  /\ UNCHANGED <<suspended, running, terminatePending, reclaimed, callPc, callThread, next>>
  /\ \A d \in Cpus \ {c} : /\ pc'[d] = pc[d]
                           /\ exitedThread'[d] \in {exitedThread[d], NoThread}
                           /\ exitedThread[d] # t => exitedThread'[d] = exitedThread[d]
  /\ \A x \in Threads \ {t} : Untouched(x)
  /\ fiberAt'[t] # "none" /\ (Over(t) /\ pc[c] # "guest" => fiberAt'[t] = fiberAt[t])
  /\ fiberAt'[t] = "exit" /\ fiberAt[t] # "exit" =>
       /\ pc'[c] = "back" /\ exitedThread'[c] = t
       /\ queued'[t] = queued[t] /\ blocked'[t] = blocked[t]
  /\ exitedThread'[c] # NoThread =>
       \/ exitedThread'[c] = exitedThread[c]
       \/ exitedThread'[c] = t /\ fiberAt'[t] = "exit" /\ pc'[c] = "back"
  /\ stateTerminated'[t] => stateTerminated[t] \/ Over(t)'
  /\ suspendCount'[t] = suspendCount[t] \/ "suspend" \in workload
  /\ pc'[c] # "reclaim" /\ (pc'[c] = "guest" => fiberAt'[t] = "live")
  /\ pc'[c] = "back" => LeavesFor(t)'

\* And so it does.
LEMMA FiberStepDoes ==
  ASSUME IInv, NEW c \in Cpus, NEW t \in Threads, t = next[c],
         SwitchTo(c) \/ EnterFiber(c) \/ FiberStep(c) \/ GuestStep(c)
  PROVE  pc[c] \in Standing \ {"back"} /\ FiberDoes(c, t)
<1> TypeOK
  BY DEF IInv
<1>1. pc[c] \in Standing \ {"back"}
  BY DEF SwitchTo, EnterFiber, FiberStep, GuestStep, ResumeAndExit, ResumeGuest, ResumeDead,
     EnqueueSelf, ParkBlocked, Safepoint, YieldVoluntary, SelfSuspend, FiberExit, Crash, Block,
     Standing
<1> SUFFICES FiberDoes(c, t)
  BY <1>1
<1>2. /\ running[t] /\ linkCpu[t] = c /\ ~queued[t] /\ ~blocked[t] /\ ~suspended[t]
      /\ fiberAt[t] # "none"
  BY <1>1, Stander
<1>3. ASSUME ExitFiber(c), pc[c] = "guest" \/ ~Over(t),
             \/ UNCHANGED suspendCount
             \/ \E n \in 0..MaxSuspend : /\ suspendCount' = [suspendCount EXCEPT ![t] = n]
                                         /\ "suspend" \in workload
      PROVE  FiberDoes(c, t)
  <2>1. /\ UNCHANGED <<queued, blocked, suspended, running, hasRun, terminatePending, reclaimed,
                       callPc, callThread, next>>
        /\ stateTerminated' = [stateTerminated EXCEPT ![t] = TRUE]
        /\ fiberAt' = [fiberAt EXCEPT ![t] = "exit"]
        /\ exitedThread' = [exitedThread EXCEPT ![c] = t]
        /\ pc' = [pc EXCEPT ![c] = "back"]
    BY <1>3 DEF ExitFiber
  <2>2. \A x \in Threads \ {t} : Untouched(x)
    BY <1>3, <2>1 DEF Untouched, TypeOK
  <2>3. suspendCount'[t] = suspendCount[t] \/ "suspend" \in workload
    BY <1>3
  <2>4. fiberAt'[t] = "exit" /\ pc'[c] = "back" /\ exitedThread'[c] = t
    BY <2>1 DEF TypeOK
  <2> QED
    BY <1>3, <2>1, <2>2, <2>3, <2>4 DEF FiberDoes, Over, LeavesFor, TypeOK
<1>4. ASSUME NEW quantumEnd \in BOOLEAN, NEW lower \in BOOLEAN, BeginYield(c, quantumEnd, lower),
             pc[c] = "guest",
             \/ UNCHANGED suspendCount
             \/ \E n \in 0..MaxSuspend : /\ suspendCount' = [suspendCount EXCEPT ![t] = n]
                                         /\ "suspend" \in workload
      PROVE  FiberDoes(c, t)
  <2>1. /\ UNCHANGED <<queued, blocked, suspended, running, hasRun, terminatePending, reclaimed,
                       callPc, callThread, next, stateTerminated, exitedThread>>
        /\ fiberAt' = [fiberAt EXCEPT ![t] = "yield"]
        /\ pc' = [pc EXCEPT ![c] = "enqueue"]
    BY <1>4 DEF BeginYield
  <2>2. \A x \in Threads \ {t} : Untouched(x)
    BY <1>4, <2>1 DEF Untouched, TypeOK
  <2>3. suspendCount'[t] = suspendCount[t] \/ "suspend" \in workload
    BY <1>4
  <2>4. fiberAt'[t] = "yield" /\ pc'[c] = "enqueue"
    BY <2>1 DEF TypeOK
  <2> QED
    BY <1>4, <2>1, <2>2, <2>3, <2>4 DEF FiberDoes, TypeOK
<1>5. ASSUME NEW at \in {"live", "wait", "hardWait", "crashed"}, NEW there \in CpuPc,
             UNCHANGED <<queued, blocked, suspended, running, hasRun, terminatePending, reclaimed,
                         callPc, callThread, next, suspendCount>>,
             fiberAt' = [fiberAt EXCEPT ![t] = at], pc' = [pc EXCEPT ![c] = there],
             pc[c] = "guest" \/ ~Over(t),
             \/ at # "crashed" /\ UNCHANGED <<stateTerminated, exitedThread>>
             \/ /\ at = "crashed" /\ stateTerminated' = [stateTerminated EXCEPT ![t] = TRUE]
                /\ \A d \in Cpus : /\ exitedThread'[d] \in {exitedThread[d], NoThread}
                                   /\ exitedThread[d] # t => exitedThread'[d] = exitedThread[d],
             there \notin {"reclaim", "guest"} \/ (there = "guest" /\ at = "live"),
             there = "back" => at = "crashed"
      PROVE  FiberDoes(c, t)
  <2>1. \A x \in Threads \ {t} : Untouched(x)
    BY <1>5 DEF Untouched, TypeOK
  <2>2. fiberAt'[t] = at /\ pc'[c] = there
    BY <1>5 DEF TypeOK
  <2> QED
    BY <1>5, <2>1, <2>2 DEF FiberDoes, Over, LeavesFor, TypeOK
<1>6. CASE ResumeAndExit(c) \/ FiberExit(c)
  BY <1>3, <1>6 DEF ResumeAndExit, FiberExit, ExitsOnResume, Over
<1>7. CASE YieldVoluntary(c)
  BY <1>3, <1>4, <1>7 DEF YieldVoluntary
<1>8. CASE Safepoint(c)
  BY <1>3, <1>4, <1>8 DEF Safepoint
<1>9. CASE SelfSuspend(c)
  <2>1. suspendCount[t] + 1 \in 0..MaxSuspend
    <3>1. suspendCount[t] \in 0..MaxSuspend /\ suspendCount[t] < MaxSuspend
      BY <1>9 DEF SelfSuspend, TypeOK
    <3> QED
      BY <3>1, SchedulerAssumption
  <2>2. suspendCount' = [suspendCount EXCEPT ![t] = suspendCount[t] + 1]
    BY <1>9 DEF SelfSuspend
  <2> QED
    BY <1>3, <1>4, <1>9, <2>1, <2>2 DEF SelfSuspend
<1>10. ASSUME NEW interruptible \in BOOLEAN, Block(c, interruptible) PROVE FiberDoes(c, t)
  <2>1. CASE ExitFiber(c)
    BY <1>3, <1>10, <2>1 DEF Block
  <2>2. CASE ~ExitFiber(c)
    <3> DEFINE at == IF interruptible THEN "wait" ELSE "hardWait"
    <3>1. /\ UNCHANGED <<queued, blocked, suspended, running, hasRun, terminatePending, reclaimed,
                         callPc, callThread, next, stateTerminated, exitedThread, suspendCount>>
          /\ fiberAt' = [fiberAt EXCEPT ![t] = at]
          /\ pc' = [pc EXCEPT ![c] = "park"] /\ pc[c] = "guest"
      BY <1>10, <2>2 DEF Block
    <3>2. at \in {"live", "wait", "hardWait", "crashed"} /\ at # "crashed" /\ "park" \in CpuPc
      BY DEF CpuPc
    <3> HIDE DEF at
    <3> QED
      BY <1>5, <3>1, <3>2
  <2> QED
    BY <2>1, <2>2
<1>11. CASE Crash(c)
  <2>1. /\ UNCHANGED <<queued, blocked, suspended, running, hasRun, terminatePending, reclaimed,
                       callPc, callThread, next, suspendCount>>
        /\ stateTerminated' = [stateTerminated EXCEPT ![t] = TRUE]
        /\ fiberAt' = [fiberAt EXCEPT ![t] = "crashed"]
        /\ exitedThread' = [x \in Cpus |-> IF exitedThread[x] = t THEN NoThread
                                                                 ELSE exitedThread[x]]
        /\ pc' = [pc EXCEPT ![c] = "back"] /\ pc[c] = "guest"
    BY <1>11 DEF Crash
  <2>2. \A d \in Cpus : /\ exitedThread'[d] \in {exitedThread[d], NoThread}
                        /\ exitedThread[d] # t => exitedThread'[d] = exitedThread[d]
    BY <2>1
  <2>3. "back" \in CpuPc
    BY DEF CpuPc
  <2> QED
    BY <1>5, <2>1, <2>2, <2>3
<1>12. CASE ResumeGuest(c)
  <2>1. /\ UNCHANGED <<queued, blocked, suspended, running, hasRun, terminatePending, reclaimed,
                       callPc, callThread, next, suspendCount, stateTerminated, exitedThread>>
        /\ fiberAt' = [fiberAt EXCEPT ![t] = "live"]
        /\ pc' = [pc EXCEPT ![c] = "guest"] /\ ~Over(t)
    BY <1>12 DEF ResumeGuest, Over
  <2>2. "guest" \in CpuPc
    BY DEF CpuPc
  <2> QED
    BY <1>5, <2>1, <2>2
<1>13. ASSUME UNCHANGED <<suspended, running, terminatePending, reclaimed, callPc, callThread,
                          next, suspendCount, fiberAt>>,
              \A d \in Cpus \ {c} : exitedThread'[d] = exitedThread[d],
              exitedThread'[c] \in {exitedThread[c], NoThread},
              \A x \in Threads \ {t} : /\ queued'[x] = queued[x] /\ blocked'[x] = blocked[x]
                                       /\ stateTerminated'[x] = stateTerminated[x]
                                       /\ hasRun'[x] = hasRun[x],
              stateTerminated'[t] => stateTerminated[t],
              NEW there \in CpuPc \ {"guest", "reclaim"}, pc' = [pc EXCEPT ![c] = there],
              there = "back" => LeavesFor(t)'
       PROVE  FiberDoes(c, t)
  <2>1. \A x \in Threads \ {t} : Untouched(x)
    BY <1>13 DEF Untouched
  <2>2. pc'[c] = there
    BY <1>13 DEF TypeOK
  <2> QED
    BY <1>2, <1>13, <2>1, <2>2 DEF FiberDoes, TypeOK
<1>14. CASE SwitchTo(c)
  <2>1. "switch" \in CpuPc \ {"guest", "reclaim"} /\ "switch" # "back"
    BY DEF CpuPc
  <2>2. /\ \A d \in Cpus \ {c} : exitedThread'[d] = exitedThread[d]
        /\ exitedThread'[c] = NoThread
        /\ \A x \in Threads \ {t} : hasRun'[x] = hasRun[x]
    BY <1>14 DEF SwitchTo, TypeOK
  <2> QED
    BY <1>13, <1>14, <2>1, <2>2 DEF SwitchTo
<1>15. CASE EnterFiber(c)
  <2>1. "resumed" \in CpuPc \ {"guest", "reclaim"} /\ "resumed" # "back"
    BY DEF CpuPc
  <2>2. ~stateTerminated'[t] /\ \A x \in Threads \ {t} : stateTerminated'[x] = stateTerminated[x]
    BY <1>15 DEF EnterFiber, TypeOK
  <2> QED
    BY <1>13, <1>15, <2>1, <2>2 DEF EnterFiber
<1>16. CASE ResumeDead(c)
  <2>1. PICK there \in {"killed", "back"} : pc' = [pc EXCEPT ![c] = there]
    BY <1>16 DEF ResumeDead
  <2>2. there \in CpuPc \ {"guest", "reclaim"}
    BY <2>1 DEF CpuPc
  <2>3. LeavesFor(t)'
    BY <1>16 DEF ResumeDead, LeavesFor
  <2> QED
    BY <1>13, <1>16, <2>1, <2>2, <2>3 DEF ResumeDead
<1>17. CASE EnqueueSelf(c)
  <2>1. Enqueueable(t, c)
    BY <1>2 DEF Enqueueable
  <2>2. queued' = [queued EXCEPT ![t] = TRUE]
    BY <1>17, <2>1 DEF EnqueueSelf, EnqueueReady
  <2>3. queued'[t] /\ \A x \in Threads \ {t} : queued'[x] = queued[x]
    BY <2>2 DEF TypeOK
  <2>4. LeavesFor(t)' /\ "back" \in CpuPc \ {"guest", "reclaim"}
    BY <2>3 DEF LeavesFor, CpuPc
  <2> QED
    BY <1>13, <1>17, <2>3, <2>4 DEF EnqueueSelf
<1>18. CASE ParkBlocked(c)
  <2>1. /\ blocked'[t] /\ ~stateTerminated'[t]
        /\ \A x \in Threads \ {t} : /\ blocked'[x] = blocked[x]
                                    /\ stateTerminated'[x] = stateTerminated[x]
    BY <1>18 DEF ParkBlocked, TypeOK
  <2>2. LeavesFor(t)' /\ "back" \in CpuPc \ {"guest", "reclaim"}
    BY <2>1 DEF LeavesFor, CpuPc
  <2> QED
    BY <1>13, <1>18, <2>1, <2>2 DEF ParkBlocked
<1> QED
  BY <1>6, <1>7, <1>8, <1>9, <1>10, <1>11, <1>12, <1>14, <1>15, <1>16, <1>17, <1>18
     DEF FiberStep, GuestStep

\* The dispatch thread goes on standing on the fiber, until that is linked or has made its
\* final yield.
LEMMA FiberStepsOnward ==
  ASSUME ReachInv, NEW c \in Cpus,
         SwitchTo(c) \/ EnterFiber(c) \/ FiberStep(c) \/ GuestStep(c)
  PROVE  Onward'
<1>1. next[c] \in Threads /\ running[next[c]]
  <2>1. pc[c] \in Standing \ {"back"}
    BY DEF SwitchTo, EnterFiber, FiberStep, GuestStep, ResumeAndExit, ResumeGuest, ResumeDead,
       EnqueueSelf, ParkBlocked, Safepoint, YieldVoluntary, SelfSuspend, FiberExit, Crash, Block,
       Standing
  <2> QED
    BY <2>1, Stander DEF ReachInv
<1>2. PICK t \in Threads : t = next[c] /\ running[t]
  BY <1>1
<1>3. pc[c] \in Standing \ {"back"} /\ FiberDoes(c, t)
  BY <1>2, FiberStepDoes DEF ReachInv
<1>4. \A x \in Threads \ {t} : StillLed(x)
  BY <1>3 DEF FiberDoes, Untouched, StillLed
<1>5. UNCHANGED <<suspended, running, callPc, callThread, next>> /\ fiberAt'[t] # "none"
  BY <1>3 DEF FiberDoes
<1>6. /\ \A d \in Cpus \ {c} : pc'[d] = pc[d]
      /\ pc'[c] = "back" => LeavesFor(t)'
  BY <1>3 DEF FiberDoes
<1> QED
  BY <1>2, <1>3, <1>4, <1>5, <1>6, FiberOnward

\* The parts of a call.  ResumeThread, MarkReady and EnqueueReady hand the thread on to each
\* other, and the last finds it owned already or makes it ready; the other calls leave it
\* where it is.
LEMMA CallStepsOnward ==
  ASSUME ReachInv, NEW k \in Callers, UNCHANGED workload, CallStep(k), ~Wake(k)
  PROVE  Onward'
<1> TypeOK
  BY DEF ReachInv, IInv
<1>1. PICK t \in Threads : t = callThread[k] /\ callPc[k] # "idle"
  BY CallsThread DEF ReachInv, CallStep, ResumeThread, MarkReady, EnqueueByCaller,
     MigrateForAffinity, RequeueForPriority, TerminateThread, ReclaimByCaller
<1>2. OnItsWay(t)
  BY DEF ReachInv, Onward
<1>3. /\ UNCHANGED <<pc, next, running, hasRun, stateTerminated, fiberAt, suspendCount>>
      /\ \A x \in Threads \ {t} : reclaimed'[x] = reclaimed[x]
      /\ reclaimed[t] => reclaimed'[t]
  BY <1>1 DEF TypeOK, CallStep, ResumeThread, MarkReady, EnqueueByCaller,
     MigrateForAffinity, RequeueForPriority, TerminateThread, ReclaimByCaller
<1>4. /\ \A j \in Callers \ {k} : callPc'[j] = callPc[j] /\ callThread'[j] = callThread[j]
      /\ callThread'[k] = t \/ callPc'[k] = "idle"
  <2>1. ASSUME Return(k) \/ \E step \in CallPc : Call(k, t, step)
        PROVE  /\ \A j \in Callers \ {k} : /\ callPc'[j] = callPc[j]
                                           /\ callThread'[j] = callThread[j]
               /\ callThread'[k] = t \/ callPc'[k] = "idle"
    BY <2>1 DEF TypeOK, Call, Return
  <2>2. CASE ResumeThread(k) \/ MarkReady(k) \/ TerminateThread(k)
    BY <1>1, <2>1, <2>2 DEF ResumeThread, MarkReady, TerminateThread, CallPc
  <2>3. CASE \/ EnqueueByCaller(k) \/ MigrateForAffinity(k) \/ RequeueForPriority(k)
             \/ ReclaimByCaller(k)
    BY <2>1, <2>3 DEF EnqueueByCaller, MigrateForAffinity, RequeueForPriority, ReclaimByCaller
  <2> QED
    BY <2>2, <2>3 DEF CallStep
<1>5. ASSUME /\ \A x \in Threads \ {t} : /\ queued'[x] = queued[x] /\ blocked'[x] = blocked[x]
                                         /\ suspended'[x] = suspended[x]
             /\ queued[t] \/ blocked[t] => queued'[t] \/ blocked'[t]
             /\ OnItsWay(t)'
      PROVE  Onward'
  <2>1. \A x \in Threads \ {t} : StillLed(x)
    BY <1>3, <1>5 DEF StillLed
  <2> QED
    BY <1>1, <1>3, <1>4, <1>5, <2>1, CallOnward
<1>6. CASE ResumeThread(k)
  <2>1. /\ UNCHANGED <<queued, blocked>> /\ ~suspended'[t]
        /\ \A x \in Threads \ {t} : suspended'[x] = suspended[x]
        /\ callPc'[k] = "markReady" /\ callThread'[k] = t
    BY <1>1, <1>6 DEF TypeOK, ResumeThread, Call
  <2>2. OnItsWay(t)'
    BY <1>2, <1>3, <2>1 DEF OnItsWay, Reachable, BringsBack
  <2> QED
    BY <1>5, <2>1, <2>2
<1>7. CASE MarkReady(k)
  <2>1. UNCHANGED <<queued, blocked, suspended>> /\ callPc[k] = "markReady"
    BY <1>7 DEF MarkReady
  <2>2. suspended[t] => HeldForAReason(t)'
    BY <1>2, <1>3, <1>4, <2>1 DEF OnItsWay, HeldForAReason
  <2>3. stateTerminated[t] \/ (callPc'[k] = "enqueue" /\ callThread'[k] = t)
    BY <1>1, <1>7 DEF TypeOK, MarkReady, Call
  <2>4. OnItsWay(t)'
    BY <1>2, <1>3, <2>1, <2>2, <2>3 DEF OnItsWay, Reachable, BringsBack
  <2> QED
    BY <1>5, <2>1, <2>4
<1>8. CASE EnqueueByCaller(k)
  <2>1. UNCHANGED <<blocked, suspended>> /\ callPc[k] = "enqueue"
    BY <1>8 DEF EnqueueByCaller
  <2>2. suspended[t] => HeldForAReason(t)'
    BY <1>2, <1>3, <1>4, <2>1 DEF OnItsWay, HeldForAReason
  <2>3. CASE Enqueueable(t, NoCpu)
    <3>1. queued' = [queued EXCEPT ![t] = TRUE]
      BY <1>1, <1>8, <2>3 DEF EnqueueByCaller, EnqueueReady
    <3>2. OnItsWay(t)'
      BY <1>2, <1>3, <2>1, <2>2, <3>1 DEF OnItsWay, Reachable, TypeOK
    <3> QED
      BY <1>5, <2>1, <3>1, <3>2 DEF TypeOK
  <2>4. CASE ~Enqueueable(t, NoCpu)
    <3>1. UNCHANGED queued /\ (queued[t] \/ blocked[t] \/ suspended[t] \/ running[t])
      BY <1>1, <1>8, <2>4 DEF EnqueueByCaller, Enqueueable
    <3>2. OnItsWay(t)'
      BY <1>2, <1>3, <2>1, <2>2, <3>1 DEF OnItsWay, Reachable
    <3> QED
      BY <1>5, <2>1, <3>1, <3>2
  <2> QED
    BY <2>3, <2>4
<1>9. ASSUME callPc[k] \in {"migrate", "requeue", "reclaim", "terminate"}
      PROVE  StillCalled(t)
  BY <1>4, <1>9 DEF StillCalled, BringsBack
<1>10. CASE MigrateForAffinity(k) \/ RequeueForPriority(k) \/ ReclaimByCaller(k)
  <2>1. /\ UNCHANGED <<queued, blocked, suspended>>
        /\ callPc[k] \in {"migrate", "requeue", "reclaim"}
    BY <1>10 DEF MigrateForAffinity, RequeueForPriority, ReclaimByCaller
  <2>2. OnItsWay(t)'
    BY <1>2, <1>3, <1>9, <2>1, StillOnItsWay DEF StillLed
  <2> QED
    BY <1>5, <2>1, <2>2
<1>11. CASE TerminateThread(k)
  <2>1. callPc[k] = "terminate"
    BY <1>11 DEF TerminateThread
  <2>2. CASE TerminateRunning(t) \/ TerminateUnparked(t)
    <3>1. UNCHANGED <<queued, blocked, suspended>>
      BY <2>2 DEF TerminateRunning, TerminateUnparked
    <3>2. OnItsWay(t)'
      BY <1>2, <1>3, <1>9, <2>1, <3>1, StillOnItsWay DEF StillLed
    <3> QED
      BY <1>5, <3>1, <3>2
  <2>3. CASE TerminateParked(t)
    <3>1. /\ queued' = [queued EXCEPT ![t] = TRUE] /\ blocked' = [blocked EXCEPT ![t] = FALSE]
          /\ suspended' = [suspended EXCEPT ![t] = FALSE]
      BY <2>3 DEF TerminateParked, Unpark
    <3>2. OnItsWay(t)'
      BY <1>2, <1>3, <3>1 DEF OnItsWay, Reachable, TypeOK
    <3> QED
      BY <1>5, <3>1, <3>2 DEF TypeOK
  <2> QED
    BY <1>1, <1>11, <2>2, <2>3 DEF TerminateThread
<1> QED
  BY <1>6, <1>7, <1>8, <1>10, <1>11 DEF CallStep

\* The beginning of a call.  Only Resume takes from what leads to a thread, and goes on to
\* bring it back.
LEMMA NewCallsOnward ==
  ASSUME ReachInv, NEW k \in Callers, NEW t \in Threads, UNCHANGED workload,
         \/ Suspend(k, t) \/ Resume(k, t) \/ Terminate(k, t)
         \/ \E c \in Cpus, p \in Prios : Create(k, t, c, p)
         \/ \E c \in Cpus : SetActiveCpu(k, t, c)
         \/ \E p \in Prios : PublishPriority(k, t, p)
  PROVE  Onward'
<1> TypeOK
  BY DEF ReachInv, IInv
<1>1. /\ callPc[k] = "idle" /\ fiberAt[t] \in {"none", fiberAt'[t]}
      /\ UNCHANGED <<pc, next, queued, blocked, suspended, running, hasRun, reclaimed>>
  BY DEF Suspend, Resume, Terminate, Create, SetActiveCpu, PublishPriority, Idle, Created
<1>2. \A j \in Callers \ {k} : callPc'[j] = callPc[j] /\ callThread'[j] = callThread[j]
  <2>1. \/ UNCHANGED <<callPc, callThread>> \/ \E step \in CallPc : Call(k, t, step)
    <3>1. CASE Suspend(k, t) \/ Resume(k, t) \/ Terminate(k, t)
      BY <3>1 DEF Suspend, Resume, Terminate, CallPc
    <3> QED
      BY <3>1 DEF Create, SetActiveCpu, PublishPriority, CallPc
  <2> QED
    BY <2>1 DEF TypeOK, Call
<1>3. \A x \in Threads \ {t} : /\ fiberAt'[x] = fiberAt[x] /\ suspendCount'[x] = suspendCount[x]
                               /\ stateTerminated'[x] = stateTerminated[x]
  <2>1. ASSUME Suspend(k, t) \/ Resume(k, t) \/ Terminate(k, t)
        PROVE  \A x \in Threads \ {t} : /\ fiberAt'[x] = fiberAt[x]
                                        /\ suspendCount'[x] = suspendCount[x]
                                        /\ stateTerminated'[x] = stateTerminated[x]
    BY <2>1 DEF TypeOK, Suspend, Resume, Terminate
  <2>2. ASSUME NEW c \in Cpus, NEW p \in Prios, Create(k, t, c, p)
        PROVE  /\ UNCHANGED stateTerminated
               /\ \A x \in Threads \ {t} : /\ fiberAt'[x] = fiberAt[x]
                                           /\ suspendCount'[x] = suspendCount[x]
    BY <2>2 DEF TypeOK, Create
  <2> QED
    BY <2>1, <2>2 DEF SetActiveCpu, PublishPriority
<1>4. \A x \in Threads \ {t} : StillLed(x)
  BY <1>1, <1>3 DEF StillLed
<1>5. StillCalled(t)
  BY <1>1, <1>2 DEF StillCalled, BringsBack
<1>6. OnItsWay(t)
  BY DEF ReachInv, Onward
<1> SUFFICES OnItsWay(t)'
  BY <1>1, <1>2, <1>4, CallOnward
<1>7. CASE \/ Suspend(k, t) \/ Terminate(k, t)
           \/ \E c \in Cpus : SetActiveCpu(k, t, c)
           \/ \E p \in Prios : PublishPriority(k, t, p)
  <2>1. /\ UNCHANGED fiberAt /\ (stateTerminated[t] => stateTerminated'[t])
        /\ suspendCount[t] > 0 => suspendCount'[t] > 0
    BY <1>7 DEF TypeOK, Suspend, Terminate, SetActiveCpu, PublishPriority
  <2> QED
    BY <1>1, <1>5, <1>6, <2>1, StillOnItsWay DEF StillLed
<1>8. CASE Resume(k, t)
  <2>1. UNCHANGED <<fiberAt, stateTerminated>> /\ fiberAt[t] # "none"
    BY <1>8 DEF Resume, Created
  <2>2. CASE suspendCount[t] = 1
    <3>1. callPc'[k] = "unpark" /\ callThread'[k] = t
      BY <1>8, <2>2 DEF TypeOK, Resume, Call
    <3> QED
      BY <2>1, <3>1 DEF OnItsWay, Reachable, HeldForAReason, BringsBack
  <2>3. CASE suspendCount[t] # 1
    <3>1. suspendCount'[t] > 0
      BY <1>8, <2>3, SchedulerAssumption DEF TypeOK, Resume, Resumable
    <3> QED
      BY <1>1, <1>5, <1>6, <2>1, <3>1, StillOnItsWay DEF StillLed
  <2> QED
    BY <2>2, <2>3
<1>9. ASSUME NEW c \in Cpus, NEW p \in Prios, Create(k, t, c, p) PROVE OnItsWay(t)'
  <2>1. fiberAt[t] = "none" /\ fiberAt'[t] = "fresh"
    BY <1>9 DEF TypeOK, Create, Created
  <2>2. ~suspended[t] /\ ~hasRun[t]
    BY <1>6, <2>1 DEF ReachInv, IInv, Control, Fresh, OnItsWay
  <2>3. (callPc'[k] = "markReady" /\ callThread'[k] = t) \/ suspendCount'[t] = 1
    BY <1>9 DEF TypeOK, Create, Call
  <2> QED
    BY <1>1, <2>1, <2>2, <2>3 DEF OnItsWay, Reachable, BringsBack
<1> QED
  BY <1>7, <1>8, <1>9

\* So every thread stays on its way.
LEMMA InitOnward == Init => ReachInv
<1>1. Init => Onward
  BY DEF Init, Onward, OnItsWay, Reachable, Leaves
<1> QED
  BY <1>1, InitHolds DEF ReachInv

\* Step by step.
LEMMA StepsOnward == ReachInv /\ [Next]_vars => ReachInv'
<1> SUFFICES ASSUME ReachInv, [Next]_vars PROVE Onward'
  BY StepKeeps DEF ReachInv
<1>0. IInv'
  BY StepKeeps DEF ReachInv
<1>1. CASE UNCHANGED vars
  BY <1>1, QuietOnward DEF vars, steps
<1>2. ASSUME NEW c \in Cpus, UNCHANGED workload,
             LoopStep(c) \/ FiberStep(c) \/ GuestStep(c) \/ Watchdog(c)
      PROVE  Onward'
  <2> c \in Actors
    BY DEF Actors
  <2> QED
    BY <1>0, <1>2, QuietLoopOnward, DispatchOnward, FiberStepsOnward DEF LoopStep, QuietLoop
<1>3. ASSUME NEW k \in Callers, UNCHANGED workload, CallStep(k) \/ NewCall(k)
      PROVE  Onward'
  <2> k \in Actors
    BY DEF Actors
  <2>1. CASE CallStep(k)
    BY <1>3, <2>1, CallStepsOnward, QuietLoopOnward DEF QuietLoop
  <2>2. CASE NewCall(k)
    BY <1>3, <2>2, NewCallsOnward, QuietLoopOnward DEF NewCall, QuietLoop
  <2> QED
    BY <1>3, <2>1, <2>2
<1> QED
  BY <1>1, <1>2, <1>3 DEF Next, Step

\* For as long as the scheduler runs.
LEMMA ReachInvHolds == Spec => []ReachInv
  BY InitOnward, StepsOnward, PTL DEF Spec

\* No thread is lost, however many threads call into the scheduler: what is not terminated
\* is ready, waits, runs, is held by a suspension that is still on, or is being brought back
\* (guest_scheduler.cc, ParkSuspended, ResumeThread, MarkReady, EnqueueReady,
\* RereadyBlocked, MigrateForAffinity, TerminateThread).
THEOREM NobodyIsLost == Spec => []NoStrandedThread
<1>1. ReachInv => NoStrandedThread
  BY DEF ReachInv, Onward, OnItsWay, NoStrandedThread
<1> QED
  BY <1>1, ReachInvHolds, PTL

-----------------------------------------------------------------------------
(* What is terminated exits, and what is reclaimed is gone. *)

OneCaller == \A j, k \in Callers : j = k

\* The part of a call on thread x that caller k is in.
CallOn(k, x) == IF callThread[k] = x THEN callPc[k] ELSE "idle"

\* A terminated thread that has not made its final yield is on its way there, or in the
\* hands of the call that terminates it; its dispatcher is told, or about to be.
EndedBy(t) == \E k \in Callers : CallOn(k, t) \in {"terminate", "reclaim"}
ComesToAnEnd(t) ==
  /\ stateTerminated[t] =>
       \/ Over(t) \/ reclaimed[t] \/ queued[t] \/ blocked[t] \/ running[t]
       \/ EndedBy(t) /\ (suspended[t] \/ (~hasRun[t] /\ suspendCount[t] > 0))
  /\ stateTerminated[t] =>
       Over(t) \/ terminatePending[t] \/ \E k \in Callers : CallOn(k, t) = "terminate"
  /\ fiberAt[t] = "none" => ~stateTerminated[t]

\* Without suspensions a thread is brought back only once, when it is created.  One that
\* exited is on no list, and the dispatch thread it exited on alone reclaims it.
Alone(t) == ~queued[t] /\ ~blocked[t] /\ ~running[t]
Arriving(t) == \E k \in Callers : CallOn(k, t) \in {"markReady", "enqueue"}
Gone(t) ==
  /\ suspendCount[t] = 0 /\ ~suspended[t] /\ \A k \in Callers : CallOn(k, t) # "unpark"
  /\ fiberAt[t] = "exit" => ~queued[t] /\ ~blocked[t]
  /\ reclaimed[t] \/ (\E k \in Callers : CallOn(k, t) = "reclaim") =>
       Alone(t) /\ fiberAt[t] # "none" /\ ~Arriving(t)
  /\ Arriving(t) => Alone(t) /\ fiberAt[t] = "fresh"
Reclaims(c) ==
  /\ pc[c] \in Standing \ {"back"} => fiberAt[next[c]] # "exit"
  /\ exitedThread[c] # NoThread =>
       /\ exitedThread[c] \in Threads /\ fiberAt[exitedThread[c]] = "exit"
       /\ \/ pc[c] = "back" /\ exitedThread[c] = next[c]
          \/ pc[c] = "reclaim" /\ ~running[exitedThread[c]]
  /\ pc[c] = "reclaim" => exitedThread[c] # NoThread

EndsWell(t) == ComesToAnEnd(t) /\ ("suspend" \in workload \/ Gone(t))
Tended(c) ==
  /\ pc[c] = "guest" => fiberAt[next[c]] = "live"
  /\ "suspend" \in workload \/ Reclaims(c)

Freed == (\A t \in Threads : EndsWell(t)) /\ \A c \in Cpus : Tended(c)
FreedInv == ReachInv /\ (OneCaller => Freed)

SameCalls(x) == \A k \in Callers : CallOn(k, x)' = CallOn(k, x)

\* What the step is not about stays well.
LEMMA UntouchedEnds ==
  ASSUME NEW x \in Threads, UNCHANGED workload, EndsWell(x), Untouched(x), SameCalls(x)
  PROVE  EndsWell(x)'
<1>1. EndedBy(x)' = EndedBy(x) /\ Arriving(x)' = Arriving(x)
  BY DEF EndedBy, Arriving, SameCalls
<1>2. /\ (\E k \in Callers : CallOn(k, x) = "terminate")
           => (\E k \in Callers : CallOn(k, x)' = "terminate")
      /\ (\E k \in Callers : CallOn(k, x)' = "reclaim")
           => (\E k \in Callers : CallOn(k, x) = "reclaim")
      /\ (\A k \in Callers : CallOn(k, x) # "unpark")
           => (\A k \in Callers : CallOn(k, x)' # "unpark")
  BY DEF SameCalls
<1>3. ComesToAnEnd(x)'
  BY <1>1, <1>2 DEF EndsWell, ComesToAnEnd, Over, Untouched
<1>4. Gone(x) => Gone(x)'
  BY <1>1, <1>2 DEF Gone, Alone, Untouched
<1> QED
  BY <1>3, <1>4 DEF EndsWell

\* A dispatch thread whose own thread, and the one it has to reclaim, stay as they are.
LEMMA OtherTended ==
  ASSUME IInv, NEW d \in Cpus, UNCHANGED workload, Tended(d),
         next'[d] = next[d], StaysQuiet(d),
         pc[d] \in Standing => fiberAt'[next[d]] = fiberAt[next[d]],
         "suspend" \notin workload =>
           /\ exitedThread'[d] = exitedThread[d]
           /\ exitedThread[d] # NoThread =>
                /\ fiberAt'[exitedThread[d]] = fiberAt[exitedThread[d]]
                /\ running'[exitedThread[d]] => running[exitedThread[d]]
  PROVE  Tended(d)'
<1>1. pc'[d] = "guest" => fiberAt'[next'[d]] = "live"
  BY DEF Tended, StaysQuiet, Standing
<1>2. ASSUME "suspend" \notin workload PROVE Reclaims(d)'
  <2>1. pc'[d] \in Standing \ {"back"} => fiberAt'[next'[d]] # "exit"
    <3>1. pc'[d] \in Standing \ {"back"} => pc[d] \in Standing \ {"back"}
      BY DEF StaysQuiet
    <3> QED
      BY <1>2, <3>1 DEF Tended, Reclaims
  <2>2. pc[d] \in {"back", "reclaim"} \/ pc'[d] \in {"back", "reclaim"} => pc'[d] = pc[d]
    BY DEF StaysQuiet
  <2> QED
    BY <1>2, <2>1, <2>2 DEF Tended, Reclaims
<1> QED
  BY <1>1, <1>2 DEF Tended

\* A step of dispatch thread c that is about thread t.
LEMMA LoopEnds ==
  ASSUME FreedInv, Freed, NEW c \in Cpus, NEW t \in Threads, UNCHANGED workload,
         UNCHANGED <<callPc, callThread>>,
         \A d \in Cpus \ {c} : pc'[d] = pc[d] /\ next'[d] = next[d]
                               /\ (pc[d] \in Standing => next[d] # t),
         \A x \in Threads \ {t} : Untouched(x),
         "suspend" \notin workload => \A d \in Cpus \ {c} :
            /\ exitedThread'[d] = exitedThread[d]
            /\ exitedThread[d] = t => fiberAt'[t] = fiberAt[t] /\ (running'[t] => running[t]),
         EndsWell(t)', Tended(c)'
  PROVE  Freed'
<1>1. ASSUME NEW x \in Threads \ {t} PROVE EndsWell(x)'
  <2>1. SameCalls(x)
    BY DEF SameCalls, CallOn
  <2> QED
    BY <2>1, UntouchedEnds DEF Freed
<1>2. ASSUME NEW d \in Cpus \ {c} PROVE Tended(d)'
  <2>1. pc[d] \in Standing => fiberAt'[next[d]] = fiberAt[next[d]]
    BY Stander DEF FreedInv, ReachInv, Untouched
  <2>2. ASSUME "suspend" \notin workload
        PROVE  /\ exitedThread'[d] = exitedThread[d]
               /\ exitedThread[d] # NoThread =>
                    /\ fiberAt'[exitedThread[d]] = fiberAt[exitedThread[d]]
                    /\ running'[exitedThread[d]] => running[exitedThread[d]]
    <3>1. exitedThread[d] # NoThread => exitedThread[d] \in Threads
      BY <2>2 DEF Freed, Tended, Reclaims
    <3> QED
      BY <2>2, <3>1 DEF Untouched
  <2>3. StaysQuiet(d) /\ Tended(d)
    BY DEF StaysQuiet, Freed
  <2> QED
    BY <2>1, <2>2, <2>3, OtherTended DEF FreedInv, ReachInv
<1> QED
  BY <1>1, <1>2 DEF Freed

\* A step of the one caller about thread t.
LEMMA CallEnds ==
  ASSUME FreedInv, Freed, OneCaller, NEW k \in Callers, NEW t \in Threads, UNCHANGED workload,
         UNCHANGED <<pc, next, exitedThread>>,
         callPc[k] # "idle" => callThread[k] = t, callThread'[k] = t \/ callPc'[k] = "idle",
         \A x \in Threads \ {t} : Untouched(x),
         fiberAt[t] \in {"none", fiberAt'[t]}, running'[t] => running[t],
         EndsWell(t)'
  PROVE  Freed'
<1>1. ASSUME NEW x \in Threads \ {t} PROVE EndsWell(x)'
  <2>1. SameCalls(x)
    BY DEF SameCalls, CallOn, OneCaller
  <2> QED
    BY <2>1, UntouchedEnds DEF Freed
<1>2. ASSUME NEW d \in Cpus PROVE Tended(d)'
  <2>1. pc[d] \in Standing => fiberAt'[next[d]] = fiberAt[next[d]]
    BY Stander DEF FreedInv, ReachInv, Untouched
  <2>2. ASSUME "suspend" \notin workload, exitedThread[d] # NoThread
        PROVE  /\ fiberAt'[exitedThread[d]] = fiberAt[exitedThread[d]]
               /\ running'[exitedThread[d]] => running[exitedThread[d]]
    <3>1. exitedThread[d] \in Threads /\ fiberAt[exitedThread[d]] = "exit"
      BY <2>2 DEF Freed, Tended, Reclaims
    <3> QED
      BY <2>2, <3>1 DEF Untouched
  <2>3. StaysQuiet(d) /\ Tended(d)
    BY DEF StaysQuiet, Freed
  <2> QED
    BY <2>1, <2>2, <2>3, OtherTended DEF FreedInv, ReachInv
<1> QED
  BY <1>1, <1>2 DEF Freed

\* The dispatch loop where it changes no thread, the watchdog and the wakes; a step of
\* nobody.
LEMMA QuietEnds ==
  ASSUME FreedInv, Freed, UNCHANGED workload,
         UNCHANGED <<queued, blocked, suspended, running, hasRun, terminatePending,
                     stateTerminated, fiberAt, reclaimed, suspendCount, callPc, callThread,
                     next, exitedThread>>,
         \A d \in Cpus : StaysQuiet(d)
  PROVE  Freed'
<1>1. ASSUME NEW x \in Threads PROVE EndsWell(x)'
  <2>1. SameCalls(x) /\ Untouched(x)
    BY DEF SameCalls, CallOn, Untouched
  <2> QED
    BY <2>1, UntouchedEnds DEF Freed
<1>2. ASSUME NEW d \in Cpus PROVE Tended(d)'
  <2>1. Tended(d)
    BY DEF Freed
  <2> QED
    BY <2>1, OtherTended DEF FreedInv, ReachInv
<1> QED
  BY <1>1, <1>2 DEF Freed

\* A fiber's own step.
LEMMA FiberStepsEnd ==
  ASSUME FreedInv, Freed, NEW c \in Cpus, UNCHANGED workload,
         SwitchTo(c) \/ EnterFiber(c) \/ FiberStep(c) \/ GuestStep(c)
  PROVE  Freed'
<1>1. pc[c] \in Standing \ {"back"}
  BY DEF SwitchTo, EnterFiber, FiberStep, GuestStep, ResumeAndExit, ResumeGuest, ResumeDead,
     EnqueueSelf, ParkBlocked, Safepoint, YieldVoluntary, SelfSuspend, FiberExit, Crash, Block,
     Standing
<1>2. PICK t \in Threads : /\ t = next[c] /\ running[t] /\ ~queued[t] /\ ~blocked[t]
                           /\ \A d \in Cpus \ {c} : pc[d] \in Standing => next[d] # t
  BY <1>1, Stander DEF FreedInv, ReachInv
<1>3. FiberDoes(c, t)
  BY <1>2, FiberStepDoes DEF FreedInv, ReachInv
<1>4. EndsWell(t) /\ Tended(c)
  BY DEF Freed
<1>5. Over(t) => fiberAt'[t] = fiberAt[t]
  BY <1>2, <1>3, <1>4 DEF FiberDoes, Tended, Over
<1>6. SameCalls(t) /\ EndedBy(t)' = EndedBy(t) /\ Arriving(t)' = Arriving(t)
  BY <1>3 DEF FiberDoes, SameCalls, CallOn, EndedBy, Arriving
<1>7. ComesToAnEnd(t)'
  <2>1. /\ running'[t] /\ terminatePending'[t] = terminatePending[t] /\ fiberAt'[t] # "none"
        /\ stateTerminated'[t] => stateTerminated[t] \/ Over(t)'
    BY <1>2, <1>3 DEF FiberDoes
  <2>2. (\E k \in Callers : CallOn(k, t) = "terminate")
          => (\E k \in Callers : CallOn(k, t)' = "terminate")
    BY <1>6 DEF SameCalls
  <2> QED
    BY <1>4, <1>5, <2>1, <2>2 DEF EndsWell, ComesToAnEnd, Over
<1>8. ASSUME "suspend" \notin workload PROVE Gone(t)' /\ Reclaims(c)'
  <2>1. Gone(t) /\ Reclaims(c)
    BY <1>4, <1>8 DEF EndsWell, Tended
  <2>2. fiberAt[t] # "exit" /\ exitedThread[c] = NoThread
    BY <1>1, <1>2, <2>1 DEF Reclaims, Standing
  <2>3. ~reclaimed[t] /\ ~Arriving(t) /\ \A k \in Callers : CallOn(k, t) # "reclaim"
    BY <1>2, <2>1 DEF Gone, Alone
  <2>4. ~reclaimed'[t] /\ ~suspended'[t] /\ suspendCount'[t] = 0
    BY <1>3, <1>8, <2>1, <2>3 DEF FiberDoes, Gone
  <2>5. fiberAt'[t] = "exit" => ~queued'[t] /\ ~blocked'[t]
    BY <1>2, <1>3, <2>2 DEF FiberDoes
  <2>6. Gone(t)'
    BY <1>6, <2>1, <2>3, <2>4, <2>5 DEF Gone, SameCalls
  <2>7. pc'[c] \in Standing \ {"back"} => fiberAt'[next'[c]] # "exit"
    BY <1>2, <1>3, <2>2 DEF FiberDoes
  <2>8. exitedThread'[c] # NoThread => /\ exitedThread'[c] = t /\ fiberAt'[t] = "exit"
                                       /\ pc'[c] = "back" /\ next'[c] = t
    BY <1>2, <1>3, <2>2 DEF FiberDoes
  <2> QED
    BY <1>3, <2>6, <2>7, <2>8 DEF FiberDoes, Reclaims
<1>9. EndsWell(t)'
  BY <1>7, <1>8 DEF EndsWell
<1>10. Tended(c)'
  <2>1. pc'[c] = "guest" => fiberAt'[next'[c]] = "live"
    BY <1>2, <1>3 DEF FiberDoes
  <2> QED
    BY <1>8, <2>1 DEF Tended
<1>11. ASSUME "suspend" \notin workload, NEW d \in Cpus \ {c}
       PROVE  exitedThread'[d] = exitedThread[d] /\ exitedThread[d] # t
  <2>1. exitedThread[d] # t
    <3>1. CASE exitedThread[d] = t
      <4>1. t # NoThread
        BY SchedulerAssumption
      <4>2. Reclaims(d)
        BY <1>11 DEF Freed, Tended
      <4> QED
        BY <1>2, <3>1, <4>1, <4>2 DEF Reclaims, Standing
    <3> QED
      BY <3>1
  <2> QED
    BY <1>3, <2>1 DEF FiberDoes
<1>12. \A d \in Cpus \ {c} : /\ pc'[d] = pc[d] /\ next'[d] = next[d]
                             /\ pc[d] \in Standing => next[d] # t
  BY <1>2, <1>3 DEF FiberDoes
<1>13. UNCHANGED <<callPc, callThread>> /\ \A x \in Threads \ {t} : Untouched(x)
  BY <1>3 DEF FiberDoes
<1> QED
  BY <1>9, <1>10, <1>11, <1>12, <1>13, LoopEnds

\* The dispatch loop where it links, takes or leaves a thread, or reclaims one.
LEMMA DispatchEnds ==
  ASSUME FreedInv, Freed, NEW c \in Cpus, UNCHANGED workload,
         \/ RereadyOne(c) \/ DequeueReady(c) \/ MigrateHome(c) \/ ParkSuspended(c)
         \/ SwitchBack(c) \/ Reclaim(c)
  PROVE  Freed'
<1> TypeOK /\ IInv
  BY DEF FreedInv, ReachInv, IInv
<1>0. Tended(c) /\ \A x \in Threads : EndsWell(x)
  BY DEF Freed
<1>1. ASSUME NEW t \in Threads, SameCalls(t),
             queued'[t] \/ blocked'[t] \/ running'[t] \/ Over(t) \/ reclaimed'[t],
             reclaimed[t] => reclaimed'[t],
             /\ terminatePending'[t] = terminatePending[t] /\ fiberAt'[t] = fiberAt[t]
             /\ stateTerminated'[t] = stateTerminated[t]
      PROVE  ComesToAnEnd(t)'
  <2>1. (\E k \in Callers : CallOn(k, t) = "terminate")
          => (\E k \in Callers : CallOn(k, t)' = "terminate")
    BY <1>1 DEF SameCalls
  <2> QED
    BY <1>0, <1>1, <2>1 DEF EndsWell, ComesToAnEnd, Over
<1>2. ASSUME NEW t \in Threads, Gone(t), ~Alone(t), SameCalls(t), reclaimed'[t] = reclaimed[t],
             suspendCount'[t] = suspendCount[t], suspended'[t] = suspended[t],
             fiberAt'[t] = fiberAt[t], fiberAt[t] = "exit" => ~queued'[t] /\ ~blocked'[t]
      PROVE  Gone(t)'
  <2>1. ~reclaimed[t] /\ ~Arriving(t) /\ \A k \in Callers : CallOn(k, t) # "reclaim"
    BY <1>2 DEF Gone
  <2> QED
    BY <1>2, <2>1 DEF Gone, SameCalls, Arriving
<1>3. CASE RereadyOne(c)
  <2>1. PICK t \in Threads : t = Head(blockedList[c]) /\ blocked[t] /\ linkCpu[t] = c
    BY <1>3, RereadyTakes
  <2>2. /\ queued' = [queued EXCEPT ![t] = TRUE] /\ blocked' = [blocked EXCEPT ![t] = FALSE]
        /\ UNCHANGED <<suspended, running, hasRun, pc, next, terminatePending, stateTerminated,
                       fiberAt, reclaimed, suspendCount, callPc, callThread, exitedThread>>
        /\ pc[c] = "reready"
    BY <1>3, <2>1 DEF RereadyOne
  <2>3. SameCalls(t) /\ queued'[t] /\ \A x \in Threads \ {t} : Untouched(x)
    BY <2>2 DEF SameCalls, CallOn, Untouched, TypeOK
  <2>4. EndsWell(t)'
    <3>1. Gone(t) => Gone(t)'
      <4>1. Gone(t) => fiberAt[t] # "exit"
        BY <2>1 DEF Gone
      <4> QED
        BY <1>2, <2>1, <2>2, <2>3, <4>1 DEF Alone
    <3> QED
      BY <1>0, <1>1, <2>2, <2>3, <3>1 DEF EndsWell
  <2>5. \A d \in Cpus : pc[d] \in Standing => next[d] # t
    BY <2>1, <2>2, Stander DEF Standing
  <2>6. Tended(c)'
    <3>1. StaysQuiet(c)
      BY <2>2 DEF StaysQuiet
    <3> QED
      BY <1>0, <2>2, <3>1, OtherTended
  <2> QED
    BY <2>2, <2>3, <2>4, <2>5, <2>6, LoopEnds
<1>4. CASE DequeueReady(c)
  <2>1. PICK t \in Threads : /\ t = next'[c] /\ queued[t] /\ linkCpu[t] = c
                             /\ queued' = [queued EXCEPT ![t] = FALSE]
                             /\ running' = [running EXCEPT ![t] = TRUE]
    BY <1>4, DequeueTakes
  <2>2. /\ UNCHANGED <<blocked, suspended, hasRun, terminatePending, stateTerminated, fiberAt,
                       reclaimed, suspendCount, callPc, callThread, exitedThread>>
        /\ pc' = [pc EXCEPT ![c] = "dequeued"] /\ pc[c] = "dequeue"
        /\ \A d \in Cpus \ {c} : next'[d] = next[d]
    BY <1>4 DEF DequeueReady, TypeOK
  <2>3. SameCalls(t) /\ running'[t] /\ \A x \in Threads \ {t} : Untouched(x)
    BY <2>1, <2>2 DEF SameCalls, CallOn, Untouched, TypeOK
  <2>4. Gone(t) => fiberAt[t] # "exit"
    BY <2>1 DEF Gone
  <2>5. EndsWell(t)'
    <3>1. Gone(t) => Gone(t)'
      BY <1>2, <2>1, <2>2, <2>3, <2>4 DEF Alone
    <3> QED
      BY <1>0, <1>1, <2>2, <2>3, <3>1 DEF EndsWell
  <2>6. \A d \in Cpus \ {c} : pc'[d] = pc[d] /\ (pc[d] \in Standing => next[d] # t)
    <3>1. \A d \in Cpus \ {c} : pc[d] \in Standing => next[d] # t
      BY <2>1, Stander
    <3>2. \A d \in Cpus \ {c} : pc'[d] = pc[d]
      BY <2>2 DEF TypeOK
    <3> QED
      BY <3>1, <3>2
  <2>7. Tended(c)'
    <3>1. pc'[c] = "dequeued"
      BY <2>2 DEF TypeOK
    <3>2. ASSUME "suspend" \notin workload PROVE Reclaims(c)'
      <4>1. Gone(t) /\ Reclaims(c)
        BY <1>0, <3>2 DEF EndsWell, Tended
      <4> QED
        BY <2>1, <2>2, <2>4, <3>1, <4>1 DEF Reclaims
    <3> QED
      BY <3>1, <3>2 DEF Tended
  <2>8. ASSUME "suspend" \notin workload, NEW d \in Cpus PROVE exitedThread[d] # t
    <3>1. Gone(t) /\ Reclaims(d) /\ t # NoThread
      BY <1>0, <2>8, SchedulerAssumption DEF EndsWell, Tended, Freed
    <3> QED
      BY <2>4, <3>1 DEF Reclaims
  <2> QED
    BY <2>2, <2>3, <2>5, <2>6, <2>7, <2>8, LoopEnds
<1>5. CASE MigrateHome(c) \/ ParkSuspended(c) \/ SwitchBack(c)
  <2>1. PICK t \in Threads : /\ t = next[c] /\ running[t] /\ fiberAt[t] # "none"
                             /\ \A d \in Cpus \ {c} : pc[d] \in Standing => next[d] # t
    <3>1. pc[c] \in Standing
      BY <1>5 DEF Standing, MigrateHome, ParkSuspended, SwitchBack
    <3> QED
      BY <3>1, Stander
  <2>2. /\ UNCHANGED <<blocked, hasRun, terminatePending, stateTerminated, fiberAt, reclaimed,
                       suspendCount, callPc, callThread, exitedThread>>
        /\ running' = [running EXCEPT ![t] = FALSE]
        /\ next' = [next EXCEPT ![c] = NoThread]
    BY <1>5, <2>1 DEF MigrateHome, ParkSuspended, SwitchBack
  <2>3. /\ SameCalls(t) /\ ~running'[t] /\ next'[c] = NoThread
        /\ \A d \in Cpus \ {c} : next'[d] = next[d]
    BY <2>2 DEF SameCalls, CallOn, TypeOK
  <2>4. ASSUME \A x \in Threads \ {t} : queued'[x] = queued[x] /\ suspended'[x] = suspended[x],
               EndsWell(t)', Tended(c)', \A d \in Cpus \ {c} : pc'[d] = pc[d]
        PROVE  Freed'
    <3>1. \A x \in Threads \ {t} : Untouched(x)
      BY <2>2, <2>4 DEF Untouched, TypeOK
    <3> QED
      BY <2>1, <2>2, <2>3, <2>4, <3>1, LoopEnds
  <2>5. CASE MigrateHome(c)
    <3>1. /\ queued' = [queued EXCEPT ![t] = TRUE] /\ UNCHANGED suspended
          /\ pc' = [pc EXCEPT ![c] = "loop"] /\ pc[c] = "migrate"
      BY <2>1, <2>5 DEF MigrateHome
    <3>2. ASSUME "suspend" \notin workload PROVE Gone(t)' /\ Reclaims(c)'
      <4>1. Gone(t) /\ Reclaims(c)
        BY <1>0, <3>2 DEF EndsWell, Tended
      <4>2. fiberAt[t] # "exit" /\ exitedThread[c] = NoThread
        BY <2>1, <3>1, <4>1 DEF Reclaims, Standing
      <4>3. Gone(t)'
        BY <1>2, <2>1, <2>2, <2>3, <3>1, <4>1, <4>2 DEF Alone
      <4>4. pc'[c] = "loop"
        BY <3>1 DEF TypeOK
      <4> QED
        BY <2>2, <4>2, <4>3, <4>4 DEF Reclaims, Standing
    <3>3. EndsWell(t)'
      <4>1. queued'[t]
        BY <3>1 DEF TypeOK
      <4> QED
        BY <1>1, <2>2, <2>3, <3>2, <4>1 DEF EndsWell
    <3>4. Tended(c)'
      BY <3>1, <3>2 DEF Tended, TypeOK
    <3> QED
      BY <2>4, <3>1, <3>3, <3>4 DEF TypeOK
  <2>6. CASE ParkSuspended(c)
    <3>1. /\ suspended' = [suspended EXCEPT ![t] = TRUE] /\ UNCHANGED queued
          /\ pc' = [pc EXCEPT ![c] = "loop"] /\ pc[c] = "hold"
      BY <2>1, <2>6 DEF ParkSuspended
    <3>2. suspendCount[t] > 0 /\ ~terminatePending[t]
      BY <2>1, <2>6 DEF ParkSuspended, StillHeld, HeldSuspended
    <3>3. "suspend" \in workload
      BY <1>0, <3>2 DEF EndsWell, Gone
    <3>4. ComesToAnEnd(t)'
      <4>1. ASSUME stateTerminated[t], ~Over(t)
            PROVE  \E k \in Callers : CallOn(k, t) = "terminate"
        BY <1>0, <3>2, <4>1 DEF EndsWell, ComesToAnEnd
      <4>2. ASSUME stateTerminated[t], ~Over(t)
            PROVE  EndedBy(t)' /\ \E k \in Callers : CallOn(k, t)' = "terminate"
        BY <2>3, <4>1, <4>2 DEF EndedBy, SameCalls
      <4>3. suspended'[t] /\ fiberAt'[t] = fiberAt[t] /\ stateTerminated'[t] = stateTerminated[t]
        BY <2>2, <3>1 DEF TypeOK
      <4> QED
        BY <2>1, <4>2, <4>3 DEF ComesToAnEnd, Over
    <3>5. EndsWell(t)' /\ Tended(c)'
      BY <3>1, <3>3, <3>4 DEF EndsWell, Tended, TypeOK
    <3> QED
      BY <2>4, <3>1, <3>5 DEF TypeOK
  <2>7. CASE SwitchBack(c)
    <3>1. /\ UNCHANGED <<queued, suspended>> /\ pc[c] = "back"
          /\ pc' = [pc EXCEPT ![c] = IF exitedThread[c] # NoThread THEN "reclaim" ELSE "loop"]
      BY <2>7 DEF SwitchBack
    <3>2. LeavesFor(t)
      BY <2>1, <3>1 DEF FreedInv, ReachInv, Onward, Leaves
    <3>3. pc'[c] = IF exitedThread[c] # NoThread THEN "reclaim" ELSE "loop"
      BY <3>1 DEF TypeOK
    <3>4. ASSUME "suspend" \notin workload PROVE Gone(t)' /\ Reclaims(c)'
      <4>1. Gone(t) /\ Reclaims(c)
        BY <1>0, <3>4 DEF EndsWell, Tended
      <4>2. fiberAt[t] = "exit" => ~queued'[t] /\ ~blocked'[t]
        BY <2>2, <3>1, <4>1 DEF Gone
      <4>3. Gone(t)'
        BY <1>2, <2>1, <2>2, <2>3, <3>1, <4>1, <4>2 DEF Alone
      <4>4. exitedThread[c] # NoThread => exitedThread[c] = t /\ fiberAt[t] = "exit"
        BY <2>1, <3>1, <4>1 DEF Reclaims
      <4> QED
        BY <2>2, <2>3, <3>3, <4>3, <4>4 DEF Reclaims, Standing
    <3>5. EndsWell(t)'
      <4>1. queued'[t] \/ blocked'[t] \/ Over(t)
        BY <2>2, <3>1, <3>2 DEF LeavesFor, Over
      <4> QED
        BY <1>1, <2>2, <2>3, <3>4, <4>1 DEF EndsWell
    <3>6. Tended(c)'
      BY <3>3, <3>4 DEF Tended
    <3> QED
      BY <2>4, <3>1, <3>5, <3>6 DEF TypeOK
  <2> QED
    BY <1>5, <2>5, <2>6, <2>7
<1>6. CASE Reclaim(c)
  <2>1. /\ UNCHANGED <<queued, blocked, suspended, running, hasRun, terminatePending,
                       stateTerminated, fiberAt, suspendCount, callPc, callThread, next>>
        /\ reclaimed' = [reclaimed EXCEPT ![exitedThread[c]] = TRUE]
        /\ exitedThread' = [exitedThread EXCEPT ![c] = NoThread]
        /\ pc' = [pc EXCEPT ![c] = "loop"] /\ pc[c] = "reclaim"
    BY <1>6 DEF Reclaim
  <2>2. pc'[c] = "loop" /\ exitedThread'[c] = NoThread
    BY <2>1 DEF TypeOK
  <2>3. ASSUME NEW x \in Threads PROVE EndsWell(x)'
    <3>1. SameCalls(x) /\ (reclaimed[x] => reclaimed'[x])
      BY <2>1 DEF SameCalls, CallOn, TypeOK
    <3>2. CASE exitedThread[c] # x
      <4>1. Untouched(x)
        BY <2>1, <3>2 DEF Untouched, TypeOK
      <4> QED
        BY <1>0, <3>1, <4>1, UntouchedEnds
    <3>3. CASE exitedThread[c] = x
      <4>1. ComesToAnEnd(x)'
        <5>1. reclaimed'[x]
          BY <2>1, <3>3 DEF TypeOK
        <5> QED
          BY <1>1, <2>1, <3>1, <5>1
      <4>2. ASSUME "suspend" \notin workload PROVE Gone(x)'
        <5>1. Gone(x) /\ Reclaims(c) /\ x # NoThread
          BY <1>0, <4>2, SchedulerAssumption DEF EndsWell, Tended
        <5>2. fiberAt[x] = "exit" /\ ~running[x] /\ Alone(x) /\ ~Arriving(x)
          BY <2>1, <3>3, <5>1 DEF Reclaims, Gone, Alone
        <5> QED
          BY <2>1, <3>1, <5>1, <5>2 DEF Gone, Alone, Arriving, SameCalls
      <4> QED
        BY <4>1, <4>2 DEF EndsWell
    <3> QED
      BY <3>2, <3>3
  <2>4. ASSUME NEW d \in Cpus PROVE Tended(d)'
    <3>1. CASE d = c
      BY <2>2, <3>1 DEF Tended, Reclaims, Standing
    <3>2. CASE d # c
      <4>1. StaysQuiet(d) /\ exitedThread'[d] = exitedThread[d] /\ Tended(d)
        BY <2>1, <3>2 DEF StaysQuiet, TypeOK, Freed
      <4> QED
        BY <2>1, <4>1, OtherTended
    <3> QED
      BY <3>1, <3>2
  <2> QED
    BY <2>3, <2>4 DEF Freed
<1> QED
  BY <1>3, <1>4, <1>5, <1>6

\* The parts of a call.  The caller is alone, so thread t is in the hands of no other call.
LEMMA CallStepsEnd ==
  ASSUME FreedInv, Freed, OneCaller, NEW k \in Callers, UNCHANGED workload,
         CallStep(k), ~Wake(k)
  PROVE  Freed'
<1> TypeOK /\ IInv
  BY DEF FreedInv, ReachInv, IInv
<1>1. PICK t \in Threads : t = callThread[k] /\ callPc[k] # "idle" /\ fiberAt[t] # "none"
  BY CallsThread DEF CallStep, ResumeThread, MarkReady, EnqueueByCaller,
     MigrateForAffinity, RequeueForPriority, TerminateThread, ReclaimByCaller
<1>2. /\ \A j \in Callers : CallOn(j, t) = callPc[k]
      /\ callThread'[k] = t \/ callPc'[k] = "idle"
      /\ \A j \in Callers : CallOn(j, t)' = callPc'[k]
  <2>1. ASSUME Return(k) \/ \E step \in CallPc : Call(k, t, step)
        PROVE  callThread'[k] = t \/ callPc'[k] = "idle"
    BY <2>1 DEF TypeOK, Call, Return
  <2>2. ASSUME ResumeThread(k) \/ MarkReady(k) \/ TerminateThread(k)
        PROVE  callThread'[k] = t \/ callPc'[k] = "idle"
    BY <1>1, <2>1, <2>2 DEF ResumeThread, MarkReady, TerminateThread, CallPc
  <2>3. ASSUME \/ EnqueueByCaller(k) \/ MigrateForAffinity(k) \/ RequeueForPriority(k)
               \/ ReclaimByCaller(k)
        PROVE  callThread'[k] = t \/ callPc'[k] = "idle"
    BY <2>1, <2>3 DEF EnqueueByCaller, MigrateForAffinity, RequeueForPriority, ReclaimByCaller
  <2>4. callThread'[k] = t \/ callPc'[k] = "idle"
    BY <2>2, <2>3 DEF CallStep
  <2>5. ASSUME NEW j \in Callers PROVE j = k
    BY DEF OneCaller
  <2>6. CallOn(k, t) = callPc[k]
    BY <1>1 DEF CallOn
  <2>7. CallOn(k, t)' = callPc'[k]
    BY <2>4 DEF CallOn
  <2> QED
    BY <2>4, <2>5, <2>6, <2>7
<1>3. /\ UNCHANGED <<pc, next, exitedThread, running, hasRun, stateTerminated, fiberAt,
                     suspendCount>>
      /\ \A x \in Threads \ {t} : /\ reclaimed'[x] = reclaimed[x]
                                  /\ terminatePending'[x] = terminatePending[x]
      /\ reclaimed[t] => reclaimed'[t]
      /\ terminatePending[t] => terminatePending'[t]
  BY <1>1 DEF TypeOK, CallStep, ResumeThread, MarkReady, EnqueueByCaller,
     MigrateForAffinity, RequeueForPriority, TerminateThread, ReclaimByCaller
<1>4. ComesToAnEnd(t) /\ ("suspend" \notin workload => Gone(t))
  BY DEF Freed, EndsWell
<1>5. ASSUME /\ \A x \in Threads \ {t} : /\ queued'[x] = queued[x] /\ blocked'[x] = blocked[x]
                                         /\ suspended'[x] = suspended[x]
             /\ ComesToAnEnd(t)' /\ ("suspend" \notin workload => Gone(t)')
      PROVE  Freed'
  <2>1. \A x \in Threads \ {t} : Untouched(x)
    BY <1>3, <1>5 DEF Untouched
  <2>2. EndsWell(t)'
    BY <1>5 DEF EndsWell
  <2>3. /\ callPc[k] # "idle" => callThread[k] = t
        /\ fiberAt[t] \in {"none", fiberAt'[t]} /\ (running'[t] => running[t])
    BY <1>1, <1>3
  <2> QED
    BY <1>2, <1>3, <2>1, <2>2, <2>3, CallEnds
\* Where the call is not one that ends t, or has just reclaimed it, nothing hangs on it.
<1>6. ASSUME callPc[k] # "terminate", callPc[k] # "reclaim" \/ reclaimed'[t],
             queued[t] \/ blocked[t] => queued'[t] \/ blocked'[t]
      PROVE  ComesToAnEnd(t)'
  <2>1. ~EndedBy(t) \/ reclaimed'[t]
    BY <1>2, <1>6 DEF EndedBy
  <2>2. ~\E j \in Callers : CallOn(j, t) = "terminate"
    BY <1>2, <1>6
  <2> QED
    BY <1>3, <1>4, <1>6, <2>1, <2>2 DEF ComesToAnEnd, Over
<1>7. ASSUME callPc'[k] = "idle", Gone(t), UNCHANGED <<queued, blocked, suspended, reclaimed>>
      PROVE  Gone(t)'
  <2>1. \A j \in Callers : CallOn(j, t)' = "idle"
    BY <1>2, <1>7
  <2>2. reclaimed[t] => Alone(t) /\ fiberAt[t] # "none"
    BY <1>7 DEF Gone
  <2> QED
    BY <1>3, <1>7, <2>1, <2>2 DEF Gone, Alone, Arriving
<1>8. CASE ResumeThread(k)
  <2>1. callPc[k] = "unpark" /\ UNCHANGED <<queued, blocked>>
    BY <1>8 DEF ResumeThread
  <2>2. \A x \in Threads \ {t} : suspended'[x] = suspended[x]
    BY <1>1, <1>8 DEF ResumeThread, TypeOK
  <2>3. ComesToAnEnd(t)'
    BY <1>6, <2>1
  <2>4. "suspend" \in workload
    BY <1>2, <1>4, <2>1 DEF Gone
  <2> QED
    BY <1>5, <2>1, <2>2, <2>3, <2>4
<1>9. CASE MarkReady(k)
  <2>1. callPc[k] = "markReady" /\ UNCHANGED <<queued, blocked, suspended, reclaimed>>
    BY <1>9 DEF MarkReady
  <2>2. callPc'[k] \in {"idle", "enqueue"}
    BY <1>9 DEF TypeOK, MarkReady, Call, Return
  <2>3. ComesToAnEnd(t)'
    BY <1>6, <2>1
  <2>4. Gone(t) => Gone(t)'
    <3>1. Arriving(t)
      BY <1>2, <2>1 DEF Arriving
    <3>2. Gone(t) => ~reclaimed[t] /\ Alone(t) /\ fiberAt[t] = "fresh"
      BY <3>1 DEF Gone
    <3>3. \A j \in Callers : CallOn(j, t)' \in {"idle", "enqueue"}
      BY <1>2, <2>2
    <3> QED
      BY <1>3, <2>1, <3>2, <3>3 DEF Gone, Alone
  <2> QED
    BY <1>4, <1>5, <2>1, <2>3, <2>4
<1>10. CASE EnqueueByCaller(k)
  <2>1. callPc[k] = "enqueue" /\ UNCHANGED <<blocked, suspended, reclaimed>>
    BY <1>10 DEF EnqueueByCaller
  <2>2. queued' \in {queued, [queued EXCEPT ![t] = TRUE]}
    BY <1>1, <1>10 DEF EnqueueByCaller, EnqueueReady
  <2>3. (queued[t] => queued'[t]) /\ \A x \in Threads \ {t} : queued'[x] = queued[x]
    BY <2>2 DEF TypeOK
  <2>4. ComesToAnEnd(t)'
    BY <1>6, <2>1, <2>3
  <2>5. Gone(t) => Gone(t)'
    <3>1. Arriving(t)
      BY <1>2, <2>1 DEF Arriving
    <3>2. Gone(t) => ~reclaimed[t] /\ fiberAt[t] = "fresh"
      BY <3>1 DEF Gone
    <3>3. callPc'[k] = "idle"
      BY <1>10 DEF TypeOK, EnqueueByCaller, Return
    <3>4. \A j \in Callers : CallOn(j, t)' = "idle"
      BY <1>2, <3>3
    <3> QED
      BY <1>3, <2>1, <3>2, <3>4 DEF Gone, Arriving
  <2> QED
    BY <1>4, <1>5, <2>1, <2>3, <2>4, <2>5
<1>11. CASE MigrateForAffinity(k) \/ RequeueForPriority(k)
  <2>1. /\ UNCHANGED <<queued, blocked, suspended, reclaimed>>
        /\ callPc[k] \in {"migrate", "requeue"} /\ Return(k)
    BY <1>11 DEF MigrateForAffinity, RequeueForPriority
  <2>2. callPc'[k] = "idle"
    BY <2>1 DEF TypeOK, Return
  <2> QED
    BY <1>4, <1>5, <1>6, <1>7, <2>1, <2>2
<1>12. CASE ReclaimByCaller(k)
  <2>1. callPc[k] = "reclaim" /\ UNCHANGED <<queued, blocked, suspended>>
    BY <1>12 DEF ReclaimByCaller
  <2>2. reclaimed'[t] /\ callPc'[k] = "idle"
    BY <1>1, <1>12 DEF TypeOK, ReclaimByCaller, Return
  <2>3. Gone(t) => Gone(t)'
    <3>1. Gone(t) => Alone(t)
      BY <1>2, <2>1 DEF Gone
    <3>2. \A j \in Callers : CallOn(j, t)' = "idle"
      BY <1>2, <2>2
    <3> QED
      BY <1>1, <1>3, <2>1, <3>1, <3>2 DEF Gone, Alone, Arriving
  <2> QED
    BY <1>4, <1>5, <1>6, <2>1, <2>2, <2>3
<1>13. CASE TerminateThread(k)
  <2>1. /\ callPc[k] = "terminate" /\ UNCHANGED reclaimed /\ terminatePending'[t]
        /\ TerminateRunning(t) \/ TerminateParked(t) \/ TerminateUnparked(t)
    BY <1>1, <1>13 DEF TypeOK, TerminateThread
  <2>2. callPc'[k] = IF NeverRan(t) THEN "reclaim" ELSE "idle"
    BY <1>1, <1>13 DEF TypeOK, TerminateThread, Call, Return
  <2>3. \/ UNCHANGED <<queued, blocked, suspended>> /\ (running[t] \/ TerminateUnparked(t))
        \/ /\ queued' = [queued EXCEPT ![t] = TRUE] /\ blocked' = [blocked EXCEPT ![t] = FALSE]
           /\ suspended' = [suspended EXCEPT ![t] = FALSE]
           /\ blocked[t] \/ suspended[t]
    <3>1. CASE TerminateRunning(t) \/ TerminateUnparked(t)
      BY <3>1 DEF TerminateRunning, TerminateUnparked
    <3>2. CASE TerminateParked(t)
      BY <3>2 DEF TerminateParked, Unpark
    <3> QED
      BY <2>1, <3>1, <3>2
  <2>4. \A x \in Threads \ {t} : /\ queued'[x] = queued[x] /\ blocked'[x] = blocked[x]
                                 /\ suspended'[x] = suspended[x]
    BY <2>3 DEF TypeOK
  <2>5. ComesToAnEnd(t)'
    <3>1. stateTerminated[t] =>
            \/ Over(t) \/ reclaimed[t] \/ queued[t] \/ blocked[t] \/ running[t]
            \/ suspended[t] \/ ~hasRun[t]
      BY <1>4 DEF ComesToAnEnd
    <3>2. CASE queued'[t]
      BY <1>1, <1>3, <2>1, <3>2 DEF ComesToAnEnd
    <3>3. CASE UNCHANGED <<queued, blocked, suspended>> /\ running[t]
      BY <1>1, <1>3, <2>1, <3>3 DEF ComesToAnEnd
    <3>4. CASE UNCHANGED <<queued, blocked, suspended>> /\ TerminateUnparked(t)
      <4>1. ~running[t] /\ ~blocked[t] /\ ~suspended[t]
        BY <3>4 DEF TerminateUnparked
      <4>2. stateTerminated[t] /\ ~Over(t) /\ ~reclaimed[t] /\ ~queued[t] =>
              ~hasRun[t] /\ suspendCount[t] > 0 /\ NeverRan(t)
        BY <1>4, <4>1 DEF ComesToAnEnd, NeverRan
      <4>3. NeverRan(t) => EndedBy(t)'
        BY <1>2, <2>2 DEF EndedBy
      <4> QED
        BY <1>1, <1>3, <2>1, <3>4, <4>2, <4>3 DEF ComesToAnEnd, Over
    <3> QED
      BY <2>3, <3>2, <3>3, <3>4 DEF TypeOK
  <2>6. ASSUME "suspend" \notin workload PROVE Gone(t)'
    <3>1. Gone(t)
      BY <1>4, <2>6
    <3>2. callPc'[k] = "reclaim" => Alone(t) /\ UNCHANGED <<queued, blocked, suspended>>
      <4>1. NeverRan(t) => Alone(t) /\ ~suspended[t]
        BY DEF NeverRan, Alone
      <4> QED
        BY <2>2, <2>3, <4>1 DEF Alone
    <3>3. \A j \in Callers : CallOn(j, t)' \in {callPc'[k]} \cap {"reclaim", "idle"}
      BY <1>2, <2>2
    <3>4. reclaimed[t] => Alone(t) /\ UNCHANGED <<queued, blocked, suspended>>
      BY <2>3, <3>1 DEF Gone, Alone
    <3>5. fiberAt[t] = "exit" => UNCHANGED <<queued, blocked, suspended>>
      BY <2>3, <3>1 DEF Gone
    <3>6. ~suspended'[t]
      BY <2>3, <3>1 DEF Gone, TypeOK
    <3> QED
      BY <1>1, <1>3, <2>1, <3>1, <3>2, <3>3, <3>4, <3>5, <3>6 DEF Gone, Alone, Arriving
  <2> QED
    BY <1>5, <2>4, <2>5, <2>6
<1> QED
  BY <1>8, <1>9, <1>10, <1>11, <1>12, <1>13 DEF CallStep

\* The beginning of a call.  The caller was in none, and there is no other.
LEMMA NewCallsEnd ==
  ASSUME FreedInv, Freed, OneCaller, NEW k \in Callers, NEW t \in Threads, UNCHANGED workload,
         \/ Suspend(k, t) \/ Resume(k, t) \/ Terminate(k, t)
         \/ \E c \in Cpus, p \in Prios : Create(k, t, c, p)
         \/ \E c \in Cpus : SetActiveCpu(k, t, c)
         \/ \E p \in Prios : PublishPriority(k, t, p)
  PROVE  Freed'
<1> TypeOK /\ IInv
  BY DEF FreedInv, ReachInv, IInv
<1>1. /\ callPc[k] = "idle" /\ fiberAt[t] \in {"none", fiberAt'[t]}
      /\ UNCHANGED <<pc, next, exitedThread, queued, blocked, suspended, running, hasRun,
                     terminatePending, reclaimed>>
  BY DEF Suspend, Resume, Terminate, Create, SetActiveCpu, PublishPriority, Idle, Created
<1>2. callThread'[k] = t \/ callPc'[k] = "idle"
  <2>1. \/ UNCHANGED <<callPc, callThread>> \/ \E step \in CallPc : Call(k, t, step)
    <3>1. CASE Suspend(k, t) \/ Resume(k, t) \/ Terminate(k, t)
      BY <3>1 DEF Suspend, Resume, Terminate, CallPc
    <3> QED
      BY <3>1 DEF Create, SetActiveCpu, PublishPriority, CallPc
  <2> QED
    BY <1>1, <2>1 DEF TypeOK, Call
<1>3. \A j \in Callers : CallOn(j, t) = "idle" /\ CallOn(j, t)' = callPc'[k]
  BY <1>1, <1>2 DEF CallOn, OneCaller
<1>4. \A x \in Threads \ {t} : /\ fiberAt'[x] = fiberAt[x] /\ suspendCount'[x] = suspendCount[x]
                               /\ stateTerminated'[x] = stateTerminated[x]
  <2>1. ASSUME Suspend(k, t) \/ Resume(k, t) \/ Terminate(k, t)
        PROVE  \A x \in Threads \ {t} : /\ fiberAt'[x] = fiberAt[x]
                                        /\ suspendCount'[x] = suspendCount[x]
                                        /\ stateTerminated'[x] = stateTerminated[x]
    BY <2>1 DEF TypeOK, Suspend, Resume, Terminate
  <2>2. ASSUME NEW c \in Cpus, NEW p \in Prios, Create(k, t, c, p)
        PROVE  /\ UNCHANGED stateTerminated
               /\ \A x \in Threads \ {t} : /\ fiberAt'[x] = fiberAt[x]
                                           /\ suspendCount'[x] = suspendCount[x]
    BY <2>2 DEF TypeOK, Create
  <2> QED
    BY <2>1, <2>2 DEF SetActiveCpu, PublishPriority
<1>5. \A x \in Threads \ {t} : Untouched(x)
  BY <1>1, <1>4 DEF Untouched
<1>6. ComesToAnEnd(t) /\ ("suspend" \notin workload => Gone(t))
  BY DEF Freed, EndsWell
<1> SUFFICES ComesToAnEnd(t)' /\ ("suspend" \notin workload => Gone(t)')
  <2>1. ASSUME ComesToAnEnd(t)' /\ ("suspend" \notin workload => Gone(t)') PROVE EndsWell(t)'
    BY <2>1 DEF EndsWell
  <2> QED
    BY <1>1, <1>2, <1>5, <2>1, CallEnds
\* Nobody was ending t or bringing it back.
<1>7. /\ ~EndedBy(t) /\ ~Arriving(t)
      /\ ~(\E j \in Callers : CallOn(j, t) = "terminate")
      /\ ~(\E j \in Callers : CallOn(j, t) = "reclaim")
  BY <1>3 DEF EndedBy, Arriving
<1>8. ASSUME UNCHANGED <<fiberAt, stateTerminated>> PROVE ComesToAnEnd(t)'
  BY <1>1, <1>6, <1>7, <1>8 DEF ComesToAnEnd, Over
<1>9. ASSUME UNCHANGED <<fiberAt, suspendCount>>,
             callPc'[k] \notin {"unpark", "markReady", "enqueue", "reclaim"}
      PROVE  Gone(t) => Gone(t)'
  <2>1. ~Arriving(t)' /\ \A j \in Callers : CallOn(j, t)' \notin {"unpark", "reclaim"}
    BY <1>3, <1>9 DEF Arriving
  <2>2. ASSUME Gone(t), reclaimed[t] PROVE Alone(t)' /\ fiberAt'[t] # "none"
    BY <1>1, <1>9, <2>2 DEF Gone, Alone
  <2> QED
    BY <1>1, <1>9, <2>1, <2>2 DEF Gone
<1>10. CASE Suspend(k, t) \/ Resume(k, t)
  <2>1. UNCHANGED <<fiberAt, stateTerminated>> /\ "suspend" \in workload
    BY <1>10 DEF Suspend, Resume
  <2> QED
    BY <1>8, <2>1
<1>11. CASE \/ \E c \in Cpus : SetActiveCpu(k, t, c)
            \/ \E p \in Prios : PublishPriority(k, t, p)
  <2>1. UNCHANGED <<fiberAt, stateTerminated, suspendCount>>
    BY <1>11 DEF SetActiveCpu, PublishPriority
  <2>2. callPc'[k] \in {"migrate", "requeue"}
    BY <1>11 DEF TypeOK, SetActiveCpu, PublishPriority, Call
  <2> QED
    BY <1>6, <1>8, <1>9, <2>1, <2>2
<1>12. CASE Terminate(k, t)
  <2>1. /\ UNCHANGED <<fiberAt, suspendCount>> /\ fiberAt[t] # "none"
        /\ callPc'[k] = "terminate"
    BY <1>12 DEF TypeOK, Terminate, Created, Call
  <2>2. \E j \in Callers : CallOn(j, t)' = "terminate"
    BY <1>3, <2>1
  <2>3. EndedBy(t)'
    BY <2>2 DEF EndedBy
  <2>4. \/ Over(t) \/ reclaimed[t] \/ queued[t] \/ blocked[t] \/ running[t] \/ suspended[t]
        \/ ~hasRun[t] /\ suspendCount[t] > 0
    <3>1. CASE stateTerminated[t]
      BY <1>6, <1>7, <3>1 DEF ComesToAnEnd
    <3>2. CASE ~stateTerminated[t]
      <4>1. \A j \in Callers : ~BringsBack(j, t)
        BY <1>3 DEF BringsBack, CallOn
      <4>2. Reachable(t)
        BY <3>2 DEF FreedInv, ReachInv, Onward, OnItsWay
      <4> QED
        BY <2>1, <4>1, <4>2 DEF Reachable, HeldForAReason, Over
    <3> QED
      BY <3>1, <3>2
  <2>5. ComesToAnEnd(t)'
    BY <1>1, <2>1, <2>2, <2>3, <2>4 DEF ComesToAnEnd, Over
  <2> QED
    BY <1>6, <1>9, <2>1, <2>5
<1>13. ASSUME NEW c \in Cpus, NEW p \in Prios, Create(k, t, c, p)
       PROVE  ComesToAnEnd(t)' /\ ("suspend" \notin workload => Gone(t)')
  <2>1. fiberAt[t] = "none" /\ fiberAt'[t] = "fresh" /\ UNCHANGED stateTerminated
    BY <1>13 DEF TypeOK, Create, Created
  <2>2. Alone(t)
    BY <2>1 DEF IInv, Control, Fresh, Alone
  <2>3. ASSUME "suspend" \notin workload PROVE callPc'[k] = "markReady" /\ UNCHANGED suspendCount
    BY <1>13, <2>3 DEF TypeOK, Create, Call
  <2>4. ASSUME "suspend" \notin workload PROVE Gone(t)'
    <3>1. \A j \in Callers : CallOn(j, t)' = "markReady"
      BY <1>3, <2>3, <2>4
    <3>2. Gone(t) /\ ~reclaimed[t]
      BY <1>6, <2>1, <2>4 DEF Gone
    <3> QED
      BY <1>1, <2>1, <2>2, <2>3, <2>4, <3>1, <3>2 DEF Gone, Alone, Arriving
  <2> QED
    BY <1>6, <2>1, <2>4 DEF ComesToAnEnd
<1> QED
  BY <1>10, <1>11, <1>12, <1>13

\* So what is terminated comes to an end, and what is reclaimed is gone.
LEMMA FreedInvHolds == Spec => []FreedInv
<1>1. Init => FreedInv
  <2> SUFFICES ASSUME Init PROVE FreedInv
    OBVIOUS
  <2>1. ReachInv
    BY InitOnward
  <2>2. \A t \in Threads, k \in Callers : CallOn(k, t) = "idle"
    BY DEF Init, CallOn
  <2>3. ASSUME NEW t \in Threads PROVE EndsWell(t)
    <3>1. ComesToAnEnd(t)
      BY DEF Init, ComesToAnEnd
    <3>2. Gone(t)
      BY <2>2 DEF Init, Gone, Alone, Arriving
    <3> QED
      BY <3>1, <3>2 DEF EndsWell
  <2>4. ASSUME NEW c \in Cpus PROVE Tended(c)
    BY DEF Init, Tended, Reclaims, Standing
  <2> QED
    BY <2>1, <2>3, <2>4 DEF FreedInv, Freed
<1>2. FreedInv /\ [Next]_vars => FreedInv'
  <2> SUFFICES ASSUME FreedInv, [Next]_vars PROVE FreedInv'
    OBVIOUS
  <2>1. ReachInv'
    BY StepsOnward DEF FreedInv
  <2> SUFFICES ASSUME OneCaller PROVE Freed'
    BY <2>1 DEF FreedInv, OneCaller
  <2>2. Freed
    BY DEF FreedInv
  <2>3. CASE UNCHANGED vars
    <3>1. \A d \in Cpus : StaysQuiet(d)
      BY <2>3 DEF vars, steps, loopVars, StaysQuiet
    <3>2. UNCHANGED <<queued, blocked, suspended, running, hasRun, terminatePending,
                      stateTerminated, fiberAt, reclaimed, suspendCount, callPc, callThread,
                      next, exitedThread, workload>>
      BY <2>3 DEF vars, steps, loopVars, linkVars, threadVars, callVars, cpuVars
    <3> QED
      BY <2>2, <3>1, <3>2, QuietEnds
  <2>4. ASSUME QuietLoop, UNCHANGED workload PROVE Freed'
    <3>1. TypeOK
      BY DEF FreedInv, ReachInv, IInv
    <3> QED
      BY <2>2, <2>4, <3>1, QuietLoopDoes, QuietEnds
  <2>5. ASSUME NEW c \in Cpus, UNCHANGED workload,
               LoopStep(c) \/ FiberStep(c) \/ GuestStep(c) \/ Watchdog(c)
        PROVE  Freed'
    <3> c \in Actors
      BY DEF Actors
    <3> QED
      BY <2>2, <2>4, <2>5, DispatchEnds, FiberStepsEnd DEF LoopStep, QuietLoop
  <2>6. ASSUME NEW k \in Callers, UNCHANGED workload, CallStep(k) \/ NewCall(k)
        PROVE  Freed'
    <3> k \in Actors
      BY DEF Actors
    <3>1. CASE CallStep(k)
      BY <2>2, <2>4, <2>6, <3>1, CallStepsEnd DEF QuietLoop
    <3>2. CASE NewCall(k)
      BY <2>2, <2>4, <2>6, <3>2, NewCallsEnd DEF NewCall, QuietLoop
    <3> QED
      BY <2>6, <3>1, <3>2
  <2> QED
    BY <2>3, <2>5, <2>6 DEF Next, Step
<1> QED
  BY <1>1, <1>2, PTL DEF Spec

\* Where one caller at a time acts on the threads, a thread that is terminated can still be
\* led to its exit, or is with the call that frees it; and without Resumes a thread that is
\* reclaimed is on no list and no dispatch thread stands on its stack (XThread::Terminate;
\* guest_scheduler.cc, TerminateThread; ReclaimExited).
THEOREM FreedIsGone == Spec => []FreedForGood
<1>1. FreedInv => FreedForGood
  <2> SUFFICES ASSUME FreedInv, OneCaller
               PROVE  /\ \A t \in Threads : stateTerminated[t] => Reachable(t)
                      /\ "suspend" \in workload \/ ReclaimedForGood
    BY DEF FreedForGood, OneCaller
  <2>1. ASSUME NEW t \in Threads, stateTerminated[t] PROVE Reachable(t)
    <3>1. ComesToAnEnd(t) /\ OnItsWay(t)
      BY DEF FreedInv, Freed, EndsWell, ReachInv, Onward
    <3> QED
      BY <2>1, <3>1 DEF ComesToAnEnd, OnItsWay, Reachable, Over
  <2>2. ASSUME "suspend" \notin workload PROVE ReclaimedForGood
    BY <2>2 DEF FreedInv, Freed, EndsWell, Gone, Alone, ReclaimedForGood
  <2> QED
    BY <2>1, <2>2
<1> QED
  BY <1>1, FreedInvHolds, PTL
=============================================================================
