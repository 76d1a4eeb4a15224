---------------------------- MODULE SpinLockProofs ----------------------------
(***************************************************************************)
(* Mutual exclusion and the IRQL of SpinLock, for any fibers, host threads,*)
(* dispatch threads and locks; then the guest headers that MCLocks checks  *)
(* beside it.                                                              *)
(*                                                                         *)
(* Neither property is inductive: owner names a PCR and not the holder, so *)
(* exclusion rests on "who holds a lock has it owned by somebody", which   *)
(* rests on the title's order of locks (nobody takes what it has); and the *)
(* IRQL to go back to is kept with each lock that is held.                 *)
(***************************************************************************)
EXTENDS MCLocks, FiniteSetTheorems, TLAPS

Holding == [lock : Locks, old : {0, Dispatch}]

TypesInv ==
  /\ owner \in [Locks -> Fibers \cup {None}]
  /\ irql \in [Fibers -> {0, Dispatch}]
  /\ held \in [Actors -> Seq(Holding)]
  /\ want \in [Actors -> Locks \cup {None}] /\ target \in [Actors -> Fibers \cup {None}]

\* Of an actor: it spins for the newest lock it has entered, it entered its locks in the
\* order of their ranks, and those it has are owned.
NewestWanted(a) ==
  want[a] # None => /\ held[a] # <<>> /\ held[a][1].lock = want[a] /\ target[a] \in Fibers
InOrder(a) ==
  \A i, j \in DOMAIN held[a] : i < j => Rank[held[a][j].lock] < Rank[held[a][i].lock]
Owned(a) ==
  \A i \in DOMAIN held[a] : held[a][i].lock # want[a] => owner[held[a][i].lock] # None

\* Of a fiber: it uses its own PCR, which is at DISPATCH_LEVEL from its first lock to its
\* last, and only the first lock takes it back.
RestoresIrql(f) ==
  /\ target[f] = f
  /\ irql[f] = IF held[f] = <<>> THEN 0 ELSE Dispatch
  /\ \A i \in DOMAIN held[f] :
       held[f][i].old = IF i = Len(held[f]) THEN 0 ELSE Dispatch

IInv ==
  /\ TypesInv
  /\ \A a \in Actors : NewestWanted(a) /\ InOrder(a) /\ Owned(a)
  /\ \A f \in Fibers : RestoresIrql(f)
  /\ Exclusive

-----------------------------------------------------------------------------
\* A lock is entered at the front ...
LEMMA Pushed ==
  ASSUME NEW S, NEW s \in Seq(S), NEW x \in S
  PROVE  /\ <<x>> \o s \in Seq(S) /\ <<x>> \o s # <<>>
         /\ Len(<<x>> \o s) = Len(s) + 1 /\ DOMAIN (<<x>> \o s) = 1..Len(s) + 1
         /\ DOMAIN s = 1..Len(s) /\ Len(s) \in Nat /\ (s = <<>> <=> Len(s) = 0)
         /\ (<<x>> \o s)[1] = x
         /\ \A i \in DOMAIN s : i + 1 \in 1..Len(s) + 1 /\ (<<x>> \o s)[i + 1] = s[i]
  OBVIOUS

\* ... and left there.
LEMMA Popped ==
  ASSUME NEW S, NEW s \in Seq(S), s # <<>>
  PROVE  /\ Tail(s) \in Seq(S) /\ Len(Tail(s)) = Len(s) - 1
         /\ Head(s) = s[1] /\ Head(s) \in S /\ 1 \in DOMAIN s
         /\ DOMAIN s = 1..Len(s) /\ Len(s) \in Nat \ {0}
         /\ DOMAIN Tail(s) = 1..Len(s) - 1 /\ (Tail(s) = <<>> <=> Len(s) = 1)
         /\ \A i \in 1..Len(s) - 1 : Tail(s)[i] = s[i + 1]
<1>1. /\ Tail(s) \in Seq(S) /\ Len(Tail(s)) = Len(s) - 1
      /\ Head(s) = s[1] /\ Head(s) \in S /\ 1 \in DOMAIN s
      /\ DOMAIN s = 1..Len(s) /\ Len(s) \in Nat \ {0}
      /\ DOMAIN Tail(s) = 1..Len(s) - 1
      /\ \A i \in 1..Len(s) - 1 : Tail(s)[i] = s[i + 1]
  OBVIOUS
<1>2. \A t \in Seq(S) : t = <<>> <=> Len(t) = 0
  OBVIOUS
<1>3. Tail(s) = <<>> <=> Len(Tail(s)) = 0
  BY <1>1, <1>2
<1> QED
  BY <1>1, <1>3

\* Every lock that is held is one.
LEMMA HeldAreLocks ==
  ASSUME TypesInv, NEW a \in Actors, NEW i \in DOMAIN held[a]
  PROVE  held[a][i] \in Holding /\ held[a][i].lock \in Locks /\ held[a][i].lock # None
<1>1. held[a] \in Seq(Holding)
  BY DEF TypesInv
<1>2. held[a][i] \in Holding
  BY <1>1
<1> QED
  BY <1>2, SpinAssumption DEF Holding

-----------------------------------------------------------------------------
\* At first nobody has a lock.
LEMMA IInvInit == Init => IInv
<1> SUFFICES ASSUME Init PROVE IInv
  OBVIOUS
<1> USE SpinAssumption DEF Init, Actors
<1>1. TypesInv
  <2>1. <<>> \in Seq(Holding)
    OBVIOUS
  <2> QED
    BY <2>1 DEF TypesInv
<1>2. \A a \in Actors : NewestWanted(a) /\ InOrder(a) /\ Owned(a)
  BY DEF NewestWanted, InOrder, Owned
<1>3. \A f \in Fibers : RestoresIrql(f)
  BY DEF RestoresIrql
<1>4. Exclusive
  BY DEF Exclusive, Held
<1> QED
  BY <1>1, <1>2, <1>3, <1>4 DEF IInv

\* The lock that is entered is not there yet; the IRQL is stored with it.
LEMMA AcquireKeeps ==
  ASSUME IInv, NEW a \in Actors, NEW l \in Locks, Acquire(a, l) PROVE IInv'
<1> DEFINE new == [lock |-> l, old |-> IF ChangesIrql(a) THEN irql[target'[a]] ELSE 0]
<1>1. /\ want[a] = None /\ l \notin Held(a) /\ UNCHANGED owner
      /\ \A k \in Held(a) : Rank[k] < Rank[l]
      /\ want' = [want EXCEPT ![a] = l] /\ held' = [held EXCEPT ![a] = <<new>> \o @]
      /\ irql' = IF ChangesIrql(a) THEN [irql EXCEPT ![target'[a]] = Dispatch] ELSE irql
  BY DEF Acquire
<1>2. /\ target' \in [Actors -> Fibers \cup {None}] /\ target'[a] \in Fibers
      /\ \A f \in Fibers : target'[f] = f
      /\ \A b \in Actors \ {a} : target'[b] = target[b]
  <2>1. target \in [Actors -> Fibers \cup {None}] /\ \A f \in Fibers : target[f] = f
    BY DEF IInv, TypesInv, RestoresIrql
  <2>2. CASE a \in Fibers /\ UNCHANGED target
    BY <2>1, <2>2
  <2>3. CASE a \in Hosts /\ \E f \in Fibers : target' = [target EXCEPT ![a] = f]
    <3>1. PICK f \in Fibers : target' = [target EXCEPT ![a] = f]
      BY <2>3
    <3>2. a \notin Fibers /\ \A g \in Fibers : g \in Actors
      BY <2>3, SpinAssumption DEF Actors
    <3> QED
      BY <2>1, <3>1, <3>2
  <2> QED
    BY <2>2, <2>3 DEF Acquire
<1>3. new \in Holding
  BY <1>2 DEF IInv, TypesInv, Holding
<1>4. /\ held[a] \in Seq(Holding) /\ held'[a] = <<new>> \o held[a]
      /\ \A b \in Actors \ {a} : held'[b] = held[b] /\ want'[b] = want[b]
      /\ want'[a] = l /\ l # None
  BY <1>1, SpinAssumption DEF IInv, TypesInv
<1> HIDE DEF new
<1>5. /\ held'[a] \in Seq(Holding) /\ held'[a] # <<>>
      /\ Len(held'[a]) = Len(held[a]) + 1 /\ DOMAIN held'[a] = 1..Len(held[a]) + 1
      /\ DOMAIN held[a] = 1..Len(held[a]) /\ Len(held[a]) \in Nat
      /\ held[a] = <<>> <=> Len(held[a]) = 0
      /\ held'[a][1] = new
      /\ \A i \in DOMAIN held[a] : held'[a][i + 1] = held[a][i]
  BY <1>3, <1>4, Pushed
<1>6. new.lock = l
  BY DEF new
<1>7. \A i \in DOMAIN held'[a] :
        \/ i = 1 /\ held'[a][i].lock = l
        \/ /\ i - 1 \in DOMAIN held[a] /\ held'[a][i] = held[a][i - 1]
           /\ held'[a][i].lock \in Held(a) /\ i # 1
  <2> SUFFICES ASSUME NEW i \in DOMAIN held'[a], i # 1
               PROVE  /\ i - 1 \in DOMAIN held[a] /\ held'[a][i] = held[a][i - 1]
                      /\ held'[a][i].lock \in Held(a)
    BY <1>5, <1>6
  <2>1. i - 1 \in DOMAIN held[a] /\ i = (i - 1) + 1
    BY <1>5
  <2>2. held'[a][i] = held[a][i - 1]
    BY <1>5, <2>1
  <2> QED
    BY <2>1, <2>2 DEF Held
<1>8. TypesInv'
  <2>1. held' \in [Actors -> Seq(Holding)]
    BY <1>1, <1>4, <1>5 DEF IInv, TypesInv
  <2> QED
    BY <1>1, <1>2, <2>1 DEF IInv, TypesInv
<1>9. NewestWanted(a)' /\ InOrder(a)' /\ Owned(a)'
  <2>1. NewestWanted(a)'
    BY <1>2, <1>4, <1>5, <1>6 DEF NewestWanted
  <2>2. InOrder(a)'
    <3> SUFFICES ASSUME NEW i \in DOMAIN held'[a], NEW j \in DOMAIN held'[a], i < j
                 PROVE  Rank[held'[a][j].lock] < Rank[held'[a][i].lock]
      BY DEF InOrder
    <3>1. j # 1 /\ held'[a][j] = held[a][j - 1] /\ held'[a][j].lock \in Held(a)
      BY <1>5, <1>7
    <3>2. CASE i = 1
      BY <1>1, <1>7, <3>1, <3>2
    <3>3. CASE i # 1
      <4>1. /\ i - 1 \in DOMAIN held[a] /\ j - 1 \in DOMAIN held[a] /\ i - 1 < j - 1
            /\ held'[a][i] = held[a][i - 1]
        BY <1>5, <1>7, <3>3
      <4> QED
        BY <3>1, <4>1 DEF IInv, InOrder
    <3> QED
      BY <3>2, <3>3
  <2>3. Owned(a)'
    <3> SUFFICES ASSUME NEW i \in DOMAIN held'[a], held'[a][i].lock # l
                 PROVE  owner[held'[a][i].lock] # None
      BY <1>1, <1>4 DEF Owned
    <3>1. i - 1 \in DOMAIN held[a] /\ held'[a][i] = held[a][i - 1]
      BY <1>7
    <3>2. held[a][i - 1].lock # None
      BY <3>1, HeldAreLocks DEF IInv
    <3> QED
      BY <1>1, <3>1, <3>2 DEF IInv, Owned
  <2> QED
    BY <2>1, <2>2, <2>3
<1>10. \A b \in Actors \ {a} : NewestWanted(b)' /\ InOrder(b)' /\ Owned(b)'
  BY <1>1, <1>2, <1>4 DEF IInv, NewestWanted, InOrder, Owned
<1>11. \A f \in Fibers : RestoresIrql(f)'
  <2> SUFFICES ASSUME NEW f \in Fibers PROVE RestoresIrql(f)'
    OBVIOUS
  <2>1. RestoresIrql(f) /\ f \in Actors
    BY DEF IInv, Actors
  <2>2. CASE f # a
    <3>1. irql'[f] = irql[f]
      BY <1>1, <1>2, <2>2 DEF ChangesIrql, IInv, TypesInv
    <3> QED
      BY <1>2, <1>4, <2>1, <2>2, <3>1 DEF RestoresIrql
  <2>3. CASE f = a
    <3>1. target'[a] = a /\ irql'[a] = Dispatch /\ new.old = irql[a]
      BY <1>1, <1>2, <2>3 DEF ChangesIrql, IInv, TypesInv, new
    <3>2. ASSUME NEW i \in DOMAIN held'[a]
          PROVE  held'[a][i].old = IF i = Len(held'[a]) THEN 0 ELSE Dispatch
      <4>1. CASE i = 1
        BY <1>5, <2>1, <2>3, <3>1, <4>1 DEF RestoresIrql
      <4>2. CASE i # 1
        <5>1. /\ i - 1 \in DOMAIN held[a] /\ held'[a][i] = held[a][i - 1]
              /\ i - 1 = Len(held[a]) <=> i = Len(held'[a])
          BY <1>5, <1>7, <4>2
        <5> QED
          BY <2>1, <2>3, <5>1 DEF RestoresIrql
      <4> QED
        BY <4>1, <4>2
    <3> QED
      BY <1>5, <2>3, <3>1, <3>2 DEF RestoresIrql
  <2> QED
    BY <2>2, <2>3
<1>12. Exclusive'
  <2>1. \A k \in Held(a)' : k = l \/ k \in Held(a)
    BY <1>7 DEF Held
  <2>2. \A b \in Actors \ {a} : Held(b)' = Held(b)
    BY <1>4 DEF Held
  <2>3. \A k \in Held(a) : want[a] # k
    BY <1>1, HeldAreLocks DEF IInv, Held
  <2> QED
    BY <1>1, <1>4, <2>1, <2>2, <2>3 DEF IInv, Exclusive
<1> QED
  BY <1>8, <1>9, <1>10, <1>11, <1>12 DEF IInv

\* The lock that is taken had no owner, so nobody else has it.
LEMMA TakeKeeps == ASSUME IInv, NEW a \in Actors, Take(a) PROVE IInv'
<1>1. /\ want[a] # None /\ owner[want[a]] = None
      /\ owner' = [owner EXCEPT ![want[a]] = target[a]]
      /\ want' = [want EXCEPT ![a] = None] /\ UNCHANGED <<irql, held, target>>
  BY DEF Take, Swap
<1>2. /\ held[a] # <<>> /\ held[a][1].lock = want[a] /\ target[a] \in Fibers
      /\ want[a] \in Locks
  BY <1>1 DEF IInv, NewestWanted, TypesInv
<1>3. TypesInv'
  BY <1>1, <1>2 DEF IInv, TypesInv
<1>4. \A l \in Locks : owner'[l] # None <=> l = want[a] \/ owner[l] # None
  BY <1>1, <1>2, SpinAssumption DEF IInv, TypesInv, Actors
<1>5. ASSUME NEW b \in Actors PROVE NewestWanted(b)' /\ InOrder(b)' /\ Owned(b)'
  <2>1. /\ NewestWanted(b) /\ InOrder(b) /\ Owned(b)
        /\ \A i \in DOMAIN held[b] : held[b][i].lock \in Locks
    BY HeldAreLocks DEF IInv
  <2>2. want'[b] = IF b = a THEN None ELSE want[b]
    BY <1>1 DEF IInv, TypesInv
  <2> QED
    BY <1>1, <1>4, <2>1, <2>2 DEF NewestWanted, InOrder, Owned
<1>6. \A f \in Fibers : RestoresIrql(f)'
  BY <1>1 DEF IInv, RestoresIrql
<1>7. Exclusive'
  <2>1. \A b \in Actors : Held(b)' = Held(b)
    BY <1>1 DEF Held
  <2>2. \A b \in Actors : want[a] \in Held(b) => want[b] = want[a]
    BY <1>1 DEF IInv, Owned, Held
  <2>3. \A b \in Actors : want'[b] = IF b = a THEN None ELSE want[b]
    BY <1>1 DEF IInv, TypesInv
  <2> QED
    BY <1>1, <2>1, <2>2, <2>3 DEF IInv, Exclusive
<1> QED
  BY <1>3, <1>5, <1>6, <1>7 DEF IInv

\* The lock that is freed was nobody else's, and is not among those that are kept.
LEMMA ReleaseKeeps == ASSUME IInv, NEW a \in Actors, Release(a) PROVE IInv'
<1> DEFINE l == held[a][1].lock
<1>1. /\ want[a] = None /\ held[a] # <<>> /\ UNCHANGED <<want, target>>
      /\ owner' = [owner EXCEPT ![Head(held[a]).lock] = None]
      /\ held' = [held EXCEPT ![a] = Tail(@)]
      /\ irql' = IF a \in Fibers THEN [irql EXCEPT ![target[a]] = Head(held[a]).old] ELSE irql
  BY DEF Release, Frees, Lowers, ChangesIrql
<1>2. held[a] \in Seq(Holding) /\ held'[a] = Tail(held[a])
  BY <1>1 DEF IInv, TypesInv
<1>3. /\ held'[a] \in Seq(Holding) /\ Len(held'[a]) = Len(held[a]) - 1
      /\ Head(held[a]) = held[a][1] /\ 1 \in DOMAIN held[a] /\ held[a][1] \in Holding
      /\ DOMAIN held[a] = 1..Len(held[a]) /\ Len(held[a]) \in Nat \ {0}
      /\ DOMAIN held'[a] = 1..Len(held[a]) - 1
      /\ held'[a] = <<>> <=> Len(held[a]) = 1
      /\ \A i \in 1..Len(held[a]) - 1 : held'[a][i] = held[a][i + 1]
  <2> DEFINE s == held[a]
  <2>1. s \in Seq(Holding) /\ s # <<>> /\ held'[a] = Tail(s)
    BY <1>1, <1>2
  <2> HIDE DEF s
  <2>2. /\ Tail(s) \in Seq(Holding) /\ Len(Tail(s)) = Len(s) - 1
        /\ Head(s) = s[1] /\ Head(s) \in Holding /\ 1 \in DOMAIN s
        /\ DOMAIN s = 1..Len(s) /\ Len(s) \in Nat \ {0}
        /\ DOMAIN Tail(s) = 1..Len(s) - 1 /\ (Tail(s) = <<>> <=> Len(s) = 1)
        /\ \A i \in 1..Len(s) - 1 : Tail(s)[i] = s[i + 1]
    BY <2>1, Popped
  <2> QED
    BY <2>1, <2>2 DEF s
<1>4. l \in Locks /\ held[a][1].old \in {0, Dispatch} /\ l # None
  BY <1>3, SpinAssumption DEF Holding
<1>5. \A i \in DOMAIN held'[a] :
        i + 1 \in DOMAIN held[a] /\ held'[a][i] = held[a][i + 1] /\ held'[a][i].lock # l
  <2> SUFFICES ASSUME NEW i \in DOMAIN held'[a]
               PROVE  /\ i + 1 \in DOMAIN held[a] /\ held'[a][i] = held[a][i + 1]
                      /\ held'[a][i].lock # l
    OBVIOUS
  <2>1. i + 1 \in DOMAIN held[a] /\ held'[a][i] = held[a][i + 1] /\ 1 < i + 1
    BY <1>3
  <2>2. Rank[held[a][i + 1].lock] < Rank[held[a][1].lock]
    BY <1>3, <2>1 DEF IInv, InOrder
  <2>3. Rank[l] \in Nat
    BY <1>4, SpinAssumption
  <2> QED
    BY <2>1, <2>2, <2>3
<1>6. \A b \in Actors \ {a} : held'[b] = held[b]
  BY <1>1 DEF IInv, TypesInv
<1>7. owner' = [owner EXCEPT ![l] = None]
  BY <1>1, <1>3
<1>8. TypesInv'
  <2>1. held' \in [Actors -> Seq(Holding)]
    BY <1>1, <1>2, <1>3 DEF IInv, TypesInv
  <2>2. irql' \in [Fibers -> {0, Dispatch}]
    BY <1>1, <1>3, <1>4 DEF IInv, TypesInv
  <2> QED
    BY <1>1, <1>4, <1>7, <2>1, <2>2 DEF IInv, TypesInv
<1> HIDE DEF l
<1>9. NewestWanted(a)' /\ InOrder(a)' /\ Owned(a)'
  <2>1. NewestWanted(a)'
    BY <1>1 DEF NewestWanted
  <2>2. InOrder(a)'
    <3> SUFFICES ASSUME NEW i \in DOMAIN held'[a], NEW j \in DOMAIN held'[a], i < j
                 PROVE  Rank[held'[a][j].lock] < Rank[held'[a][i].lock]
      BY DEF InOrder
    <3>1. i + 1 < j + 1
      BY <1>3
    <3> QED
      BY <1>5, <3>1 DEF IInv, InOrder
  <2>3. Owned(a)'
    <3> SUFFICES ASSUME NEW i \in DOMAIN held'[a] PROVE owner'[held'[a][i].lock] # None
      BY DEF Owned
    <3>1. /\ i + 1 \in DOMAIN held[a] /\ held'[a][i].lock = held[a][i + 1].lock
          /\ held[a][i + 1].lock # l
      BY <1>5
    <3>2. held[a][i + 1].lock \in Locks
      BY <3>1, HeldAreLocks DEF IInv
    <3>3. owner[held[a][i + 1].lock] # None
      BY <1>1, <3>1, <3>2, SpinAssumption DEF IInv, Owned
    <3> QED
      BY <1>7, <3>1, <3>2, <3>3 DEF IInv, TypesInv
  <2> QED
    BY <2>1, <2>2, <2>3
<1>10. ASSUME NEW b \in Actors \ {a} PROVE NewestWanted(b)' /\ InOrder(b)' /\ Owned(b)'
  <2>1. /\ NewestWanted(b) /\ InOrder(b) /\ Owned(b)
        /\ \A i \in DOMAIN held[b] : held[b][i].lock \in Locks
    BY HeldAreLocks DEF IInv
  <2>2. l \in Held(a) /\ want[a] # l
    BY <1>1, <1>3, <1>4 DEF Held, l
  <2>3. \A i \in DOMAIN held[b] : held[b][i].lock # want[b] => held[b][i].lock # l
    BY <1>4, <2>2 DEF IInv, Exclusive, Held
  <2>4. Owned(b)'
    BY <1>1, <1>4, <1>6, <1>7, <2>1, <2>3 DEF Owned, IInv, TypesInv
  <2> QED
    BY <1>1, <1>6, <2>1, <2>4 DEF NewestWanted, InOrder
<1>11. \A f \in Fibers : RestoresIrql(f)'
  <2> SUFFICES ASSUME NEW f \in Fibers PROVE RestoresIrql(f)'
    OBVIOUS
  <2>1. RestoresIrql(f) /\ f \in Actors
    BY DEF IInv, Actors
  <2>2. CASE f # a
    <3>1. irql'[f] = irql[f]
      BY <1>1, <2>2 DEF IInv, TypesInv, RestoresIrql
    <3> QED
      BY <1>1, <1>6, <2>1, <2>2, <3>1 DEF RestoresIrql
  <2>3. CASE f = a
    <3>1. irql'[a] = held[a][1].old /\ target'[a] = a
      BY <1>1, <1>3, <2>1, <2>3 DEF IInv, TypesInv, RestoresIrql
    <3>2. held[a][1].old = IF Len(held[a]) = 1 THEN 0 ELSE Dispatch
      BY <1>3, <2>1, <2>3 DEF RestoresIrql
    <3>3. ASSUME NEW i \in DOMAIN held'[a]
          PROVE  held'[a][i].old = IF i = Len(held'[a]) THEN 0 ELSE Dispatch
      <4>1. /\ i + 1 \in DOMAIN held[a] /\ held'[a][i] = held[a][i + 1]
            /\ i + 1 = Len(held[a]) <=> i = Len(held'[a])
        BY <1>3, <1>5
      <4> QED
        BY <2>1, <2>3, <4>1 DEF RestoresIrql
    <3> QED
      BY <1>3, <2>3, <3>1, <3>2, <3>3 DEF RestoresIrql
  <2> QED
    BY <2>2, <2>3
<1>12. Exclusive'
  <2>1. \A k \in Held(a)' : k \in Held(a)
    BY <1>5 DEF Held
  <2>2. \A b \in Actors \ {a} : Held(b)' = Held(b)
    BY <1>6 DEF Held
  <2> QED
    BY <1>1, <2>1, <2>2 DEF IInv, Exclusive
<1> QED
  BY <1>8, <1>9, <1>10, <1>11, <1>12 DEF IInv

\* The scheduler's steps touch no lock.
LEMMA SchedulingKeeps ==
  ASSUME IInv, UNCHANGED <<owner, irql, held, want, target>> PROVE IInv'
  BY DEF IInv, TypesInv, NewestWanted, InOrder, Owned, RestoresIrql, Exclusive, Held

\* The invariant is inductive.
LEMMA IInvAlways == Spec => []IInv
<1>1. ASSUME IInv, [Next]_vars PROVE IInv'
  <2>1. ASSUME NEW a \in Actors, Take(a) \/ Release(a) \/ \E l \in Locks : Acquire(a, l)
        PROVE  IInv'
    BY <1>1, <2>1, TakeKeeps, ReleaseKeeps, AcquireKeeps
  <2>2. ASSUME NEW f \in Fibers, SpinYield(f) \/ Preempt(f) PROVE IInv'
    BY <1>1, <2>2, SchedulingKeeps DEF SpinYield, Preempt
  <2>3. ASSUME NEW d \in Dispatchers, Switch(d) PROVE IInv'
    BY <1>1, <2>3, SchedulingKeeps DEF Switch
  <2>4. CASE Shutdown \/ UNCHANGED vars
    BY <1>1, <2>4, SchedulingKeeps DEF Shutdown, vars
  <2> QED
    BY <1>1, <2>1, <2>2, <2>3, <2>4 DEF Next
<1> QED
  BY <1>1, IInvInit, PTL DEF Spec

-----------------------------------------------------------------------------
\* No two actors are ever inside one lock, although a host thread uses the PCR of a
\* thread that may take locks at the same time, for any number of each
\* (xboxkrnl_threading.cc, xeKeKfAcquireSpinLock, xeKeKfReleaseSpinLock).
THEOREM LocksExclude == Spec => []Exclusive
<1>1. IInv => Exclusive
  BY DEF IInv
<1> QED
  BY <1>1, IInvAlways, PTL

\* A fiber is at DISPATCH_LEVEL exactly while it has a lock or spins for one: no release,
\* and no lock a host thread takes with its PCR, ever leaves it at the wrong IRQL
\* (xboxkrnl_threading.cc, xeKeKfAcquireSpinLock, xeKeKfReleaseSpinLock).
THEOREM IrqlComesBack == Spec => []IrqlIsOwn
<1>1. IInv => IrqlIsOwn
  BY DEF IInv, RestoresIrql, IrqlIsOwn
<1> QED
  BY <1>1, IInvAlways, PTL
-----------------------------------------------------------------------------
(***************************************************************************)
(* The guest headers, for any threads.  A mutant has at most one user: its *)
(* owner, or the call that is giving its permit back or taking it; the     *)
(* permit is there when it has none, and the header is behind by one while *)
(* that user is between its two writes.                                    *)
(*                                                                         *)
(* SyncFromGuest may free the mutant between its two looks only if the     *)
(* owner it read first cannot own it again: that thread would need a       *)
(* lookup, and the global critical region is taken.                        *)
(***************************************************************************)
Uses(t) == mOwner = t \/ mPc[t] \in {"free", "permit", "count", "own"}
Syncs(t) == mPc[t] \in {"compare", "swap"}

\* One user at a time, and the permit exactly when there is none.
OneUser ==
  /\ \A t, u \in Fibers : Uses(t) /\ Uses(u) => t = u
  /\ mPermit = IF \E t \in Fibers : Uses(t) THEN 0 ELSE 1

\* Who owns it within a call, and how often.
OwnedWithin ==
  /\ \A t \in Fibers : /\ mPc[t] \in {"bump", "abandon"} => mOwner = t
                       /\ mPc[t] \in {"free", "permit"} => mOwner # t
  /\ mOwner = None <=> mRecursion = 0

\* SyncFromGuest has the global critical region, and the owner it read has the mutant
\* still, or is done with it.
SyncInside(t) ==
  /\ mGlobalLock = t <=> Syncs(t)
  /\ Syncs(t) =>
       /\ mNext[t] \in {"release", "acquire"} /\ mSampled[t] # None
       /\ mOwner = mSampled[t] \/ mPc[mSampled[t]] \in {"idle", "free", "permit"}
  /\ mPc[t] = "swap" /\ mOwner = mSampled[t] => mReinit

\* What the header tells within the calls, unless the guest stored over an owner.
HeaderWithin ==
  ~mReinit \/ mOwner = None =>
    /\ (\A t \in Fibers : mPc[t] \notin {"bump", "free", "own", "abandon"})
         => mHeader = 1 - mRecursion
    /\ \A t \in Fibers : /\ mPc[t] \in {"bump", "free", "own"} => mHeader = 0 - mRecursion
                         /\ mPc[t] = "abandon" => mHeader = 1

\* Who stores over its own ownership goes on to free the mutant, and nobody comes between.
StoredOver ==
  mReinit /\ mOwner # None =>
    /\ Syncs(mOwner) /\ mSampled[mOwner] = mOwner /\ mHeader = 1
    /\ \A u \in Fibers \ {mOwner} : mPc[u] = "idle"

\* A hand-off skips the lookup, and an abandoned header looks like a store: neither with
\* calls by address.
Apart ==
  /\ model # "mutant" => mGlobalLock = None
  /\ model = "mutant" => \A t \in Fibers : mPc[t] # "abandon"

MutantInv ==
  /\ Mutant!TypeOK /\ OneUser /\ OwnedWithin /\ (\A t \in Fibers : SyncInside(t))
  /\ HeaderWithin /\ StoredOver /\ Apart

\* The steps that the calls by address and those by handle have in common.
LEMMA SameSteps ==
  ASSUME NEW t \in Fibers
  PROVE  /\ \A op : Handle!ByHandle(t, op) => Mutant!ByHandle(t, op)
         /\ Handle!Compare(t) => Mutant!Compare(t)
         /\ Handle!Swap(t) => Mutant!Swap(t)
         /\ Handle!ReleaseMutant(t) => Mutant!ReleaseMutant(t)
         /\ Handle!Bump(t) => Mutant!Bump(t)
         /\ Handle!Take(t) => Mutant!Take(t)
         /\ Handle!GiveUp(t) => Mutant!GiveUp(t)
         /\ Handle!WaitCallback(t) => Mutant!WaitCallback(t)
<1>1. \A op : Handle!ByHandle(t, op) => Mutant!ByHandle(t, op)
  BY DEF Handle!ByHandle, Mutant!ByHandle, Handle!LookupFree, Mutant!LookupFree,
         Handle!Goto, Mutant!Goto, Handle!kernel, Mutant!kernel
<1>2. Handle!Compare(t) => Mutant!Compare(t)
  BY DEF Handle!Compare, Mutant!Compare, Handle!LeaveSync, Mutant!LeaveSync,
         Handle!Goto, Mutant!Goto, Handle!kernel, Mutant!kernel
<1>3. Handle!Swap(t) => Mutant!Swap(t)
  BY DEF Handle!Swap, Mutant!Swap, Handle!LeaveSync, Mutant!LeaveSync, Handle!Goto,
         Mutant!Goto, Handle!StillOwned, Mutant!StillOwned
<1>4. Handle!ReleaseMutant(t) => Mutant!ReleaseMutant(t)
  BY DEF Handle!ReleaseMutant, Mutant!ReleaseMutant, Handle!NotOwned, Mutant!NotOwned,
         Handle!Goto, Mutant!Goto, Handle!Local, Mutant!Local
<1>5. Handle!Bump(t) => Mutant!Bump(t)
  BY DEF Handle!Bump, Mutant!Bump, Handle!Goto, Mutant!Goto, Handle!Local, Mutant!Local
<1>6. Handle!Take(t) => Mutant!Take(t)
  BY DEF Handle!Take, Mutant!Take, Handle!Taken, Mutant!Taken, Handle!Goto, Mutant!Goto,
         Handle!Local, Mutant!Local
<1>7. Handle!GiveUp(t) => Mutant!GiveUp(t)
  BY DEF Handle!GiveUp, Mutant!GiveUp, Handle!Goto, Mutant!Goto, Handle!Local,
         Mutant!Local, Handle!kernel, Mutant!kernel
<1>8. Handle!WaitCallback(t) => Mutant!WaitCallback(t)
  BY DEF Handle!WaitCallback, Mutant!WaitCallback, Handle!HeaderFirst, Mutant!HeaderFirst,
         Handle!Goto, Mutant!Goto, Handle!Local, Mutant!Local
<1> QED
  BY <1>1, <1>2, <1>3, <1>4, <1>5, <1>6, <1>7, <1>8

\* A lookup, with the guest's store before it or not.
LEMMA LookupKeeps ==
  ASSUME MutantInv, UNCHANGED model, NEW t \in Fibers, NEW op \in {"release", "acquire"},
         Mutant!ByAddress(t, op) \/ Mutant!ByHandle(t, op) \/ Mutant!Store(t),
         model # "mutant" => Mutant!ByHandle(t, op)
  PROVE  MutantInv'
<1> USE DEF MutantInv, Mutant!TypeOK, Mutant!Steps
<1>0. /\ None \notin Fibers /\ mPc[t] = "idle" /\ mGlobalLock = None
      /\ UNCHANGED <<mOwner, mRecursion, mPermit>> /\ mPc' = [mPc EXCEPT ![t] = mPc'[t]]
      /\ mPc'[t] \in {"compare", "release", "acquire"}
      /\ mPc'[t] = "compare" => mOwner # None /\ mSampled'[t] = mOwner /\ model = "mutant"
                                /\ mNext'[t] \in {"release", "acquire"}
      /\ mGlobalLock' = IF mPc'[t] = "compare" THEN t ELSE None
      /\ \A u \in Fibers \ {t} : mSampled'[u] = mSampled[u] /\ mNext'[u] = mNext[u]
      /\ \/ UNCHANGED <<mHeader, mReinit>>
         \/ /\ \A u \in Fibers : mPc[u] = "idle"
            /\ mOwner \in {t, None} /\ mHeader' = 1 /\ mReinit' = TRUE
            /\ mOwner = t => mPc'[t] = "compare"
  BY HeadersOK DEF Mutant!ByAddress, Mutant!ByHandle, Mutant!Store, Mutant!Sync, Mutant!Goto,
         Mutant!kernel, Mutant!LookupFree, Mutant!Quiet, Mutant!MutantAssumption
<1>1. Mutant!TypeOK'
  <2>1. mSampled' \in [Fibers -> Fibers \cup {None}] /\ mNext' \in [Fibers -> Mutant!Steps]
    BY DEF Mutant!ByAddress, Mutant!ByHandle, Mutant!Store, Mutant!Sync
  <2>2. mHeader' \in Int
    BY <1>0
  <2>3. mPc' \in [Fibers -> Mutant!Steps] /\ mGlobalLock' \in Fibers \cup {None}
    BY <1>0
  <2>4. mOwner' \in Fibers \cup {None} /\ mRecursion' \in Nat /\ mPermit' \in Nat
    BY <1>0
  <2>5. mReinit' \in BOOLEAN
    BY Zenon DEF Mutant!ByAddress, Mutant!ByHandle, Mutant!Store, Mutant!kernel
  <2> QED
    BY <2>1, <2>2, <2>3, <2>4, <2>5
<1>2. \A u \in Fibers : Uses(u)' <=> Uses(u)
  BY <1>0 DEF Uses
<1>3. OneUser'
  BY <1>0, <1>2 DEF OneUser
<1>4. OwnedWithin'
  BY <1>0 DEF OwnedWithin
<1>5. \A u \in Fibers : SyncInside(u)'
  BY <1>0 DEF SyncInside, Syncs
<1>6. HeaderWithin'
  BY <1>0 DEF HeaderWithin, OwnedWithin
<1>7. StoredOver'
  <2>1. mOwner # None => ~Syncs(mOwner)
    BY <1>0 DEF SyncInside
  <2>2. CASE UNCHANGED <<mHeader, mReinit>>
    BY <1>0, <2>1, <2>2 DEF StoredOver
  <2>3. CASE \A u \in Fibers : mPc[u] = "idle"
    <3> SUFFICES ASSUME mOwner = t, mPc'[t] = "compare", mHeader' = 1 PROVE StoredOver'
      BY <1>0, <2>2, <2>3 DEF StoredOver
    <3> QED
      BY <1>0, <2>3 DEF StoredOver, Syncs
  <2> QED
    BY <1>0, <2>2, <2>3
<1> QED
  BY <1>0, <1>1, <1>3, <1>4, <1>5, <1>6, <1>7 DEF Apart

\* The first look of SyncFromGuest: the owner it read is not done with the mutant only if
\* the guest stored.
LEMMA CompareKeeps ==
  ASSUME MutantInv, UNCHANGED model, NEW t \in Fibers, Mutant!Compare(t)
  PROVE  MutantInv'
<1> USE DEF MutantInv, Mutant!TypeOK, Mutant!Steps
<1>0. /\ None \notin Fibers /\ mPc[t] = "compare" /\ mGlobalLock = t
      /\ UNCHANGED <<mOwner, mRecursion, mPermit, mHeader, mReinit, mNext, mSampled>>
      /\ mPc' = [mPc EXCEPT ![t] = mPc'[t]]
      /\ \/ mHeader < 1 /\ mPc'[t] = mNext[t] /\ mGlobalLock' = None
         \/ mHeader >= 1 /\ mPc'[t] = "swap" /\ mGlobalLock' = t
      /\ mNext[t] \in {"release", "acquire"}
  BY HeadersOK DEF Mutant!Compare, Mutant!Goto, Mutant!LeaveSync, Mutant!kernel,
     Mutant!MutantAssumption, SyncInside, Syncs
<1>1. Mutant!TypeOK'
  BY <1>0
<1>2. \A u \in Fibers : Uses(u)' <=> Uses(u)
  BY <1>0 DEF Uses
<1>3. OneUser'
  BY <1>0, <1>2 DEF OneUser
<1>4. OwnedWithin'
  BY <1>0 DEF OwnedWithin
<1>5. \A u \in Fibers : SyncInside(u)'
  <2>1. mHeader >= 1 /\ mOwner = mSampled[t] => mReinit
    <3> SUFFICES ASSUME mHeader >= 1, mOwner = mSampled[t], ~mReinit PROVE FALSE
      OBVIOUS
    <3>1. mOwner \in Fibers /\ mOwner # None /\ mRecursion # 0
      BY <1>0 DEF SyncInside, Syncs, OwnedWithin
    <3>2. \A u \in Fibers : mPc[u] \in {"bump", "free", "own", "abandon"} => u = mOwner
      BY <3>1 DEF OneUser, Uses, OwnedWithin
    <3>3. mPc[mOwner] # "abandon"
      BY <1>0, <3>1 DEF Apart
    <3> QED
      BY <3>1, <3>2, <3>3 DEF HeaderWithin
  <2>2. mSampled[t] \in Fibers /\ mSampled[t] # None
    BY <1>0 DEF SyncInside, Syncs
  <2>3. mOwner = mSampled[t] \/ mSampled[t] # t
    BY <1>0 DEF SyncInside, Syncs
  <2>4. \A u \in Fibers : mGlobalLock' = u <=> Syncs(u)'
    BY <1>0 DEF SyncInside, Syncs
  <2> QED
    BY <1>0, <2>1, <2>2, <2>3, <2>4 DEF SyncInside, Syncs
<1>6. HeaderWithin'
  BY <1>0 DEF HeaderWithin
<1>7. StoredOver'
  BY <1>0 DEF StoredOver, Syncs
<1> QED
  BY <1>0, <1>1, <1>3, <1>4, <1>5, <1>6, <1>7 DEF Apart

\* The second: it frees the mutant only after a store, and then the mutant is like new.
LEMMA SwapKeeps ==
  ASSUME MutantInv, UNCHANGED model, NEW t \in Fibers, Mutant!Swap(t)
  PROVE  MutantInv' /\ (mOwner' # mOwner => mReinit)
<1> USE DEF MutantInv, Mutant!TypeOK, Mutant!Steps
<1>0. /\ None \notin Fibers /\ mPc[t] = "swap" /\ mGlobalLock = t
      /\ UNCHANGED <<mHeader, mReinit, mNext, mSampled>>
      /\ mPc' = [mPc EXCEPT ![t] = mPc'[t]] /\ mPc'[t] = mNext[t]
      /\ mGlobalLock' = None /\ mNext[t] \in {"release", "acquire"}
      /\ IF mOwner = mSampled[t]
         THEN mOwner' = None /\ mRecursion' = 0 /\ mPermit' = mPermit + 1
         ELSE UNCHANGED <<mOwner, mRecursion, mPermit>>
      /\ \A u \in Fibers : Syncs(u) => u = t
  BY HeadersOK DEF Mutant!Swap, Mutant!Goto, Mutant!LeaveSync, Mutant!StillOwned,
     Mutant!MutantAssumption, SyncInside, Syncs
<1>1. Mutant!TypeOK'
  BY <1>0
<1>2. \A u \in Fibers : SyncInside(u)'
  BY <1>0 DEF SyncInside, Syncs
<1>3. OneUser' /\ OwnedWithin' /\ HeaderWithin' /\ StoredOver'
  <2>1. CASE mOwner = mSampled[t]
    <3>1. mReinit /\ mOwner # None
      BY <1>0, <2>1 DEF SyncInside, Syncs
    <3>2. mOwner = t /\ mHeader = 1 /\ \A u \in Fibers \ {t} : mPc[u] = "idle"
      BY <1>0, <3>1 DEF StoredOver
    <3>3. \A u \in Fibers : ~Uses(u)' /\ mPc'[u] \in {"idle", "release", "acquire"}
      BY <1>0, <2>1, <3>2 DEF Uses
    <3>4. mPermit = 0
      BY <3>2 DEF OneUser, Uses
    <3> QED
      BY <1>0, <2>1, <3>2, <3>3, <3>4 DEF OneUser, OwnedWithin, HeaderWithin, StoredOver
  <2>2. CASE mOwner # mSampled[t]
    <3>1. \A u \in Fibers : Uses(u)' <=> Uses(u)
      BY <1>0, <2>2 DEF Uses
    <3>2. OneUser' /\ OwnedWithin' /\ HeaderWithin'
      BY <1>0, <2>2, <3>1 DEF OneUser, OwnedWithin, HeaderWithin
    <3>3. StoredOver'
      BY <1>0, <2>2 DEF StoredOver
    <3> QED
      BY <3>2, <3>3
  <2> QED
    BY <2>1, <2>2
<1> QED
  BY <1>0, <1>1, <1>2, <1>3 DEF Apart, SyncInside

\* ReleaseMutant by its owner, and by anybody else, who is refused.
LEMMA ReleaseMutantKeeps ==
  ASSUME MutantInv, UNCHANGED model, NEW t \in Fibers, Mutant!ReleaseMutant(t)
  PROVE  MutantInv'
<1> USE DEF MutantInv, Mutant!TypeOK, Mutant!Steps
<1>0. /\ None \notin Fibers /\ mPc[t] = "release"
      /\ UNCHANGED <<mPermit, mHeader, mReinit, mGlobalLock, mNext, mSampled>>
      /\ mPc' = [mPc EXCEPT ![t] = mPc'[t]]
      /\ IF mOwner # t THEN mPc'[t] = "idle" /\ UNCHANGED <<mOwner, mRecursion>>
         ELSE /\ mRecursion # 0 /\ mRecursion' = mRecursion - 1
              /\ mOwner' = IF mRecursion = 1 THEN None ELSE t
              /\ mPc'[t] = IF mRecursion = 1 THEN "free" ELSE "bump"
  BY HeadersOK DEF Mutant!ReleaseMutant, Mutant!Goto, Mutant!NotOwned, Mutant!Local,
     Mutant!MutantAssumption, OwnedWithin
<1>1. Mutant!TypeOK'
  BY <1>0
<1>2. \A u \in Fibers : Uses(u)' <=> Uses(u)
  <2>1. mOwner = t => \A u \in Fibers \ {t} : ~Uses(u)
    BY <1>0 DEF OneUser, Uses
  <2> QED
    BY <1>0, <2>1 DEF Uses
<1>3. OneUser'
  BY <1>0, <1>2 DEF OneUser
<1>4. OwnedWithin'
  <2>1. mOwner = t => \A u \in Fibers \ {t} : ~Uses(u)
    BY <1>0 DEF OneUser, Uses
  <2> QED
    BY <1>0, <2>1 DEF OwnedWithin, Uses
<1>5. \A u \in Fibers : SyncInside(u)'
  <2> SUFFICES ASSUME NEW u \in Fibers PROVE SyncInside(u)'
    OBVIOUS
  <2>1. SyncInside(u) /\ (Syncs(u)' <=> Syncs(u)) /\ (mPc'[u] = "swap" <=> mPc[u] = "swap")
    BY <1>0 DEF Syncs
  <2>2. Syncs(u) => mSampled[u] \in Fibers /\ mSampled[u] # None
    BY <2>1 DEF SyncInside
  <2> QED
    BY <1>0, <2>1, <2>2 DEF SyncInside, Syncs
<1>6. HeaderWithin' /\ StoredOver'
  <2>1. mReinit => mOwner = None
    BY <1>0 DEF StoredOver, Syncs
  <2>2. mOwner = t => \A u \in Fibers \ {t} : mPc[u] \notin {"bump", "free", "own", "abandon"}
    BY <1>0 DEF OneUser, OwnedWithin, Uses
  <2>3. HeaderWithin'
    BY <1>0, <2>1, <2>2 DEF HeaderWithin
  <2> QED
    BY <1>0, <2>1, <2>3 DEF StoredOver
<1> QED
  BY <1>0, <1>1, <1>3, <1>4, <1>5, <1>6 DEF Apart

\* The header follows the release.
LEMMA BumpKeeps ==
  ASSUME MutantInv, UNCHANGED model, NEW t \in Fibers, Mutant!Bump(t)
  PROVE  MutantInv'
<1> USE DEF MutantInv, Mutant!TypeOK, Mutant!Steps
<1>0. /\ None \notin Fibers /\ mPc[t] \in {"bump", "free"} /\ mHeader' = mHeader + 1
      /\ UNCHANGED <<mOwner, mRecursion, mPermit, mReinit, mGlobalLock, mNext, mSampled>>
      /\ mPc' = [mPc EXCEPT ![t] = mPc'[t]]
      /\ mPc'[t] = IF mPc[t] = "free" THEN "permit" ELSE "idle"
  BY HeadersOK DEF Mutant!Bump, Mutant!Goto, Mutant!Local, Mutant!MutantAssumption
<1>1. Mutant!TypeOK'
  BY <1>0
<1>2. \A u \in Fibers : Uses(u)' <=> Uses(u)
  BY <1>0 DEF Uses, OwnedWithin
<1>3. OneUser'
  BY <1>0, <1>2 DEF OneUser
<1>4. OwnedWithin'
  BY <1>0 DEF OwnedWithin
<1>5. \A u \in Fibers : SyncInside(u)'
  BY <1>0 DEF SyncInside, Syncs
<1>6. HeaderWithin' /\ StoredOver'
  <2>1. mReinit => mOwner = None
    BY <1>0 DEF StoredOver, Syncs
  <2>2. \A u \in Fibers \ {t} : mPc[u] \notin {"bump", "free", "own", "abandon"}
    BY <1>0 DEF OneUser, OwnedWithin, Uses
  <2>3. HeaderWithin'
    BY <1>0, <2>1, <2>2 DEF HeaderWithin
  <2> QED
    BY <1>0, <2>1, <2>3 DEF StoredOver
<1> QED
  BY <1>0, <1>1, <1>3, <1>4, <1>5, <1>6 DEF Apart

\* The permit comes back; a hand-off goes on to wait, where nobody looks by address.
LEMMA FreeKeeps ==
  ASSUME MutantInv, UNCHANGED model, NEW t \in Fibers,
         Mutant!Free(t) \/ (model # "mutant" /\ Handle!Free(t))
  PROVE  MutantInv'
<1> USE DEF MutantInv, Mutant!TypeOK, Mutant!Steps
<1>0. /\ None \notin Fibers /\ mPc[t] = "permit" /\ mPermit' = mPermit + 1
      /\ UNCHANGED <<mOwner, mRecursion, mHeader, mReinit, mGlobalLock, mNext, mSampled>>
      /\ mPc' = [mPc EXCEPT ![t] = mPc'[t]]
      /\ mPc'[t] = "idle" \/ (mPc'[t] = "acquire" /\ model # "mutant")
  BY HeadersOK DEF Mutant!Free, Mutant!Goto, Mutant!Local, Handle!Free, Handle!Goto,
     Handle!Local, Mutant!MutantAssumption
<1>1. Mutant!TypeOK'
  BY <1>0
<1>2. \A u \in Fibers : ~Uses(u)' /\ mPermit = 0
  BY <1>0 DEF OneUser, OwnedWithin, Uses
<1>3. OneUser'
  BY <1>0, <1>2 DEF OneUser
<1>4. OwnedWithin'
  BY <1>0 DEF OwnedWithin
<1>5. \A u \in Fibers : SyncInside(u)'
  BY <1>0 DEF SyncInside, Syncs, Apart
<1>6. HeaderWithin' /\ StoredOver'
  <2>1. mOwner = None
    BY <1>0 DEF OneUser, OwnedWithin, Uses
  <2> QED
    BY <1>0, <2>1 DEF HeaderWithin, StoredOver
<1> QED
  BY <1>0, <1>1, <1>3, <1>4, <1>5, <1>6 DEF Apart

\* A wait takes the permit, or none if it owns the mutant; or it gives up.
LEMMA TakeOrGiveUpKeeps ==
  ASSUME MutantInv, UNCHANGED model, NEW t \in Fibers, Mutant!Take(t) \/ Mutant!GiveUp(t)
  PROVE  MutantInv'
<1> USE DEF MutantInv, Mutant!TypeOK, Mutant!Steps
<1>0. /\ None \notin Fibers /\ mPc[t] = "acquire"
      /\ UNCHANGED <<mOwner, mRecursion, mHeader, mReinit, mGlobalLock, mNext, mSampled>>
      /\ mPc' = [mPc EXCEPT ![t] = mPc'[t]]
      /\ \/ mPc'[t] = "idle" /\ mPermit' = mPermit
         \/ mPc'[t] = "count" /\ mOwner = t /\ mPermit' = mPermit
         \/ mPc'[t] = "count" /\ mOwner # t /\ mPermit > 0 /\ mPermit' = mPermit - 1
  BY HeadersOK DEF Mutant!Take, Mutant!GiveUp, Mutant!Taken, Mutant!Goto, Mutant!Local,
     Mutant!kernel, Mutant!MutantAssumption
<1>1. Mutant!TypeOK'
  BY <1>0
<1>2. OneUser'
  <2>1. CASE mPermit' = mPermit
    <3>1. \A u \in Fibers : Uses(u)' <=> Uses(u)
      BY <1>0, <2>1 DEF Uses
    <3> QED
      BY <1>0, <2>1, <3>1 DEF OneUser
  <2>2. CASE mPc'[t] = "count" /\ mOwner # t /\ mPermit > 0 /\ mPermit' = mPermit - 1
    <3>1. \A u \in Fibers : ~Uses(u)
      BY <2>2 DEF OneUser
    <3>2. \A u \in Fibers : Uses(u)' <=> u = t
      BY <1>0, <2>2, <3>1 DEF Uses
    <3>3. mPermit = 1
      BY <3>1 DEF OneUser
    <3> QED
      BY <2>2, <3>2, <3>3 DEF OneUser
  <2> QED
    BY <1>0, <2>1, <2>2
<1>3. OwnedWithin'
  BY <1>0 DEF OwnedWithin
<1>4. \A u \in Fibers : SyncInside(u)'
  <2> SUFFICES ASSUME NEW u \in Fibers PROVE SyncInside(u)'
    OBVIOUS
  <2>1. SyncInside(u) /\ (Syncs(u)' <=> Syncs(u)) /\ (mPc'[u] = "swap" <=> mPc[u] = "swap")
    BY <1>0 DEF Syncs
  <2>2. Syncs(u) => mSampled[u] \in Fibers /\ mSampled[u] # None
    BY <2>1 DEF SyncInside
  <2> QED
    BY <1>0, <2>1, <2>2 DEF SyncInside
<1>5. HeaderWithin'
  BY <1>0 DEF HeaderWithin
<1>6. StoredOver'
  BY <1>0 DEF StoredOver, Syncs
<1> QED
  BY <1>0, <1>1, <1>2, <1>3, <1>4, <1>5, <1>6 DEF Apart

\* WaitCallback: the header first, then the owner.
LEMMA WaitCallbackKeeps ==
  ASSUME MutantInv, UNCHANGED model, NEW t \in Fibers, Mutant!WaitCallback(t)
  PROVE  MutantInv'
<1> USE DEF MutantInv, Mutant!TypeOK, Mutant!Steps
<1>0. /\ None \notin Fibers /\ UNCHANGED <<mPermit, mGlobalLock, mNext, mSampled>>
      /\ mPc' = [mPc EXCEPT ![t] = mPc'[t]]
      /\ \/ /\ mPc[t] = "count" /\ mPc'[t] = "own" /\ mHeader' = mHeader - 1
            /\ UNCHANGED <<mOwner, mRecursion, mReinit>>
         \/ /\ mPc[t] = "own" /\ mPc'[t] = "idle" /\ mHeader' = mHeader /\ mOwner' = t
            /\ mRecursion' = (IF mOwner = t THEN mRecursion + 1 ELSE 1)
            /\ mReinit' = (mOwner = t /\ mReinit)
  BY HeadersOK DEF Mutant!WaitCallback, Mutant!HeaderFirst, Mutant!Goto, Mutant!Local,
     Mutant!MutantAssumption
<1>1. mOwner \in {t, None} /\ \A u \in Fibers \ {t} : ~Uses(u)
  BY <1>0 DEF OneUser, Uses
<1>2. mReinit => mOwner = None
  BY <1>0 DEF StoredOver, Syncs
<1>3. Mutant!TypeOK'
  <2>1. mReinit' \in BOOLEAN
    BY <1>0
  <2> QED
    BY <1>0, <2>1
<1>4. OneUser'
  <2>1. \A u \in Fibers : Uses(u)' <=> Uses(u)
    BY <1>0, <1>1 DEF Uses
  <2> QED
    BY <1>0, <2>1 DEF OneUser
<1>5. OwnedWithin'
  BY <1>0, <1>1 DEF OwnedWithin, Uses
<1>6. \A u \in Fibers : SyncInside(u)'
  <2> SUFFICES ASSUME NEW u \in Fibers PROVE SyncInside(u)'
    OBVIOUS
  <2>1. SyncInside(u) /\ (Syncs(u)' <=> Syncs(u)) /\ (mPc'[u] = "swap" <=> mPc[u] = "swap")
    BY <1>0 DEF Syncs
  <2>2. Syncs(u) => /\ mSampled[u] \in Fibers /\ mSampled[u] # None
                    /\ mOwner # mSampled[u] => mSampled[u] # t
    BY <1>0, <2>1 DEF SyncInside
  <2>3. CASE mPc[t] = "count"
    BY <1>0, <2>1, <2>2, <2>3 DEF SyncInside
  <2>4. CASE mPc[t] = "own" /\ mOwner = t
    BY <1>0, <1>2, <2>1, <2>2, <2>4 DEF SyncInside
  <2>5. CASE mPc[t] = "own" /\ mOwner = None
    <3>1. Syncs(u) => mSampled[u] # t /\ mPc'[mSampled[u]] = mPc[mSampled[u]]
      BY <1>0, <2>2, <2>5
    <3>2. mOwner' = t /\ mGlobalLock' = mGlobalLock /\ mSampled'[u] = mSampled[u]
          /\ mNext'[u] = mNext[u]
      BY <1>0, <2>5
    <3> QED
      BY <2>1, <2>2, <2>5, <3>1, <3>2 DEF SyncInside, Syncs
  <2> QED
    BY <1>0, <1>1, <2>3, <2>4, <2>5
<1>7. HeaderWithin'
  <2>1. \A u \in Fibers \ {t} : mPc[u] \notin {"bump", "free", "own", "abandon"}
    BY <1>0, <1>1 DEF OwnedWithin, Uses
  <2> QED
    BY <1>0, <1>1, <1>2, <2>1 DEF HeaderWithin, OwnedWithin
<1>8. StoredOver'
  BY <1>0, <1>2 DEF StoredOver
<1> QED
  BY <1>0, <1>3, <1>4, <1>5, <1>6, <1>7, <1>8 DEF Apart

\* A thread that exits frees what it owns: first the header, then the owner.
LEMMA AbandonKeeps ==
  ASSUME MutantInv, UNCHANGED model, model # "mutant", NEW t \in Fibers,
         Handle!Abandon(t) \/ Handle!Disown(t)
  PROVE  MutantInv'
<1> USE DEF MutantInv, Mutant!TypeOK, Mutant!Steps
<1>0. /\ None \notin Fibers /\ UNCHANGED <<mReinit, mGlobalLock, mNext, mSampled>>
      /\ mPc' = [mPc EXCEPT ![t] = mPc'[t]] /\ mOwner = t
      /\ \/ /\ mPc[t] = "idle" /\ mPc'[t] = "abandon" /\ mHeader' = 1
            /\ UNCHANGED <<mOwner, mRecursion, mPermit>>
         \/ /\ mPc[t] = "abandon" /\ mPc'[t] = "idle" /\ mHeader' = mHeader
            /\ mOwner' = None /\ mRecursion' = 0 /\ mPermit' = mPermit + 1
  BY HeadersOK DEF Handle!Abandon, Handle!Disown, Handle!Goto, Handle!Local,
     Mutant!MutantAssumption, OwnedWithin
<1>1. mPermit = 0 /\ \A u \in Fibers \ {t} : ~Uses(u)
  BY <1>0 DEF OneUser, Uses
<1>2. ~mReinit /\ \A u \in Fibers : ~Syncs(u)
  BY <1>0 DEF StoredOver, SyncInside, Apart
<1>3. Mutant!TypeOK'
  BY <1>0
<1>4. OneUser'
  BY <1>0, <1>1 DEF OneUser, Uses
<1>5. OwnedWithin'
  BY <1>0, <1>1 DEF OwnedWithin, Uses
<1>6. \A u \in Fibers : SyncInside(u)'
  BY <1>0, <1>2 DEF SyncInside, Syncs
<1>7. HeaderWithin'
  <2>1. \A u \in Fibers \ {t} : mPc[u] \notin {"bump", "free", "own", "abandon"}
    BY <1>0, <1>1 DEF OwnedWithin, Uses
  <2> QED
    BY <1>0, <1>2, <2>1 DEF HeaderWithin
<1>8. StoredOver'
  BY <1>0, <1>2 DEF StoredOver
<1> QED
  BY <1>0, <1>3, <1>4, <1>5, <1>6, <1>7, <1>8 DEF Apart

\* Every step of a mutant keeps the invariant.
LEMMA MutantStepKeeps ==
  ASSUME MutantInv, UNCHANGED model,
         (model = "mutant" /\ Mutant!Next) \/ (model = "handle" /\ Handle!Next)
  PROVE  MutantInv'
<1>1. CASE model = "mutant" /\ Mutant!Next
  <2> PICK t \in Fibers :
        \/ \E op \in {"release", "acquire"} : Mutant!ByAddress(t, op) \/ Mutant!ByHandle(t, op)
        \/ Mutant!Store(t) \/ Mutant!Compare(t) \/ Mutant!Swap(t)
        \/ Mutant!ReleaseMutant(t) \/ Mutant!Bump(t) \/ Mutant!Free(t)
        \/ Mutant!Take(t) \/ Mutant!GiveUp(t) \/ Mutant!WaitCallback(t)
    BY <1>1 DEF Mutant!Next, Mutant!Abandon, Mutant!Disown, MutantInv, Apart
  <2>1. CASE \E op \in {"release", "acquire"} :
               Mutant!ByAddress(t, op) \/ Mutant!ByHandle(t, op)
    BY <1>1, <2>1, LookupKeeps
  <2>2. CASE Mutant!Store(t)
    BY <1>1, <2>2, LookupKeeps
  <2> QED
    BY <1>1, <2>1, <2>2, CompareKeeps, SwapKeeps, ReleaseMutantKeeps, BumpKeeps, FreeKeeps,
       TakeOrGiveUpKeeps, WaitCallbackKeeps
<1>2. CASE model = "handle" /\ Handle!Next
  <2> PICK t \in Fibers :
        \/ \E op \in {"release", "acquire"} : Handle!ByHandle(t, op)
        \/ Handle!Compare(t) \/ Handle!Swap(t)
        \/ Handle!ReleaseMutant(t) \/ Handle!Bump(t) \/ Handle!Free(t)
        \/ Handle!Take(t) \/ Handle!GiveUp(t) \/ Handle!WaitCallback(t)
        \/ Handle!Abandon(t) \/ Handle!Disown(t)
    BY <1>2 DEF Handle!Next, Handle!ByAddress, Handle!Store
  <2>1. CASE \E op \in {"release", "acquire"} : Handle!ByHandle(t, op)
    BY <1>2, <2>1, SameSteps, LookupKeeps
  <2>2. CASE Handle!Free(t) \/ Handle!Abandon(t) \/ Handle!Disown(t)
    BY <1>2, <2>2, FreeKeeps, AbandonKeeps
  <2> QED
    BY <1>2, <2>1, <2>2, SameSteps, CompareKeeps, SwapKeeps, ReleaseMutantKeeps, BumpKeeps,
       TakeOrGiveUpKeeps, WaitCallbackKeeps
<1> QED
  BY <1>1, <1>2

-----------------------------------------------------------------------------
\* The instances of the header modules count as this module does.
LEMMA CountedAlike ==
  ASSUME NEW S
  PROVE  /\ Semaphore!IsFiniteSet(S) <=> IsFiniteSet(S)
         /\ Semaphore!Cardinality(S) = Cardinality(S)
         /\ Mutant!Cardinality(S) = Cardinality(S)
<1>1. Semaphore!IsFiniteSet(S) <=> IsFiniteSet(S)
  BY DEF Semaphore!IsFiniteSet, IsFiniteSet
<1>2. Semaphore!Cardinality(S) = Cardinality(S)
  BY DEF Semaphore!Cardinality, Cardinality
<1>3. Mutant!Cardinality(S) = Cardinality(S)
  BY DEF Mutant!Cardinality, Cardinality
<1> QED
  BY <1>1, <1>2, <1>3

\* The mirror of a semaphore is exact with every step, also where SyncFromGuest reconciles
\* what the guest stored while waits were between their poll and their WaitCallback.
LEMMA SemaphoreStepKeeps ==
  ASSUME Semaphore!TypeOK, Semaphore!CountExact, Semaphore!Next
  PROVE  Semaphore!TypeOK' /\ Semaphore!CountExact'
<1> DEFINE Exact(taken) == sHost' = sCount' + Cardinality(taken)
           Ranges == /\ sCount' \in 0..2 /\ sHost' \in Int /\ sHeader' \in Int
                     /\ sTaken' \subseteq Fibers /\ Exact(sTaken')
<1> USE DEF Semaphore!Event
<1>0. /\ sCount \in 0..2 /\ sHost \in Int /\ sHeader \in Int /\ sTaken \subseteq Fibers
      /\ sHost = sCount + Cardinality(sTaken) /\ IsFiniteSet(sTaken)
      /\ Cardinality(sTaken) \in Nat
  <2>1. IsFiniteSet(Fibers)
    BY HeadersOK, CountedAlike DEF Semaphore!HeaderAssumption
  <2> QED
    BY <2>1, FS_Subset, FS_CardinalityType, CountedAlike
       DEF Semaphore!TypeOK, Semaphore!CountExact
<1>1. ASSUME Semaphore!Store PROVE Ranges
  BY <1>0, <1>1 DEF Semaphore!Store
<1>2. ASSUME Semaphore!SyncFromGuest PROVE Ranges
  <2>1. sTaken' = sTaken
    BY <1>2 DEF Semaphore!SyncFromGuest
  <2>2. CASE sHeader > sHost
    BY <1>0, <1>2, <2>1, <2>2
       DEF Semaphore!SyncFromGuest, Semaphore!SyncSemaphore, Semaphore!GuestAdds
  <2>3. CASE sHeader < sHost
    <3> DEFINE n == Semaphore!Drained(sHost - sHeader)
    <3>1. n \in 0..sCount
      BY <1>0, <2>3 DEF Semaphore!Drained
    <3>2. /\ sCount' = IF n < sCount THEN sCount - n ELSE 0
          /\ sHost' = sHost - n /\ sHeader' = sHost'
      BY <1>0, <1>2, <2>3
         DEF Semaphore!SyncFromGuest, Semaphore!SyncSemaphore, Semaphore!GuestTakes
    <3> HIDE DEF n
    <3> QED
      BY <1>0, <2>1, <3>1, <3>2
  <2>4. CASE sHeader = sHost
    BY <1>0, <1>2, <2>1, <2>4 DEF Semaphore!SyncFromGuest, Semaphore!SyncSemaphore
  <2> QED
    BY <1>0, <2>2, <2>3, <2>4
<1>3. ~(Semaphore!Set \/ Semaphore!Reset \/ Semaphore!Pulse)
  BY DEF Semaphore!Set, Semaphore!Reset, Semaphore!Pulse
<1>4. ASSUME NEW n \in 1..2, Semaphore!ReleaseSemaphore(n) PROVE Ranges
  BY <1>0, <1>4 DEF Semaphore!ReleaseSemaphore, Semaphore!WithinLimit
<1>5. ASSUME NEW t \in Fibers, Semaphore!Poll(t) PROVE Ranges
  <2>1. Cardinality(sTaken \cup {t}) = Cardinality(sTaken) + 1
    BY <1>0, <1>5, FS_AddElement DEF Semaphore!Poll
  <2> QED
    BY <1>0, <1>5, <2>1 DEF Semaphore!Poll
<1>6. ASSUME NEW t \in Fibers, Semaphore!WaitCallback(t) PROVE Ranges
  <2>1. Cardinality(sTaken \ {t}) = Cardinality(sTaken) - 1
    BY <1>0, <1>6, FS_RemoveElement DEF Semaphore!WaitCallback
  <2> QED
    BY <1>0, <1>6, <2>1 DEF Semaphore!WaitCallback, Semaphore!AfterTake
<1>7. Ranges
  BY <1>1, <1>2, <1>3, <1>4, <1>5, <1>6 DEF Semaphore!Next
<1>8. sStored' \in BOOLEAN
  BY Zenon DEF Semaphore!TypeOK, Semaphore!Next, Semaphore!Store, Semaphore!SyncFromGuest,
     Semaphore!Set, Semaphore!Reset, Semaphore!Pulse, Semaphore!Become,
     Semaphore!ReleaseSemaphore, Semaphore!Poll, Semaphore!WaitCallback
<1> QED
  BY <1>7, <1>8, CountedAlike DEF Semaphore!TypeOK, Semaphore!CountExact

\* An event that the kernel calls signaled is, with every step, or a wait has it.
LEMMA EventStepKeeps ==
  ASSUME Event!TypeOK, Event!SignaledIsSo, Event!Next
  PROVE  Event!TypeOK' /\ Event!SignaledIsSo'
<1> DEFINE Ranges == /\ sCount' \in 0..1 /\ sHost' \in Int /\ sHeader' \in Int
                     /\ sTaken' \subseteq Fibers
                     /\ sHost' = 1 => sCount' = 1 \/ sTaken' # {}
<1> USE DEF Event!Event, Event!Become
<1>0. /\ sCount \in 0..1 /\ sHost \in Int /\ sHeader \in Int /\ sTaken \subseteq Fibers
      /\ sHost = 1 => sCount = 1 \/ sTaken # {}
  BY DEF Event!TypeOK, Event!SignaledIsSo
<1>1. ASSUME Event!Store PROVE Ranges
  BY <1>0, <1>1 DEF Event!Store
<1>2. ASSUME Event!SyncFromGuest PROVE Ranges
  BY <1>0, <1>2 DEF Event!SyncFromGuest, Event!SyncEvent
<1>3. ASSUME Event!Set \/ Event!Reset \/ Event!Pulse PROVE Ranges
  BY <1>0, <1>3 DEF Event!Set, Event!Reset, Event!Pulse
<1>4. ASSUME NEW n \in 1..1, Event!ReleaseSemaphore(n) PROVE FALSE
  BY <1>4 DEF Event!ReleaseSemaphore
<1>5. ASSUME NEW t \in Fibers, Event!Poll(t) PROVE Ranges
  BY <1>0, <1>5 DEF Event!Poll
<1>6. ASSUME NEW t \in Fibers, Event!WaitCallback(t) PROVE Ranges
  BY <1>0, <1>6 DEF Event!WaitCallback, Event!AfterTake
<1>7. Ranges
  BY <1>1, <1>2, <1>3, <1>4, <1>5, <1>6 DEF Event!Next
<1>8. sStored' \in BOOLEAN
  BY Zenon DEF Event!TypeOK, Event!Next, Event!Store, Event!SyncFromGuest, Event!Set,
     Event!Reset, Event!Pulse, Event!ReleaseSemaphore, Event!Poll, Event!WaitCallback
<1> QED
  BY <1>7, <1>8 DEF Event!TypeOK, Event!SignaledIsSo

\* The invariant of all the headers; the other models leave theirs alone.
HeadersInv ==
  /\ MutantInv
  /\ model = "semaphore" => Semaphore!TypeOK /\ Semaphore!CountExact
  /\ model = "event" => Event!TypeOK /\ Event!SignaledIsSo

\* It holds at first, with either signal of the primitive.
LEMMA HeadersInit ==
  ASSUME MCInit PROVE HeadersInv
<1>0. /\ sCount \in {0, 1} /\ sHost = sCount /\ sHeader = sCount /\ sTaken = {}
  BY DEF MCInit, Event!Init
<1>1. sStored \in BOOLEAN
  BY Zenon DEF MCInit, Event!Init
<1>2. Event!TypeOK /\ Event!SignaledIsSo
  BY <1>0, <1>1 DEF Event!TypeOK, Event!SignaledIsSo
<1>3. Semaphore!TypeOK /\ Semaphore!CountExact
  BY <1>0, <1>1, FS_EmptySet, CountedAlike DEF Semaphore!TypeOK, Semaphore!CountExact
<1>4. MutantInv
  <2>1. mReinit \in BOOLEAN
    BY Zenon DEF MCInit, Mutant!Init
  <2>2. /\ mOwner = None /\ mRecursion = 0 /\ mPermit = 1 /\ mHeader = 1 /\ None \notin Fibers
        /\ mGlobalLock = None /\ mPc = [t \in Fibers |-> "idle"]
        /\ mNext = [t \in Fibers |-> "idle"] /\ mSampled = [t \in Fibers |-> None]
    BY HeadersOK DEF MCInit, Mutant!Init, Mutant!MutantAssumption
  <2> QED
    BY <2>1, <2>2 DEF MutantInv, Mutant!TypeOK, Mutant!Steps, OneUser, Uses, OwnedWithin,
       SyncInside, Syncs, HeaderWithin, StoredOver, Apart
<1> QED
  BY <1>2, <1>3, <1>4 DEF HeadersInv

\* Every step keeps it, those of the spin locks included.
LEMMA HeadersKeep ==
  ASSUME HeadersInv, [MCNext]_<<model, vars, sVars, mVars>> PROVE HeadersInv'
<1>1. ASSUME UNCHANGED mVars, UNCHANGED model PROVE MutantInv'
  BY <1>1 DEF HeadersInv, mVars, MutantInv, Mutant!TypeOK, OneUser, Uses, OwnedWithin,
     SyncInside, Syncs, HeaderWithin, StoredOver, Apart
<1>2. ASSUME UNCHANGED sVars, UNCHANGED model
      PROVE  /\ model' = "semaphore" => Semaphore!TypeOK' /\ Semaphore!CountExact'
             /\ model' = "event" => Event!TypeOK' /\ Event!SignaledIsSo'
  BY <1>2 DEF HeadersInv, sVars, Semaphore!TypeOK, Semaphore!CountExact, Event!TypeOK,
     Event!SignaledIsSo
<1>3. CASE UNCHANGED <<model, sVars, mVars>>
  BY <1>1, <1>2, <1>3 DEF HeadersInv
<1>4. CASE model = "semaphore" /\ Semaphore!Next /\ UNCHANGED <<model, mVars>>
  BY <1>1, <1>4, SemaphoreStepKeeps DEF HeadersInv
<1>5. CASE model = "event" /\ Event!Next /\ UNCHANGED <<model, mVars>>
  BY <1>1, <1>5, EventStepKeeps DEF HeadersInv
<1>6. CASE /\ (model = "mutant" /\ Mutant!Next) \/ (model = "handle" /\ Handle!Next)
           /\ UNCHANGED <<model, sVars>>
  BY <1>2, <1>6, MutantStepKeeps DEF HeadersInv
<1> QED
  BY <1>3, <1>4, <1>5, <1>6 DEF MCNext

\* What a run checks of the invariant: one permit, as a count, and a header that tells when
\* no call is under way.
LEMMA HeadersTell ==
  ASSUME HeadersInv
  PROVE  /\ model = "semaphore" => Semaphore!TypeOK /\ Semaphore!CountExact
         /\ model = "event" => Event!TypeOK /\ Event!SignaledIsSo
         /\ Mutant!TypeOK /\ Mutant!OnePermit /\ Mutant!HeaderTells
<1>1. Mutant!OnePermit
  <2> DEFINE carried == Mutant!Carried
  <2>0. /\ None \notin Fibers /\ mOwner \in Fibers \cup {None}
        /\ carried = {t \in Fibers : Uses(t) /\ mOwner # t}
    BY HeadersOK DEF HeadersInv, MutantInv, Mutant!TypeOK, OwnedWithin, Mutant!Carried, Uses,
       Mutant!MutantAssumption
  <2> HIDE DEF carried
  <2>1. CASE \A t \in Fibers : ~Uses(t)
    <3>1. carried = {} /\ mOwner = None /\ mPermit = 1
      BY <2>0, <2>1 DEF HeadersInv, MutantInv, OneUser, Uses
    <3> QED
      BY <3>1, FS_EmptySet, CountedAlike DEF Mutant!OnePermit, carried
  <2>2. ASSUME NEW t \in Fibers, Uses(t) PROVE Mutant!OnePermit
    <3>1. mPermit = 0 /\ \A u \in Fibers : Uses(u) => u = t
      BY <2>2 DEF HeadersInv, MutantInv, OneUser
    <3>2. CASE mOwner = None
      <4>1. carried = {t}
        BY <2>0, <2>2, <3>1, <3>2
      <4> QED
        <5>1. Cardinality(carried) = 1
          BY <4>1, FS_Singleton
        <5> QED
          BY <3>1, <3>2, <5>1, CountedAlike DEF Mutant!OnePermit, carried
    <3>3. CASE mOwner # None
      <4>1. carried = {}
        BY <2>0, <3>1, <3>3 DEF Uses
      <4> QED
        BY <3>1, <3>3, <4>1, FS_EmptySet, CountedAlike DEF Mutant!OnePermit, carried
    <3> QED
      BY <3>2, <3>3
  <2> QED
    BY <2>1, <2>2
<1>2. Mutant!HeaderTells
  BY DEF HeadersInv, MutantInv, HeaderWithin, Mutant!HeaderTells, Mutant!Quiet
<1> QED
  BY <1>1, <1>2 DEF HeadersInv, MutantInv

\* The header of an event, semaphore or mutant and the host primitive beside it never part,
\* whatever falls between a wait's poll and its WaitCallback and whatever the guest stores,
\* and SyncFromGuest frees a mutant only if the guest re-initialized it, for any threads
\* (xmutant.cc, xsemaphore.cc and xevent.cc, SyncFromGuest and WaitCallback).
THEOREM HeadersAlwaysAgree == MCSpec => HeadersAgree
<1> DEFINE
  States == /\ model = "semaphore" => Semaphore!TypeOK /\ Semaphore!CountExact
            /\ model = "event" => Event!TypeOK /\ Event!SignaledIsSo
            /\ Mutant!TypeOK /\ Mutant!OnePermit /\ Mutant!HeaderTells
  Freeing == model = "mutant" /\ mOwner' # mOwner /\ (\E t \in Fibers : Mutant!Swap(t))
               => mReinit
<1>1. MCInit => HeadersInv
  BY HeadersInit
<1>2. HeadersInv /\ [MCNext]_<<model, vars, sVars, mVars>> => HeadersInv'
  BY HeadersKeep
<1>3. HeadersInv => States
  BY HeadersTell
<1>4. HeadersInv /\ [MCNext]_<<model, vars, sVars, mVars>>
        => [Freeing]_<<model, vars, sVars, mVars>>
  <2> SUFFICES ASSUME HeadersInv, [MCNext]_<<model, vars, sVars, mVars>>,
                      ~UNCHANGED <<model, vars, sVars, mVars>>, model = "mutant",
                      mOwner' # mOwner, NEW t \in Fibers, Mutant!Swap(t)
               PROVE  mReinit
    OBVIOUS
  <2>1. UNCHANGED model
    BY DEF MCNext
  <2> QED
    BY <2>1, SwapKeeps DEF HeadersInv
<1>5. HeadersAgree <=> []States /\ [][Freeing]_<<model, vars, sVars, mVars>>
  BY DEF HeadersAgree
<1> HIDE DEF States, Freeing
<1> QED
  BY <1>1, <1>2, <1>3, <1>4, <1>5, PTL DEF MCSpec
=============================================================================
