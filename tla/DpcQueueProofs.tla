---------------------------- MODULE DpcQueueProofs ----------------------------
(***************************************************************************)
(* What holds of DpcQueue for any DPCs, threads and processors: a deferred *)
(* DPC has a thread that will run it, and each processor's queue is the    *)
(* queue of ProcessorFifo.                                                 *)
(*                                                                         *)
(* The refinement rests on three facts: a thread is in its DPC as long as  *)
(* a routine runs on it, so that a processor's fiber runs what it took     *)
(* from its queue and nothing else; a queue holds the DPCs that target its *)
(* processor; and so nobody changes the arguments of a DPC in a queue.     *)
(***************************************************************************)
EXTENDS DpcQueue, WellFoundedInduction, TLAPS

Args == Requests \cup {0}

TypesInv ==
  /\ dispatchQueue \in Seq(Request)
  /\ queue \in [Cpus -> Seq(Dpcs)]
  /\ deferred \in Seq([by : Actors, dpc : Dpcs])
  /\ arg \in [Dpcs -> Args] /\ made \in 0..MaxRequests
  /\ active \in [Actors -> BOOLEAN]
  /\ pc \in [Actors -> {"idle", "popped", "loop", "run", "fetch", "runDeferred", "drain"}]
  /\ cur \in [Actors -> [dpc : Dpcs \cup {None}, req : Args]]

\* A thread with a routine on it is in a DPC, and only the dispatch thread pops.
InDpc == \A a \in Actors : pc[a] = "idle" \/ (a = Worker /\ pc[a] = "popped") \/ active[a]
HasDpc ==
  /\ \A a \in Actors : pc[a] = "fetch" => cur[a].dpc \in Dpcs
  /\ \A c \in Cpus : pc[c] = "run" => cur[c].dpc \in Dpcs
OwnQueue == \A c \in Cpus : \A i \in DOMAIN queue[c] : Desired[queue[c][i]] = c

IInv == TypesInv /\ InDpc /\ HasDpc /\ OwnQueue /\ DeferredHasRunner

-----------------------------------------------------------------------------
(* Sequences. *)

\* Numbers have a least one.
LEMMA LeastIsOne == ASSUME NEW S, S \subseteq Nat, S # {} PROVE Min(S) \in S
<1> DEFINE Less == {p \in Nat \X Nat : p[1] < p[2]}
<1>1. IsWellFoundedOn(Less, Nat)
  BY NatLessThanWellFounded, Zenon DEF OpToRel
<1> HIDE DEF Less
<1>2. PICK x \in S : \A y \in S : <<y, x>> \notin Less
  BY <1>1, WFMin
<1>3. \A y \in S : x =< y
  <2> SUFFICES ASSUME NEW y \in S PROVE ~(y < x)
    OBVIOUS
  <2>1. <<y, x>> \in Nat \X Nat /\ <<y, x>>[1] = y /\ <<y, x>>[2] = x
    OBVIOUS
  <2>2. y < x => <<y, x>> \in Less
    BY <2>1 DEF Less
  <2> QED
    BY <1>2, <2>2
<1> QED
  BY <1>3 DEF Min

\* Two sequences with the same elements are one.
LEMMA SameElements ==
  ASSUME NEW S, NEW s \in Seq(S), NEW t \in Seq(S), Len(s) = Len(t),
         \A i \in 1..Len(s) : s[i] = t[i]
  PROVE  s = t
  OBVIOUS

\* RemoveAt moves the elements behind one place down.
LEMMA RemovedAt ==
  ASSUME NEW S, NEW s \in Seq(S), NEW k \in 1..Len(s)
  PROVE  /\ RemoveAt(s, k) \in Seq(S) /\ Len(RemoveAt(s, k)) = Len(s) - 1
         /\ \A i \in 1..Len(s) - 1 : RemoveAt(s, k)[i] = IF i < k THEN s[i] ELSE s[i + 1]
<1> DEFINE a == SubSeq(s, 1, k - 1)
           b == SubSeq(s, k + 1, Len(s))
<1>1. /\ a \in Seq(S) /\ Len(a) = k - 1 /\ Len(s) \in Nat
      /\ \A i \in 1..k - 1 : a[i] = s[i]
  OBVIOUS
<1>2. /\ b \in Seq(S) /\ Len(b) = Len(s) - k
      /\ \A i \in 1..Len(s) - k : b[i] = s[k + i]
  OBVIOUS
<1> HIDE DEF a, b
<1>3. a \in Seq(S) /\ b \in Seq(S)
  BY <1>1, <1>2
<1>c. /\ a \o b \in Seq(S) /\ Len(a \o b) = Len(a) + Len(b)
      /\ \A i \in 1..Len(a) + Len(b) : (a \o b)[i] = IF i =< Len(a) THEN a[i] ELSE b[i - Len(a)]
  BY <1>3
<1>4. RemoveAt(s, k) = a \o b
  BY DEF RemoveAt, a, b
<1>5. ASSUME NEW i \in 1..Len(s) - 1
      PROVE  (a \o b)[i] = IF i < k THEN s[i] ELSE s[i + 1]
  <2>1. CASE i < k
    BY <1>1, <1>2, <1>c, <2>1
  <2>2. CASE ~(i < k)
    <3>1. i - (k - 1) \in 1..Len(s) - k /\ k + (i - (k - 1)) = i + 1
      BY <1>1, <2>2
    <3>2. (a \o b)[i] = b[i - (k - 1)]
      BY <1>1, <1>2, <1>c, <2>2
    <3> QED
      BY <1>2, <2>2, <3>1, <3>2
  <2> QED
    BY <2>1, <2>2
<1> QED
  BY <1>1, <1>2, <1>c, <1>4, <1>5

\* Append puts its element last.
LEMMA Appended ==
  ASSUME NEW S, NEW s \in Seq(S), NEW x \in S
  PROVE  /\ Append(s, x) \in Seq(S) /\ Len(Append(s, x)) = Len(s) + 1
         /\ DOMAIN Append(s, x) = 1..Len(s) + 1
         /\ DOMAIN s = 1..Len(s) /\ Len(s) \in Nat
         /\ \A i \in 1..Len(s) : Append(s, x)[i] = s[i]
         /\ Append(s, x)[Len(s) + 1] = x
  OBVIOUS

\* Tail leaves the elements behind the first, one place down.
LEMMA Taken ==
  ASSUME NEW S, NEW s \in Seq(S), s # <<>>
  PROVE  /\ Tail(s) \in Seq(S) /\ Len(Tail(s)) = Len(s) - 1
         /\ Head(s) = s[1] /\ Head(s) \in S
         /\ DOMAIN s = 1..Len(s) /\ Len(s) \in Nat \ {0}
         /\ DOMAIN Tail(s) = 1..Len(s) - 1
         /\ \A i \in 1..Len(s) - 1 : Tail(s)[i] = s[i + 1]
  OBVIOUS

\* What RemoveFirst takes out is in the sequence.
LEMMA FirstIsThere ==
  ASSUME NEW S, NEW s \in Seq(S), NEW d, \E i \in 1..Len(s) : s[i] = d
  PROVE  \E k \in 1..Len(s) : /\ k = Min({i \in 1..Len(s) : s[i] = d})
                              /\ RemoveFirst(s, d) = RemoveAt(s, k)
<1> DEFINE I == {i \in 1..Len(s) : s[i] = d}
<1>1. I \subseteq Nat /\ I # {}
  OBVIOUS
<1> HIDE DEF I
<1>2. Min(I) \in I
  BY <1>1, LeastIsOne
<1>3. RemoveFirst(s, d) = RemoveAt(s, Min(I))
  BY <1>1 DEF RemoveFirst, SelectInSeq, I
<1> QED
  BY <1>2, <1>3 DEF I

\* The elements that are left.
LEMMA RemovedFirst ==
  ASSUME NEW S, NEW s \in Seq(S), NEW d
  PROVE  /\ RemoveFirst(s, d) \in Seq(S)
         /\ \A i \in 1..Len(RemoveFirst(s, d)) : \E j \in 1..Len(s) : RemoveFirst(s, d)[i] = s[j]
<1>1. CASE \E i \in 1..Len(s) : s[i] = d
  <2>1. PICK k \in 1..Len(s) : RemoveFirst(s, d) = RemoveAt(s, k)
    BY <1>1, FirstIsThere
  <2>2. /\ RemoveAt(s, k) \in Seq(S) /\ Len(RemoveAt(s, k)) = Len(s) - 1
        /\ \A i \in 1..Len(s) - 1 : RemoveAt(s, k)[i] = IF i < k THEN s[i] ELSE s[i + 1]
    BY RemovedAt
  <2> QED
    BY <2>1, <2>2, SMTT(30)
<1>2. CASE ~\E i \in 1..Len(s) : s[i] = d
  BY <1>2 DEF RemoveFirst
<1> QED
  BY <1>1, <1>2

\* What KeRemoveQueueDpc leaves of the deferred list.
WithoutFirst(s, d) == RemoveFirstMatch(s, LAMBDA e : e.dpc = d)

\* The elements that are left are of the sequence.
LEMMA RemovedDeferred ==
  ASSUME NEW S, NEW s \in Seq(S), NEW d
  PROVE  /\ WithoutFirst(s, d) \in Seq(S)
         /\ \A i \in 1..Len(WithoutFirst(s, d)) :
              \E j \in 1..Len(s) : WithoutFirst(s, d)[i] = s[j]
<1> DEFINE t == WithoutFirst(s, d)
           I == {i \in 1..Len(s) : s[i].dpc = d}
<1>1. CASE I # {}
  <2>1. I \subseteq Nat
    OBVIOUS
  <2> HIDE DEF I
  <2>2. Min(I) \in I
    BY <1>1, <2>1, LeastIsOne
  <2>3. t = RemoveAt(s, Min(I)) /\ Min(I) \in 1..Len(s)
    BY <1>1, <2>2 DEF WithoutFirst, RemoveFirstMatch, SelectInSeq, I
  <2> DEFINE k == Min(I)
  <2> HIDE DEF t, k
  <2>4. t = RemoveAt(s, k) /\ k \in 1..Len(s)
    BY <2>3 DEF k
  <2>5. /\ RemoveAt(s, k) \in Seq(S) /\ Len(RemoveAt(s, k)) = Len(s) - 1
        /\ \A i \in 1..Len(s) - 1 : RemoveAt(s, k)[i] = IF i < k THEN s[i] ELSE s[i + 1]
    BY <2>4, RemovedAt
  <2>6. t \in Seq(S) /\ \A i \in 1..Len(t) : \E j \in 1..Len(s) : t[i] = s[j]
    BY <2>4, <2>5
  <2> QED
    BY <2>6 DEF t
<1>2. CASE I = {}
  BY <1>2 DEF WithoutFirst, RemoveFirstMatch
<1> QED
  BY <1>1, <1>2

-----------------------------------------------------------------------------
(* Who runs what. *)

\* A deferred DPC was deferred by somebody.
LEMMA SomebodyDeferred ==
  ASSUME TypesInv PROVE \A i \in DOMAIN deferred : deferred[i].by \in Actors
<1> DEFINE E == [by : Actors, dpc : Dpcs]
<1>1. \A e \in E : e.by \in Actors
  OBVIOUS
<1>2. deferred \in Seq(E)
  BY DEF TypesInv
<1> HIDE DEF E
<1>3. \A i \in DOMAIN deferred : deferred[i] \in E
  BY <1>2
<1> QED
  BY <1>1, <1>3

\* At first nothing waits and nobody runs.
LEMMA IInvInit == Init => IInv
<1> SUFFICES ASSUME Init PROVE IInv
  OBVIOUS
<1> USE DpcAssumption DEF Init
<1>1. TypesInv
  <2>1. /\ <<>> \in Seq(Request) /\ <<>> \in Seq(Dpcs)
        /\ <<>> \in Seq([by : Actors, dpc : Dpcs])
    OBVIOUS
  <2>2. Nothing \in [dpc : Dpcs \cup {None}, req : Args] /\ 0 \in Args /\ 0 \in 0..MaxRequests
    BY DEF Nothing, Args
  <2> QED
    BY <2>1, <2>2 DEF TypesInv
<1>2. InDpc /\ HasDpc
  BY DEF InDpc, HasDpc, Actors
<1>3. OwnQueue /\ DeferredHasRunner
  BY DEF OwnQueue, DeferredHasRunner
<1> QED
  BY <1>1, <1>2, <1>3 DEF IInv

\* Putting a DPC in the queue of its processor.
LEMMA QueueKeeps ==
  ASSUME IInv, NEW d \in Dpcs, Desired[d] \in Cpus, NEW r \in Args, QueueProcessorDpc(d, r)
  PROVE  /\ queue' \in [Cpus -> Seq(Dpcs)] /\ arg' \in [Dpcs -> Args] /\ OwnQueue'
<1> DEFINE c == Desired[d]
<1>1. queue \in [Cpus -> Seq(Dpcs)] /\ arg \in [Dpcs -> Args] /\ queue[c] \in Seq(Dpcs)
  BY DEF IInv, TypesInv
<1>2. CASE UNCHANGED <<queue, event, arg>>
  BY <1>1, <1>2 DEF IInv, OwnQueue
<1>3. CASE queue' = [queue EXCEPT ![c] = Append(@, d)] /\ arg' = [arg EXCEPT ![d] = r]
  <2>1. /\ Append(queue[c], d) \in Seq(Dpcs)
        /\ DOMAIN Append(queue[c], d) = 1..Len(queue[c]) + 1
        /\ DOMAIN queue[c] = 1..Len(queue[c]) /\ Len(queue[c]) \in Nat
        /\ \A i \in 1..Len(queue[c]) : Append(queue[c], d)[i] = queue[c][i]
        /\ Append(queue[c], d)[Len(queue[c]) + 1] = d
    BY <1>1, Appended
  <2>2. \A i \in DOMAIN Append(queue[c], d) :
          \/ i \in DOMAIN queue[c] /\ Append(queue[c], d)[i] = queue[c][i]
          \/ Append(queue[c], d)[i] = d
    BY <2>1
  <2>3. queue'[c] = Append(queue[c], d) /\ \A e \in Cpus \ {c} : queue'[e] = queue[e]
    BY <1>1, <1>3
  <2>4. OwnQueue'
    BY <2>2, <2>3 DEF IInv, OwnQueue
  <2> QED
    BY <1>1, <1>3, <2>1, <2>4
<1> QED
  BY <1>2, <1>3 DEF QueueProcessorDpc

\* KeInsertQueueDpc.
LEMMA InsertKeeps ==
  ASSUME IInv, NEW a \in Actors, NEW d \in Dpcs, KeInsertQueueDpc(a, d) PROVE IInv'
<1>0. /\ TypesInv /\ InDpc /\ HasDpc /\ OwnQueue /\ DeferredHasRunner
  BY DEF IInv
<1>1. /\ InGuest(a) /\ made' = made + 1 /\ made' \in 1..MaxRequests /\ made' \in Args
      /\ UNCHANGED dispatchQueue
  BY <1>0, DpcAssumption DEF KeInsertQueueDpc, Made, TypesInv, Args, Requests, dispatch
<1>2. CASE InsertElsewhere(a, d)
  <2>1. /\ Desired[d] \in Cpus /\ QueueProcessorDpc(d, made')
        /\ UNCHANGED <<deferred, active, pc, cur>>
    BY <1>2, DpcAssumption DEF InsertElsewhere, Elsewhere, actor
  <2>2. queue' \in [Cpus -> Seq(Dpcs)] /\ arg' \in [Dpcs -> Args] /\ OwnQueue'
    BY <1>1, <2>1, QueueKeeps
  <2> QED
    BY <1>0, <1>1, <2>1, <2>2 DEF IInv, TypesInv, InDpc, HasDpc, DeferredHasRunner
<1>3. CASE InsertHere(a, d)
  <2>1. UNCHANGED queue /\ arg' = [arg EXCEPT ![d] = made'] /\ arg' \in [Dpcs -> Args]
    BY <1>0, <1>1, <1>3 DEF InsertHere, processor, TypesInv
  <2>2. OwnQueue'
    BY <1>0, <2>1 DEF OwnQueue
  <2>3. CASE Defers(a)
    <3>1. /\ active[a] /\ UNCHANGED <<active, pc, cur>>
          /\ deferred' = Append(deferred, [by |-> a, dpc |-> d])
      BY <1>3, <2>3 DEF InsertHere, Defers, actor
    <3>2. [by |-> a, dpc |-> d] \in [by : Actors, dpc : Dpcs]
      OBVIOUS
    <3>3. /\ deferred' \in Seq([by : Actors, dpc : Dpcs])
          /\ DOMAIN deferred' = 1..Len(deferred) + 1
          /\ DOMAIN deferred = 1..Len(deferred) /\ Len(deferred) \in Nat
          /\ \A i \in 1..Len(deferred) : deferred'[i] = deferred[i]
          /\ deferred'[Len(deferred) + 1] = [by |-> a, dpc |-> d]
      BY <1>0, <3>1, <3>2, Appended DEF TypesInv
    <3>4. DeferredHasRunner'
      <4> SUFFICES ASSUME NEW i \in DOMAIN deferred' PROVE active'[deferred'[i].by]
        BY DEF DeferredHasRunner
      <4>1. \/ i \in DOMAIN deferred /\ deferred'[i] = deferred[i]
            \/ deferred'[i] = [by |-> a, dpc |-> d]
        BY <3>3
      <4> QED
        BY <1>0, <3>1, <4>1 DEF DeferredHasRunner
    <3> QED
      BY <1>0, <1>1, <2>1, <2>2, <3>1, <3>3, <3>4 DEF IInv, TypesInv, InDpc, HasDpc
  <2>4. CASE ~Defers(a)
    <3>1. /\ active' = [active EXCEPT ![a] = TRUE] /\ pc' = [pc EXCEPT ![a] = "run"]
          /\ cur' = [cur EXCEPT ![a] = [dpc |-> d, req |-> made']] /\ UNCHANGED deferred
      BY <1>3, <2>4 DEF InsertHere, Begin, Runs, Goto
    <3>2. TypesInv'
      BY <1>0, <1>1, <2>1, <3>1 DEF TypesInv
    <3>3. InDpc' /\ HasDpc'
      BY <1>0, <3>1 DEF TypesInv, InDpc, HasDpc
    <3>4. DeferredHasRunner'
      <4>1. \A b \in Actors : active[b] => active'[b]
        BY <1>0, <3>1 DEF TypesInv
      <4>2. \A i \in DOMAIN deferred : deferred[i].by \in Actors
        BY <1>0, SomebodyDeferred
      <4> QED
        BY <1>0, <3>1, <4>1, <4>2 DEF DeferredHasRunner
    <3> QED
      BY <2>2, <3>2, <3>3, <3>4 DEF IInv
  <2> QED
    BY <2>3, <2>4
<1> QED
  BY <1>2, <1>3 DEF KeInsertQueueDpc

\* KeRemoveQueueDpc.
LEMMA RemoveKeeps ==
  ASSUME IInv, NEW a \in Actors, NEW d \in Dpcs, KeRemoveQueueDpc(a, d) PROVE IInv'
<1>1. /\ queue' = [c \in Cpus |-> RemoveFirst(queue[c], d)]
      /\ deferred' = RemoveFirstMatch(deferred, LAMBDA e : e.dpc = d)
      /\ UNCHANGED <<dispatchQueue, arg, active, pc, cur, made>>
  BY DEF KeRemoveQueueDpc, actor
<1>2. /\ TypesInv /\ InDpc /\ HasDpc /\ OwnQueue /\ DeferredHasRunner
  BY DEF IInv
<1>3. \A c \in Cpus :
        /\ queue'[c] \in Seq(Dpcs)
        /\ \A i \in DOMAIN queue'[c] : \E j \in DOMAIN queue[c] : queue'[c][i] = queue[c][j]
  <2> SUFFICES ASSUME NEW c \in Cpus
               PROVE  /\ queue'[c] \in Seq(Dpcs)
                      /\ \A i \in DOMAIN queue'[c] :
                           \E j \in DOMAIN queue[c] : queue'[c][i] = queue[c][j]
    OBVIOUS
  <2> DEFINE t == RemoveFirst(queue[c], d)
  <2>1. queue[c] \in Seq(Dpcs) /\ queue'[c] = t
    BY <1>1, <1>2 DEF TypesInv
  <2>2. t \in Seq(Dpcs) /\ \A i \in 1..Len(t) : \E j \in 1..Len(queue[c]) : t[i] = queue[c][j]
    BY <2>1, RemovedFirst
  <2> HIDE DEF t
  <2> QED
    BY <2>1, <2>2
<1>4. /\ deferred' \in Seq([by : Actors, dpc : Dpcs])
      /\ \A i \in DOMAIN deferred' : \E j \in DOMAIN deferred : deferred'[i] = deferred[j]
  <2> DEFINE E == [by : Actors, dpc : Dpcs]
  <2>1. deferred \in Seq(E)
    BY <1>2 DEF TypesInv
  <2> HIDE DEF E
  <2> DEFINE t == WithoutFirst(deferred, d)
  <2>2. t \in Seq(E) /\ \A i \in 1..Len(t) : \E j \in 1..Len(deferred) : t[i] = deferred[j]
    BY <2>1, RemovedDeferred
  <2>3. deferred' = t
    BY <1>1 DEF WithoutFirst
  <2> HIDE DEF t
  <2>4. /\ deferred' \in Seq(E)
        /\ \A i \in DOMAIN deferred' : \E j \in DOMAIN deferred : deferred'[i] = deferred[j]
    BY <2>1, <2>2, <2>3
  <2> QED
    BY <2>4 DEF E
<1>5. TypesInv'
  <2>1. queue' \in [Cpus -> Seq(Dpcs)]
    BY <1>1, <1>3
  <2> QED
    BY <1>1, <1>2, <1>4, <2>1 DEF TypesInv
<1>6. OwnQueue'
  <2> SUFFICES ASSUME NEW c \in Cpus, NEW i \in DOMAIN queue'[c] PROVE Desired[queue'[c][i]] = c
    BY DEF OwnQueue
  <2>1. PICK j \in DOMAIN queue[c] : queue'[c][i] = queue[c][j]
    BY <1>3
  <2> QED
    BY <1>2, <2>1 DEF OwnQueue
<1>7. DeferredHasRunner'
  <2> SUFFICES ASSUME NEW i \in DOMAIN deferred' PROVE active'[deferred'[i].by]
    BY DEF DeferredHasRunner
  <2>1. PICK j \in DOMAIN deferred : deferred'[i] = deferred[j]
    BY <1>4
  <2> QED
    BY <1>1, <1>2, <2>1 DEF DeferredHasRunner
<1> QED
  BY <1>1, <1>2, <1>5, <1>6, <1>7 DEF IInv, InDpc, HasDpc

\* QueueDpc.
LEMMA TimerKeeps == ASSUME IInv, NEW d \in Dpcs, QueueDpc(d) PROVE IInv'
<1>0. /\ TypesInv /\ InDpc /\ HasDpc /\ OwnQueue /\ DeferredHasRunner
  BY DEF IInv
<1>1. /\ made' \in 1..MaxRequests /\ made' \in Args /\ made' \in Requests
      /\ UNCHANGED <<deferred, active, pc, cur>>
  BY <1>0, DpcAssumption DEF QueueDpc, Made, TypesInv, Args, Requests, actor
<1>2. CASE ToProcessor(d) /\ UNCHANGED dispatch
  <2>1. Desired[d] \in Cpus /\ QueueProcessorDpc(d, made') /\ UNCHANGED dispatchQueue
    BY <1>2, DpcAssumption DEF ToProcessor, dispatch
  <2>2. queue' \in [Cpus -> Seq(Dpcs)] /\ arg' \in [Dpcs -> Args] /\ OwnQueue'
    BY <1>1, <2>1, QueueKeeps
  <2> QED
    BY <1>0, <1>1, <2>1, <2>2 DEF IInv, TypesInv, InDpc, HasDpc, DeferredHasRunner
<1>3. CASE ToDispatch(d) /\ UNCHANGED <<queue, event, arg>>
  <2>1. [dpc |-> d, req |-> made'] \in Request
    BY <1>1 DEF Request
  <2>2. Append(dispatchQueue, [dpc |-> d, req |-> made']) \in Seq(Request)
    BY <1>0, <2>1, Appended DEF TypesInv
  <2>3. dispatchQueue' \in Seq(Request)
    BY <1>0, <1>3, <2>2 DEF ToDispatch, dispatch, TypesInv
  <2> QED
    BY <1>0, <1>1, <1>3, <2>3
       DEF IInv, TypesInv, InDpc, HasDpc, OwnQueue, DeferredHasRunner
<1> QED
  BY <1>2, <1>3 DEF QueueDpc

\* The dispatch thread, and the interrupt callbacks of a host thread.
LEMMA DispatchKeeps ==
  ASSUME IInv, Pop \/ RunLambda \/ \E h \in Hosts : Interrupt(h) PROVE IInv'
<1>0. /\ TypesInv /\ InDpc /\ HasDpc /\ OwnQueue /\ DeferredHasRunner
  BY DEF IInv
<1>w. /\ Worker \in Actors /\ Worker \notin Cpus
      /\ \A h \in Hosts : h \in Actors /\ h \notin Cpus
  BY DpcAssumption DEF Actors
<1>r. \A i \in DOMAIN deferred : deferred[i].by \in Actors
  BY <1>0, SomebodyDeferred
<1>1. CASE Pop
  <2>1. /\ dispatchQueue # <<>> /\ pc[Worker] = "idle"
        /\ cur' = [cur EXCEPT ![Worker] = Head(dispatchQueue)]
        /\ dispatchQueue' = Tail(dispatchQueue) /\ pc' = [pc EXCEPT ![Worker] = "popped"]
        /\ UNCHANGED <<queue, deferred, arg, active, made>>
    BY <1>1 DEF Pop, Goto, processor
  <2>2. Head(dispatchQueue) \in Request /\ Tail(dispatchQueue) \in Seq(Request)
    BY <1>0, <2>1, Taken DEF TypesInv
  <2>3. Head(dispatchQueue) \in [dpc : Dpcs \cup {None}, req : Args]
    BY <2>2 DEF Request, Args
  <2>4. TypesInv'
    BY <1>0, <1>w, <2>1, <2>2, <2>3 DEF TypesInv
  <2>5. InDpc' /\ HasDpc' /\ OwnQueue' /\ DeferredHasRunner'
    BY <1>0, <1>w, <2>1 DEF TypesInv, InDpc, HasDpc, OwnQueue, DeferredHasRunner
  <2> QED
    BY <2>4, <2>5 DEF IInv
<1>2. CASE RunLambda
  <2>1. UNCHANGED <<dispatchQueue, queue, deferred, arg, made>>
    BY <1>2 DEF RunLambda, processor
  <2>2. CASE cur[Worker].dpc \in dispatchDpcs
    <3>1. /\ active' = [active EXCEPT ![Worker] = TRUE] /\ UNCHANGED cur
          /\ pc' = [pc EXCEPT ![Worker] = "run"]
      BY <1>2, <2>2 DEF RunLambda, Begin, Goto
    <3>2. \A b \in Actors : active[b] => active'[b]
      BY <1>0, <3>1 DEF TypesInv
    <3>3. TypesInv' /\ InDpc' /\ HasDpc'
      BY <1>0, <1>w, <2>1, <3>1 DEF TypesInv, InDpc, HasDpc
    <3> QED
      BY <1>0, <1>r, <2>1, <3>1, <3>2, <3>3 DEF IInv, OwnQueue, DeferredHasRunner
  <2>3. CASE cur[Worker].dpc \notin dispatchDpcs
    <3>1. /\ UNCHANGED active /\ pc' = [pc EXCEPT ![Worker] = "idle"]
          /\ cur' = [cur EXCEPT ![Worker] = Nothing]
      BY <1>2, <2>3 DEF RunLambda, Goto
    <3>2. Nothing \in [dpc : Dpcs \cup {None}, req : Args]
      BY DEF Nothing, Args
    <3>3. TypesInv' /\ InDpc' /\ HasDpc'
      BY <1>0, <1>w, <2>1, <3>1, <3>2 DEF TypesInv, InDpc, HasDpc
    <3> QED
      BY <1>0, <2>1, <3>1, <3>3 DEF IInv, OwnQueue, DeferredHasRunner
  <2> QED
    BY <2>2, <2>3
<1>3. ASSUME NEW h \in Hosts, Interrupt(h) PROVE IInv'
  <2>1. /\ active' = [active EXCEPT ![h] = TRUE] /\ pc' = [pc EXCEPT ![h] = "run"]
        /\ UNCHANGED <<dispatchQueue, queue, deferred, arg, cur, made>>
    BY <1>3 DEF Interrupt, Begin, Goto, dispatch, processor
  <2>2. \A b \in Actors : active[b] => active'[b]
    BY <1>0, <2>1 DEF TypesInv
  <2>3. TypesInv' /\ InDpc' /\ HasDpc'
    BY <1>0, <1>w, <2>1 DEF TypesInv, InDpc, HasDpc
  <2> QED
    BY <1>0, <1>r, <2>1, <2>2, <2>3 DEF IInv, OwnQueue, DeferredHasRunner
<1> QED
  BY <1>1, <1>2, <1>3

\* The fiber of a processor takes the first of its queue.
LEMMA ProcessorKeeps ==
  ASSUME IInv, NEW c \in Cpus, Wake(c) \/ Loop(c) PROVE IInv'
<1>0. /\ TypesInv /\ InDpc /\ HasDpc /\ OwnQueue /\ DeferredHasRunner
  BY DEF IInv
<1>w. c \in Actors /\ c # Worker /\ Cpus \subseteq Actors
  BY DpcAssumption DEF Actors
<1>r. \A i \in DOMAIN deferred : deferred[i].by \in Actors
  BY <1>0, SomebodyDeferred
<1>1. CASE Wake(c)
  <2>1. /\ active' = [active EXCEPT ![c] = TRUE] /\ pc' = [pc EXCEPT ![c] = "loop"]
        /\ UNCHANGED <<dispatchQueue, queue, deferred, arg, cur, made>>
    BY <1>1 DEF Wake, Begin, Goto, dispatch
  <2>2. \A b \in Actors : active[b] => active'[b]
    BY <1>0, <2>1 DEF TypesInv
  <2>3. TypesInv' /\ InDpc' /\ HasDpc'
    BY <1>0, <1>w, <2>1 DEF TypesInv, InDpc, HasDpc
  <2> QED
    BY <1>0, <1>r, <2>1, <2>2, <2>3 DEF IInv, OwnQueue, DeferredHasRunner
<1>2. CASE Loop(c)
  <2>1. pc[c] = "loop" /\ UNCHANGED <<dispatchQueue, deferred, arg, active, made>>
    BY <1>2 DEF Loop, dispatch
  <2>2. active[c]
    BY <1>0, <1>w, <2>1 DEF InDpc
  <2>3. CASE queue[c] # <<>>
    <3>1. /\ cur' = [cur EXCEPT ![c] = [dpc |-> Head(queue[c]), req |-> arg[Head(queue[c])]]]
          /\ queue' = [queue EXCEPT ![c] = Tail(@)] /\ pc' = [pc EXCEPT ![c] = "run"]
      BY <1>2, <2>3 DEF Loop, TakeFirst, Runs, Goto
    <3>2. queue[c] \in Seq(Dpcs) /\ queue \in [Cpus -> Seq(Dpcs)]
      BY <1>0 DEF TypesInv
    <3>3. /\ Tail(queue[c]) \in Seq(Dpcs) /\ Head(queue[c]) \in Dpcs
          /\ DOMAIN queue[c] = 1..Len(queue[c]) /\ Len(queue[c]) \in Nat \ {0}
          /\ DOMAIN Tail(queue[c]) = 1..Len(queue[c]) - 1
          /\ \A i \in 1..Len(queue[c]) - 1 : Tail(queue[c])[i] = queue[c][i + 1]
      BY <2>3, <3>2, Taken
    <3>4. \A i \in DOMAIN Tail(queue[c]) :
            \E j \in DOMAIN queue[c] : Tail(queue[c])[i] = queue[c][j]
      BY <3>3
    <3>5. /\ queue' \in [Cpus -> Seq(Dpcs)] /\ queue'[c] = Tail(queue[c])
          /\ \A e \in Cpus \ {c} : queue'[e] = queue[e]
      BY <3>1, <3>2, <3>3
    <3>6. OwnQueue'
      <4> SUFFICES ASSUME NEW e \in Cpus, NEW i \in DOMAIN queue'[e]
                   PROVE  Desired[queue'[e][i]] = e
        BY DEF OwnQueue
      <4>1. PICK j \in DOMAIN queue[e] : queue'[e][i] = queue[e][j]
        BY <3>4, <3>5
      <4> QED
        BY <1>0, <4>1 DEF OwnQueue
    <3>7. arg[Head(queue[c])] \in Args
      BY <1>0, <3>3 DEF TypesInv
    <3>8. TypesInv'
      BY <1>0, <2>1, <3>1, <3>3, <3>5, <3>7 DEF TypesInv
    <3>9. InDpc' /\ HasDpc'
      BY <1>0, <1>w, <2>1, <2>2, <3>1, <3>3 DEF TypesInv, InDpc, HasDpc
    <3> QED
      BY <1>0, <2>1, <3>6, <3>8, <3>9 DEF IInv, DeferredHasRunner
  <2>4. CASE queue[c] = <<>>
    <3>1. pc' = [pc EXCEPT ![c] = "drain"] /\ UNCHANGED <<queue, cur>>
      BY <1>2, <2>4 DEF Loop, Goto
    <3>2. TypesInv' /\ InDpc' /\ HasDpc'
      BY <1>0, <1>w, <2>1, <2>2, <3>1 DEF TypesInv, InDpc, HasDpc
    <3> QED
      BY <1>0, <2>1, <3>1, <3>2 DEF IInv, OwnQueue, DeferredHasRunner
  <2> QED
    BY <2>3, <2>4
<1> QED
  BY <1>1, <1>2

\* A thread that leaves its DPC has run what it deferred.
LEMMA EndKeeps ==
  ASSUME IInv, NEW a \in Actors, Return(a) \/ Drain(a) \/ Fetch(a) PROVE IInv'
<1>0. /\ TypesInv /\ InDpc /\ HasDpc /\ OwnQueue /\ DeferredHasRunner
  BY DEF IInv
<1>w. Cpus \subseteq Actors
  BY DEF Actors
<1>n. Nothing \in [dpc : Dpcs \cup {None}, req : Args]
  BY DEF Nothing, Args
<1>1. CASE Return(a)
  <2>1. /\ pc[a] \in {"run", "runDeferred"} /\ cur' = [cur EXCEPT ![a] = Nothing]
        /\ pc' = [pc EXCEPT ![a] = Returned(a)] /\ Returned(a) \in {"loop", "drain"}
        /\ UNCHANGED <<dispatchQueue, queue, deferred, arg, active, made>>
    BY <1>1 DEF Return, Goto, Returned, dispatch, processor
  <2>2. active[a]
    BY <1>0, <2>1 DEF InDpc
  <2>3. TypesInv' /\ InDpc' /\ HasDpc'
    BY <1>0, <1>w, <1>n, <2>1, <2>2 DEF TypesInv, InDpc, HasDpc
  <2> QED
    BY <1>0, <2>1, <2>3 DEF IInv, OwnQueue, DeferredHasRunner
<1>2. CASE Fetch(a)
  <2>1. /\ pc[a] = "fetch" /\ pc' = [pc EXCEPT ![a] = "runDeferred"]
        /\ cur' = [cur EXCEPT ![a] = [dpc |-> cur[a].dpc, req |-> arg[cur[a].dpc]]]
        /\ UNCHANGED <<dispatchQueue, queue, deferred, arg, active, made>>
    BY <1>2 DEF Fetch, Goto, Runs, dispatch, processor
  <2>2. active[a] /\ cur[a].dpc \in Dpcs /\ arg[cur[a].dpc] \in Args
    BY <1>0, <2>1 DEF InDpc, HasDpc, TypesInv
  <2>3. TypesInv' /\ InDpc' /\ HasDpc'
    BY <1>0, <1>w, <2>1, <2>2 DEF TypesInv, InDpc, HasDpc
  <2> QED
    BY <1>0, <2>1, <2>3 DEF IInv, OwnQueue, DeferredHasRunner
<1>3. CASE Drain(a)
  <2>1. pc[a] = "drain" /\ UNCHANGED <<dispatchQueue, queue, arg, made>>
    BY <1>3 DEF Drain, dispatch, processor
  <2>2. active[a]
    BY <1>0, <2>1 DEF InDpc
  <2>3. CASE Own(a) # {}
    <3> DEFINE k == CHOOSE j \in Own(a) : \A l \in Own(a) : j <= l
               E == [by : Actors, dpc : Dpcs]
    <3>1. /\ cur' = [cur EXCEPT ![a] = [dpc |-> deferred[k].dpc, req |-> 0]]
          /\ deferred' = RemoveAt(deferred, k) /\ pc' = [pc EXCEPT ![a] = "fetch"]
          /\ UNCHANGED active
      BY <1>3, <2>3, Zenon DEF Drain, Runs, Goto
    <3>2. deferred \in Seq(E)
      BY <1>0 DEF TypesInv
    <3>e. \A e \in E : e.dpc \in Dpcs
      OBVIOUS
    <3> HIDE DEF E
    <3>3. k \in Own(a)
      <4>1. Own(a) \subseteq Nat
        BY <3>2 DEF Own
      <4>2. Min(Own(a)) \in Own(a)
        BY <2>3, <4>1, LeastIsOne
      <4>3. k = Min(Own(a))
        BY DEF Min
      <4> QED
        BY <4>2, <4>3
    <3> HIDE DEF k
    <3>4. k \in 1..Len(deferred) /\ deferred[k] \in E
      BY <3>2, <3>3 DEF Own
    <3>5. /\ RemoveAt(deferred, k) \in Seq(E) /\ Len(RemoveAt(deferred, k)) = Len(deferred) - 1
          /\ \A i \in 1..Len(deferred) - 1 :
               RemoveAt(deferred, k)[i] = IF i < k THEN deferred[i] ELSE deferred[i + 1]
      BY <3>2, <3>4, RemovedAt
    <3>6. /\ deferred' \in Seq(E)
          /\ \A i \in DOMAIN deferred' : \E j \in DOMAIN deferred : deferred'[i] = deferred[j]
      BY <3>1, <3>2, <3>5
    <3>7. DeferredHasRunner'
      <4> SUFFICES ASSUME NEW i \in DOMAIN deferred' PROVE active'[deferred'[i].by]
        BY DEF DeferredHasRunner
      <4>1. PICK j \in DOMAIN deferred : deferred'[i] = deferred[j]
        BY <3>6
      <4> QED
        BY <1>0, <3>1, <4>1 DEF DeferredHasRunner
    <3>8. deferred[k].dpc \in Dpcs /\ 0 \in Args
      BY <3>4, <3>e DEF Args
    <3>9. TypesInv'
      BY <1>0, <2>1, <3>1, <3>6, <3>8 DEF TypesInv, E
    <3>10. InDpc' /\ HasDpc'
      BY <1>0, <1>w, <2>1, <2>2, <3>1, <3>8 DEF TypesInv, InDpc, HasDpc
    <3> QED
      BY <1>0, <2>1, <3>7, <3>9, <3>10 DEF IInv, OwnQueue
  <2>4. CASE Own(a) = {}
    <3>1. /\ active' = [active EXCEPT ![a] = FALSE] /\ pc' = [pc EXCEPT ![a] = "idle"]
          /\ UNCHANGED <<deferred, cur>>
      BY <1>3, <2>4 DEF Drain, Goto
    <3>2. DeferredHasRunner'
      <4>1. \A i \in DOMAIN deferred : deferred[i].by # a /\ deferred[i].by \in Actors
        BY <1>0, <2>4, SomebodyDeferred DEF Own
      <4> QED
        BY <1>0, <3>1, <4>1 DEF DeferredHasRunner, TypesInv
    <3>3. TypesInv' /\ InDpc' /\ HasDpc'
      BY <1>0, <1>w, <2>1, <3>1 DEF TypesInv, InDpc, HasDpc
    <3> QED
      BY <1>0, <2>1, <3>2, <3>3 DEF IInv, OwnQueue
  <2> QED
    BY <2>3, <2>4
<1> QED
  BY <1>1, <1>2, <1>3

\* IInv holds in every behaviour.
LEMMA IInvAlways == Spec => []IInv
<1>1. ASSUME IInv, Next PROVE IInv'
  <2>1. ASSUME NEW a \in Actors, Proceeds(a) PROVE IInv'
    BY <1>1, <2>1, DispatchKeeps, ProcessorKeeps, EndKeeps DEF Proceeds
  <2>2. ASSUME NEW a \in Actors, NEW d \in Dpcs,
               KeInsertQueueDpc(a, d) \/ KeRemoveQueueDpc(a, d)
        PROVE  IInv'
    BY <1>1, <2>2, InsertKeeps, RemoveKeeps
  <2>3. ASSUME NEW d \in Dpcs, QueueDpc(d) PROVE IInv'
    BY <1>1, <2>3, TimerKeeps
  <2>4. ASSUME NEW h \in Hosts, Interrupt(h) PROVE IInv'
    BY <1>1, <2>4, DispatchKeeps
  <2> QED
    BY <1>1, <2>1, <2>2, <2>3, <2>4 DEF Next
<1>2. IInv /\ UNCHANGED vars => IInv'
  BY DEF vars, dispatch, processor, actor, IInv, TypesInv, InDpc, HasDpc, OwnQueue,
         DeferredHasRunner
<1> QED
  BY <1>1, <1>2, IInvInit, PTL DEF Spec

\* What a thread deferred while it was in a DPC does not stay behind: as long as it
\* waits, that thread is in its DPC, and takes it from the list before it leaves.
THEOREM DeferredIsRun == Spec => []DeferredHasRunner
<1>1. IInv => DeferredHasRunner
  BY DEF IInv
<1> QED
  BY <1>1, IInvAlways, PTL

-----------------------------------------------------------------------------
(* The queue of a processor. *)

\* A queue with the arguments of its DPCs.
View(q, g) == [i \in DOMAIN q |-> [dpc |-> q[i], req |-> g[q[i]]]]
Entry == [dpc : Dpcs, req : Args]

\* It is as long as the queue, and holds its DPCs.
LEMMA ViewIs ==
  ASSUME NEW q \in Seq(Dpcs), NEW g \in [Dpcs -> Args]
  PROVE  /\ View(q, g) \in Seq(Entry) /\ Len(View(q, g)) = Len(q) /\ Len(q) \in Nat
         /\ DOMAIN View(q, g) = 1..Len(q) /\ DOMAIN q = 1..Len(q)
         /\ \A i \in 1..Len(q) : View(q, g)[i] = [dpc |-> q[i], req |-> g[q[i]]]
<1>1. DOMAIN q = 1..Len(q) /\ Len(q) \in Nat /\ \A i \in 1..Len(q) : q[i] \in Dpcs
  OBVIOUS
<1>2. \A i \in 1..Len(q) : [dpc |-> q[i], req |-> g[q[i]]] \in Entry
  BY <1>1 DEF Entry
<1>3. View(q, g) \in [1..Len(q) -> Entry]
  BY <1>1, <1>2 DEF View
<1>4. View(q, g) \in Seq(Entry) /\ Len(View(q, g)) = Len(q)
  BY <1>1, <1>3
<1> QED
  BY <1>1, <1>4 DEF View

\* New arguments of a DPC that is not in a queue change nothing there.
LEMMA ViewSame ==
  ASSUME NEW q \in Seq(Dpcs), NEW g \in [Dpcs -> Args], NEW d \in Dpcs, NEW r \in Args,
         \A i \in 1..Len(q) : q[i] # d, NEW h, h = [g EXCEPT ![d] = r]
  PROVE  View(q, h) = View(q, g)
<1>1. \A i \in DOMAIN q : q[i] \in Dpcs /\ h[q[i]] = g[q[i]]
  OBVIOUS
<1> QED
  BY <1>1 DEF View

\* A DPC that comes with its arguments is the last.
LEMMA ViewAppend ==
  ASSUME NEW q \in Seq(Dpcs), NEW g \in [Dpcs -> Args], NEW d \in Dpcs, NEW r \in Args,
         \A i \in 1..Len(q) : q[i] # d
  PROVE  \A p, h, e : /\ p = Append(q, d) /\ h = [g EXCEPT ![d] = r]
                      /\ e = [dpc |-> d, req |-> r]
                      => View(p, h) = Append(View(q, g), e)
<1> SUFFICES ASSUME NEW p, p = Append(q, d), NEW h, h = [g EXCEPT ![d] = r],
                    NEW e, e = [dpc |-> d, req |-> r]
             PROVE  View(p, h) = Append(View(q, g), e)
  OBVIOUS
<1> DEFINE v == View(q, g)
           w == View(p, h)
           u == Append(v, e)
<1>1. /\ p \in Seq(Dpcs) /\ Len(p) = Len(q) + 1 /\ Len(q) \in Nat /\ p[Len(q) + 1] = d
      /\ \A i \in 1..Len(q) : p[i] = q[i] /\ q[i] \in Dpcs
  BY Appended
<1>2. h \in [Dpcs -> Args] /\ h[d] = r /\ e \in Entry
  BY DEF Entry
<1>3. /\ v \in Seq(Entry) /\ Len(v) = Len(q)
      /\ \A i \in 1..Len(q) : v[i] = [dpc |-> q[i], req |-> g[q[i]]]
  BY ViewIs
<1> HIDE DEF v
<1>4. /\ w \in Seq(Entry) /\ Len(w) = Len(p)
      /\ \A i \in 1..Len(p) : w[i] = [dpc |-> p[i], req |-> h[p[i]]]
  BY <1>1, <1>2, ViewIs, ZenonT(60)
<1>5. /\ u \in Seq(Entry) /\ Len(u) = Len(v) + 1 /\ \A i \in 1..Len(v) : u[i] = v[i]
      /\ u[Len(v) + 1] = e
  BY <1>2, <1>3, Appended
<1> HIDE DEF u, w
<1>6. \A i \in 1..Len(w) : w[i] = u[i]
  <2> SUFFICES ASSUME NEW i \in 1..Len(w) PROVE w[i] = u[i]
    OBVIOUS
  <2>1. CASE i \in 1..Len(q)
    <3>1. h[q[i]] = g[q[i]] /\ p[i] = q[i]
      BY <1>1, <2>1
    <3>2. w[i] = [dpc |-> q[i], req |-> g[q[i]]]
      BY <1>4, <3>1
    <3> QED
      BY <1>3, <1>5, <2>1, <3>2
  <2>2. CASE i = Len(q) + 1
    <3>1. w[i] = [dpc |-> d, req |-> r]
      BY <1>1, <1>2, <1>4, <2>2
    <3> QED
      BY <1>3, <1>5, <2>2, <3>1
  <2> QED
    BY <1>1, <1>4, <2>1, <2>2
<1>7. w = u
  BY <1>1, <1>3, <1>4, <1>5, <1>6, SameElements
<1> QED
  BY <1>7 DEF w, u, v

\* The first leaves with its arguments.
LEMMA ViewTail ==
  ASSUME NEW q \in Seq(Dpcs), NEW g \in [Dpcs -> Args], q # <<>>
  PROVE  /\ View(q, g) # <<>> /\ View(Tail(q), g) = Tail(View(q, g))
         /\ Head(View(q, g)) = [dpc |-> Head(q), req |-> g[Head(q)]]
<1> DEFINE p == Tail(q)
           v == View(q, g)
           w == View(p, g)
           u == Tail(v)
<1>1. /\ p \in Seq(Dpcs) /\ Len(p) = Len(q) - 1 /\ Len(q) \in Nat \ {0} /\ Head(q) = q[1]
      /\ \A i \in 1..Len(q) - 1 : p[i] = q[i + 1]
  BY Taken
<1>2. /\ v \in Seq(Entry) /\ Len(v) = Len(q)
      /\ \A i \in 1..Len(q) : v[i] = [dpc |-> q[i], req |-> g[q[i]]]
  BY ViewIs
<1> HIDE DEF p, v
<1>3. /\ w \in Seq(Entry) /\ Len(w) = Len(p)
      /\ \A i \in 1..Len(p) : w[i] = [dpc |-> p[i], req |-> g[p[i]]]
  BY <1>1, ViewIs
<1>4. v # <<>>
  BY <1>1, <1>2
<1>5. /\ u \in Seq(Entry) /\ Len(u) = Len(v) - 1 /\ Head(v) = v[1]
      /\ \A i \in 1..Len(v) - 1 : u[i] = v[i + 1]
  BY <1>2, <1>4, Taken
<1> HIDE DEF u, w
<1>6. \A i \in 1..Len(w) : w[i] = u[i]
  <2> SUFFICES ASSUME NEW i \in 1..Len(w) PROVE w[i] = u[i]
    OBVIOUS
  <2>1. i + 1 \in 1..Len(q) /\ i \in 1..Len(v) - 1 /\ i \in 1..Len(p) /\ p[i] = q[i + 1]
    BY <1>1, <1>2, <1>3
  <2>2. w[i] = [dpc |-> q[i + 1], req |-> g[q[i + 1]]]
    BY <1>3, <2>1
  <2>3. u[i] = v[i + 1]
    BY <1>5, <2>1
  <2> QED
    BY <1>2, <2>1, <2>2, <2>3
<1>7. w = u
  BY <1>1, <1>2, <1>3, <1>5, <1>6, SameElements
<1>8. Head(v) = [dpc |-> Head(q), req |-> g[Head(q)]]
  <2>1. 1 \in 1..Len(q) /\ Head(v) = v[1]
    BY <1>1, <1>5
  <2> QED
    BY <1>1, <1>2, <2>1
<1> QED
  BY <1>4, <1>7, <1>8 DEF w, u, p, v

\* A DPC that is removed from the queue leaves with its arguments.
LEMMA ViewRemove ==
  ASSUME NEW q \in Seq(Dpcs), NEW g \in [Dpcs -> Args], NEW d
  PROVE  View(RemoveFirst(q, d), g) = WithoutFirst(View(q, g), d)
<1> DEFINE I == {i \in 1..Len(q) : q[i] = d}
           v == View(q, g)
           J == {i \in 1..Len(v) : v[i].dpc = d}
<1>1. /\ v \in Seq(Entry) /\ Len(v) = Len(q) /\ Len(q) \in Nat
      /\ \A i \in 1..Len(q) : v[i] = [dpc |-> q[i], req |-> g[q[i]]]
  BY ViewIs
<1>2. \A i \in 1..Len(q) : v[i].dpc = q[i]
  <2> SUFFICES ASSUME NEW i \in 1..Len(q) PROVE v[i].dpc = q[i]
    OBVIOUS
  <2>1. v[i] = [dpc |-> q[i], req |-> g[q[i]]]
    BY <1>1
  <2> QED
    BY <2>1
<1> HIDE DEF v
<1>3. I = J
  BY <1>1, <1>2
<1>4. CASE I = {}
  <2>1. RemoveFirst(q, d) = q
    BY <1>4 DEF RemoveFirst
  <2>2. WithoutFirst(v, d) = v
    BY <1>3, <1>4 DEF WithoutFirst, RemoveFirstMatch
  <2> QED
    BY <2>1, <2>2 DEF v
<1>5. CASE I # {}
  <2> DEFINE k == Min(I)
             p == RemoveAt(q, k)
             w == View(p, g)
             u == RemoveAt(v, k)
  <2>1. I \subseteq Nat
    OBVIOUS
  <2>2. RemoveFirst(q, d) = p
    BY <1>5 DEF RemoveFirst, SelectInSeq
  <2>3. WithoutFirst(v, d) = u
    BY <1>3, <1>5 DEF WithoutFirst, RemoveFirstMatch, SelectInSeq
  <2>4. k \in 1..Len(q)
    <3> HIDE DEF I
    <3>1. k \in I
      BY <1>5, <2>1, LeastIsOne
    <3> QED
      BY <3>1 DEF I
  <2> HIDE DEF k, I, J
  <2>5. /\ p \in Seq(Dpcs) /\ Len(p) = Len(q) - 1
        /\ \A i \in 1..Len(q) - 1 : p[i] = IF i < k THEN q[i] ELSE q[i + 1]
    BY <2>4, RemovedAt
  <2>6. k \in 1..Len(v)
    BY <1>1, <2>4
  <2>7. /\ u \in Seq(Entry) /\ Len(u) = Len(v) - 1
        /\ \A i \in 1..Len(v) - 1 : u[i] = IF i < k THEN v[i] ELSE v[i + 1]
    BY <1>1, <2>6, RemovedAt
  <2> HIDE DEF p, u
  <2>8. /\ w \in Seq(Entry) /\ Len(w) = Len(p)
        /\ \A i \in 1..Len(p) : w[i] = [dpc |-> p[i], req |-> g[p[i]]]
    BY <2>5, ViewIs
  <2> HIDE DEF w
  <2>9. \A i \in 1..Len(w) : w[i] = u[i]
    <3> SUFFICES ASSUME NEW i \in 1..Len(w) PROVE w[i] = u[i]
      OBVIOUS
    <3>1. i \in 1..Len(q) - 1 /\ i \in 1..Len(q) /\ i + 1 \in 1..Len(q) /\ i \in 1..Len(p)
      BY <1>1, <2>5, <2>8
    <3>2. CASE i < k
      BY <1>1, <2>5, <2>7, <2>8, <3>1, <3>2, ZenonT(60)
    <3>3. CASE ~(i < k)
      BY <1>1, <2>5, <2>7, <2>8, <3>1, <3>3
    <3> QED
      BY <3>2, <3>3
  <2>10. w = u
    BY <1>1, <2>5, <2>7, <2>8, <2>9, SameElements
  <2> QED
    BY <2>2, <2>3, <2>10 DEF w, v
<1> QED
  BY <1>4, <1>5

\* The requests of the processors' queues, and what their fibers run.
Waiting == [c \in Cpus |-> View(queue[c], arg)]
Running == [c \in Cpus |-> IF pc[c] = "run" THEN cur[c] ELSE Nothing]

\* The steps of the queue, in terms of these.
LEMMA StepsNothing == UNCHANGED <<Waiting, Running>> => UNCHANGED Fifo!vars
  BY DEF Waiting, Running, View, Fifo!vars, Fifo!Nothing, Nothing

\* A request comes last.
LEMMA StepsPut ==
  ASSUME NEW c \in Cpus, NEW d \in Dpcs, NEW r \in Requests,
         \A i \in DOMAIN Waiting[c] : Waiting[c][i].dpc # d, UNCHANGED Running,
         Waiting' = [Waiting EXCEPT ![c] = Append(@, [dpc |-> d, req |-> r])]
  PROVE  Fifo!Next
<1>1. Fifo!Put(c)
  BY Zenon DEF Waiting, Running, View, Fifo!Put
<1> QED
  BY <1>1 DEF Fifo!Next

\* The fiber of a processor takes the first.
LEMMA StepsTake ==
  ASSUME NEW c \in Cpus, Running[c] = Nothing, Waiting[c] # <<>>,
         Running' = [Running EXCEPT ![c] = Head(Waiting[c])],
         Waiting' = [Waiting EXCEPT ![c] = Tail(@)]
  PROVE  Fifo!Next
<1>1. Fifo!Take(c)
  BY Zenon DEF Waiting, Running, View, Fifo!Take, Fifo!Nothing, Nothing
<1> QED
  BY <1>1 DEF Fifo!Next

\* Its routine returns.
LEMMA StepsFinish ==
  ASSUME NEW c \in Cpus, Running[c] # Nothing, UNCHANGED Waiting,
         Running' = [Running EXCEPT ![c] = Nothing]
  PROVE  Fifo!Next
<1>1. Fifo!Finish(c)
  BY Zenon DEF Waiting, Running, View, Fifo!Finish, Fifo!Nothing, Nothing
<1> QED
  BY <1>1 DEF Fifo!Next

\* The specification of the queue takes out the same one.
LEMMA SameRemoval ==
  ASSUME NEW s, NEW d
  PROVE  Fifo!RemoveFirstMatch(s, LAMBDA r : r.dpc = d) = WithoutFirst(s, d)
  BY Zenon DEF WithoutFirst, RemoveFirstMatch, Fifo!RemoveFirstMatch, SelectInSeq,
               Fifo!SelectInSeq, RemoveAt, Fifo!RemoveAt, Min, Fifo!Min

\* A DPC is taken back from every queue.
LEMMA StepsCancel ==
  ASSUME NEW d \in Dpcs, UNCHANGED Running,
         Waiting' = [c \in Cpus |-> WithoutFirst(Waiting[c], d)]
  PROVE  Fifo!Next
<1>1. Waiting' = [c \in Cpus |-> Fifo!RemoveFirstMatch(Waiting[c], LAMBDA r : r.dpc = d)]
  BY SameRemoval, Zenon
<1>2. Fifo!Cancel(d)
  BY <1>1, Zenon DEF Waiting, Running, View, Fifo!Cancel
<1> QED
  BY <1>2 DEF Fifo!Next

\* At first the queues are empty.
LEMMA FifoInit == Init => Fifo!Init
<1> SUFFICES ASSUME Init PROVE Fifo!Init
  OBVIOUS
<1>1. \A c \in Cpus :
        /\ [i \in DOMAIN queue[c] |-> [dpc |-> queue[c][i], req |-> arg[queue[c][i]]]] = <<>>
        /\ pc[c] = "idle"
  BY DEF Init, Actors
<1> QED
  BY <1>1 DEF Fifo!Init, Fifo!Nothing, Nothing

\* The types the queues have.
LEMMA QueueTypes ==
  ASSUME TypesInv
  PROVE  /\ queue \in [Cpus -> Seq(Dpcs)] /\ arg \in [Dpcs -> Args]
         /\ \A c \in Cpus : Waiting[c] = View(queue[c], arg)
  BY DEF TypesInv, Waiting

\* A DPC in the queue of its processor comes last there, and is in no other queue.
LEMMA QueueSteps ==
  ASSUME IInv, NEW d \in Dpcs, Desired[d] \in Cpus, NEW r \in Requests,
         QueueProcessorDpc(d, r), UNCHANGED <<pc, cur>>
  PROVE  [Fifo!Next]_(Fifo!vars)
<1> DEFINE c == Desired[d]
<1>1. UNCHANGED Running
  BY DEF Running
<1>2. /\ queue \in [Cpus -> Seq(Dpcs)] /\ arg \in [Dpcs -> Args] /\ c \in Cpus /\ r \in Args
      /\ OwnQueue /\ \A e \in Cpus : Waiting[e] = View(queue[e], arg)
  BY QueueTypes DEF IInv, Args
<1>3. CASE UNCHANGED <<queue, event, arg>>
  <2>1. UNCHANGED Waiting
    BY <1>3 DEF Waiting
  <2> QED
    BY <1>1, <2>1, StepsNothing
<1>4. CASE /\ ~Contains(queue[c], d) /\ queue' = [queue EXCEPT ![c] = Append(@, d)]
           /\ arg' = [arg EXCEPT ![d] = r]
  <2>1. \A e \in Cpus : \A i \in 1..Len(queue[e]) : queue[e][i] # d
    <3> SUFFICES ASSUME NEW e \in Cpus, NEW i \in 1..Len(queue[e]), queue[e][i] = d PROVE FALSE
      OBVIOUS
    <3>1. e = c
      BY <1>2 DEF OwnQueue
    <3> QED
      BY <1>4, <3>1 DEF Contains
  <2>2. ASSUME NEW e \in Cpus, e # c PROVE View(queue'[e], arg') = View(queue[e], arg)
    <3>1. queue[e] \in Seq(Dpcs) /\ queue'[e] = queue[e]
      BY <1>2, <1>4, <2>2
    <3>2. \A i \in 1..Len(queue[e]) : queue[e][i] # d
      BY <2>1
    <3>3. SUFFICES ASSUME NEW q, q = queue[e], NEW h, h = arg'
                   PROVE  View(q, h) = View(q, arg)
      BY <3>1
    <3>4. q \in Seq(Dpcs) /\ (\A i \in 1..Len(q) : q[i] # d)
      BY <3>1, <3>2, <3>3
    <3>5. h = [arg EXCEPT ![d] = r]
      BY <1>2, <1>4, <3>3
    <3> QED
      BY <1>2, <1>4, <3>4, <3>5, ViewSame, ZenonT(60)
  <2>3. View(queue'[c], arg') = Append(View(queue[c], arg), [dpc |-> d, req |-> r])
    <3>1. queue[c] \in Seq(Dpcs) /\ queue'[c] = Append(queue[c], d)
      BY <1>2, <1>4
    <3>2. \A i \in 1..Len(queue[c]) : queue[c][i] # d
      BY <1>2, <2>1
    <3>3. SUFFICES ASSUME NEW q, q = queue[c], NEW h, h = arg', NEW p, p = Append(q, d),
                          NEW e, e = [dpc |-> d, req |-> r]
                   PROVE  View(p, h) = Append(View(q, arg), e)
      BY <3>1
    <3>4. q \in Seq(Dpcs) /\ (\A i \in 1..Len(q) : q[i] # d)
      BY <3>1, <3>2, <3>3
    <3>5. h = [arg EXCEPT ![d] = r]
      BY <1>4, <3>3
    <3>6. r \in Args /\ arg \in [Dpcs -> Args]
      BY <1>2
    <3>7. \A s, f, x : /\ s = Append(q, d) /\ f = [arg EXCEPT ![d] = r]
                       /\ x = [dpc |-> d, req |-> r]
                       => View(s, f) = Append(View(q, arg), x)
      BY <3>4, <3>6, ViewAppend, ZenonT(30)
    <3> QED
      BY <3>3, <3>5, <3>7
  <2>4. Waiting' = [Waiting EXCEPT ![c] = Append(@, [dpc |-> d, req |-> r])]
    <3> HIDE DEF c
    <3> QED
      BY <1>2, <2>2, <2>3 DEF Waiting
  <2>5. \A i \in DOMAIN Waiting[c] : Waiting[c][i].dpc # d
    <3>1. queue[c] \in Seq(Dpcs) /\ Waiting[c] = View(queue[c], arg)
      BY <1>2
    <3>2. /\ DOMAIN View(queue[c], arg) = 1..Len(queue[c])
          /\ \A i \in 1..Len(queue[c]) :
               View(queue[c], arg)[i] = [dpc |-> queue[c][i], req |-> arg[queue[c][i]]]
      BY <1>2, <3>1, ViewIs
    <3>3. ASSUME NEW i \in 1..Len(queue[c]) PROVE View(queue[c], arg)[i].dpc # d
      <4>1. View(queue[c], arg)[i] = [dpc |-> queue[c][i], req |-> arg[queue[c][i]]]
        BY <3>2
      <4>2. queue[c][i] # d
        BY <1>2, <2>1
      <4> QED
        BY <4>1, <4>2
    <3> QED
      BY <3>1, <3>2, <3>3
  <2> HIDE DEF c
  <2> QED
    BY <1>1, <1>2, <2>4, <2>5, StepsPut
<1> QED
  BY <1>3, <1>4 DEF QueueProcessorDpc

\* KeInsertQueueDpc.
LEMMA InsertSteps ==
  ASSUME IInv, NEW a \in Actors, NEW d \in Dpcs, KeInsertQueueDpc(a, d)
  PROVE  [Fifo!Next]_(Fifo!vars)
<1>1. /\ TypesInv /\ InDpc /\ OwnQueue /\ made' \in Requests /\ made' \in Args
      /\ queue \in [Cpus -> Seq(Dpcs)] /\ arg \in [Dpcs -> Args]
  BY DpcAssumption DEF IInv, KeInsertQueueDpc, Made, TypesInv, Args, Requests
<1>2. CASE InsertElsewhere(a, d)
  <2>1. Desired[d] \in Cpus /\ QueueProcessorDpc(d, made') /\ UNCHANGED <<pc, cur>>
    BY <1>2, DpcAssumption DEF InsertElsewhere, Elsewhere, actor
  <2> QED
    BY <1>1, <2>1, QueueSteps
<1>3. CASE InsertHere(a, d)
  <2>1. /\ UNCHANGED queue /\ arg' = [arg EXCEPT ![d] = made']
        /\ ~(Desired[d] # None /\ Contains(queue[Desired[d]], d))
    BY <1>3 DEF InsertHere, IsQueuedThere, IsProcessorDpcQueued, processor
  <2>2. ASSUME NEW c \in Cpus PROVE View(queue'[c], arg') = View(queue[c], arg)
    <3>1. queue[c] \in Seq(Dpcs) /\ queue'[c] = queue[c]
      BY <1>1, <2>1
    <3>2. \A i \in 1..Len(queue[c]) : queue[c][i] # d
      <4> SUFFICES ASSUME NEW i \in 1..Len(queue[c]), queue[c][i] = d PROVE FALSE
        OBVIOUS
      <4>1. Desired[d] = c /\ c # None
        BY <1>1, <3>1, DpcAssumption DEF OwnQueue, Actors
      <4> QED
        BY <2>1, <4>1 DEF Contains
    <3>3. SUFFICES ASSUME NEW q, q = queue[c], NEW h, h = arg'
                   PROVE  View(q, h) = View(q, arg)
      BY <3>1
    <3>4. q \in Seq(Dpcs) /\ (\A i \in 1..Len(q) : q[i] # d)
      BY <3>1, <3>2, <3>3
    <3>5. h = [arg EXCEPT ![d] = made']
      BY <1>1, <2>1, <3>3
    <3> QED
      BY <1>1, <2>1, <3>4, <3>5, ViewSame
  <2>3. UNCHANGED Waiting
    BY <2>2 DEF Waiting
  <2>4. UNCHANGED Running
    <3>1. CASE Defers(a)
      BY <1>3, <3>1 DEF InsertHere, actor, Running
    <3>2. CASE ~Defers(a)
      <4>1. /\ pc' = [pc EXCEPT ![a] = "run"]
            /\ cur' = [cur EXCEPT ![a] = [dpc |-> d, req |-> made']]
        BY <1>3, <3>2 DEF InsertHere, Runs, Goto
      <4>2. a \notin Cpus
        BY <1>1, <3>2, DpcAssumption DEF KeInsertQueueDpc, InGuest, InDpc, Defers
      <4>3. \A c \in Cpus : pc'[c] = pc[c] /\ cur'[c] = cur[c]
        BY <1>1, <4>1, <4>2 DEF TypesInv, Actors
      <4> QED
        BY <4>3 DEF Running
    <3> QED
      BY <3>1, <3>2
  <2> QED
    BY <2>3, <2>4, StepsNothing
<1> QED
  BY <1>2, <1>3 DEF KeInsertQueueDpc

\* KeRemoveQueueDpc.
LEMMA RemoveSteps ==
  ASSUME IInv, NEW a \in Actors, NEW d \in Dpcs, KeRemoveQueueDpc(a, d)
  PROVE  [Fifo!Next]_(Fifo!vars)
<1>1. /\ queue' = [c \in Cpus |-> RemoveFirst(queue[c], d)] /\ UNCHANGED <<arg, pc, cur>>
      /\ queue \in [Cpus -> Seq(Dpcs)] /\ arg \in [Dpcs -> Args]
      /\ \A c \in Cpus : Waiting[c] = View(queue[c], arg)
  BY QueueTypes DEF IInv, KeRemoveQueueDpc, actor
<1>2. ASSUME NEW c \in Cpus PROVE View(queue'[c], arg') = WithoutFirst(Waiting[c], d)
  <2>1. queue[c] \in Seq(Dpcs) /\ queue'[c] = RemoveFirst(queue[c], d) /\ arg' = arg
    BY <1>1
  <2>2. View(RemoveFirst(queue[c], d), arg) = WithoutFirst(View(queue[c], arg), d)
    BY <1>1, <2>1, ViewRemove
  <2> QED
    BY <1>1, <2>1, <2>2
<1>3. Waiting' = [c \in Cpus |-> WithoutFirst(Waiting[c], d)]
  <2>1. Waiting' = [c \in Cpus |-> View(queue'[c], arg')]
    BY DEF Waiting
  <2> QED
    BY <1>2, <2>1
<1>4. UNCHANGED Running
  BY <1>1 DEF Running
<1> QED
  BY <1>3, <1>4, StepsCancel

\* QueueDpc.
LEMMA TimerSteps ==
  ASSUME IInv, NEW d \in Dpcs, QueueDpc(d) PROVE [Fifo!Next]_(Fifo!vars)
<1>1. made' \in Requests /\ UNCHANGED <<pc, cur>>
  BY DpcAssumption DEF IInv, TypesInv, QueueDpc, Made, Requests, actor
<1>2. CASE ToProcessor(d) /\ UNCHANGED dispatch
  <2>1. Desired[d] \in Cpus /\ QueueProcessorDpc(d, made')
    BY <1>2, DpcAssumption DEF ToProcessor
  <2> QED
    BY <1>1, <2>1, QueueSteps
<1>3. CASE ToDispatch(d) /\ UNCHANGED <<queue, event, arg>>
  <2>1. UNCHANGED <<Waiting, Running>>
    BY <1>1, <1>3 DEF Waiting, Running
  <2> QED
    BY <2>1, StepsNothing
<1> QED
  BY <1>2, <1>3 DEF QueueDpc

\* A processor's fiber takes its next DPC when it runs none.
LEMMA LoopSteps ==
  ASSUME IInv, NEW c \in Cpus, Loop(c) PROVE [Fifo!Next]_(Fifo!vars)
<1>1. /\ pc[c] = "loop" /\ UNCHANGED arg /\ c \in Actors
      /\ queue \in [Cpus -> Seq(Dpcs)] /\ arg \in [Dpcs -> Args] /\ queue[c] \in Seq(Dpcs)
      /\ \A e \in Cpus : e \in Actors /\ Waiting[e] = View(queue[e], arg)
      /\ pc \in [Actors -> {"idle", "popped", "loop", "run", "fetch", "runDeferred", "drain"}]
      /\ cur \in [Actors -> [dpc : Dpcs \cup {None}, req : Args]]
  BY QueueTypes DEF IInv, TypesInv, Loop, Actors
<1>2. CASE queue[c] # <<>>
  <2>1. /\ cur' = [cur EXCEPT ![c] = [dpc |-> Head(queue[c]), req |-> arg[Head(queue[c])]]]
        /\ queue' = [queue EXCEPT ![c] = Tail(@)] /\ pc' = [pc EXCEPT ![c] = "run"]
    BY <1>2 DEF Loop, TakeFirst, Runs, Goto
  <2>2. /\ View(queue[c], arg) # <<>> /\ View(Tail(queue[c]), arg) = Tail(View(queue[c], arg))
        /\ Head(View(queue[c], arg)) = [dpc |-> Head(queue[c]), req |-> arg[Head(queue[c])]]
    BY <1>1, <1>2, ViewTail
  <2>3. \A e \in Cpus : queue'[e] = IF e = c THEN Tail(queue[c]) ELSE queue[e]
    BY <1>1, <2>1
  <2>4. Waiting' = [Waiting EXCEPT ![c] = Tail(@)]
    <3>1. Waiting' = [e \in Cpus |-> View(queue'[e], arg)]
      BY <1>1 DEF Waiting
    <3>2. Waiting = [e \in Cpus |-> View(queue[e], arg)]
      BY DEF Waiting
    <3> QED
      BY <2>2, <2>3, <3>1, <3>2
  <2>5. Running[c] = Nothing /\ Waiting[c] # <<>>
    BY <1>1, <2>2 DEF Running
  <2>6. Running' = [Running EXCEPT ![c] = Head(Waiting[c])]
    <3>1. /\ cur'[c] = Head(Waiting[c]) /\ pc'[c] = "run"
          /\ \A e \in Cpus \ {c} : cur'[e] = cur[e] /\ pc'[e] = pc[e]
      BY <1>1, <2>1, <2>2
    <3> QED
      BY <3>1 DEF Running
  <2> QED
    BY <2>4, <2>5, <2>6, StepsTake
<1>3. CASE queue[c] = <<>>
  <2>1. UNCHANGED <<queue, arg, cur>> /\ pc' = [pc EXCEPT ![c] = "drain"]
    BY <1>1, <1>3 DEF Loop, Goto
  <2>2. \A e \in Cpus : pc'[e] = "run" <=> pc[e] = "run"
    BY <1>1, <2>1
  <2>3. UNCHANGED <<Waiting, Running>>
    BY <2>1, <2>2 DEF Waiting, Running
  <2> QED
    BY <2>3, StepsNothing
<1> QED
  BY <1>2, <1>3

\* What a thread does that runs nothing from its processor's queue.
LEMMA OtherSteps ==
  ASSUME IInv, NEW a \in Actors, UNCHANGED <<queue, arg>>, NEW l, NEW x,
         pc' = [pc EXCEPT ![a] = l], UNCHANGED cur \/ cur' = [cur EXCEPT ![a] = x],
         a \in Cpus => pc[a] # "run" /\ l # "run"
  PROVE  [Fifo!Next]_(Fifo!vars)
<1>1. \A e \in Cpus : e # a => pc'[e] = pc[e] /\ cur'[e] = cur[e]
  BY DEF IInv, TypesInv, Actors
<1>2. a \in Cpus => pc[a] # "run" /\ pc'[a] # "run"
  BY DEF IInv, TypesInv
<1>3. UNCHANGED Running
  BY <1>1, <1>2 DEF Running
<1>4. UNCHANGED Waiting
  BY DEF Waiting
<1> QED
  BY <1>3, <1>4, StepsNothing

\* The routine of a DPC from the queue returns, or one that came another way.
LEMMA ReturnSteps ==
  ASSUME IInv, NEW a \in Actors, Return(a) PROVE [Fifo!Next]_(Fifo!vars)
<1>1. /\ cur' = [cur EXCEPT ![a] = Nothing] /\ pc' = [pc EXCEPT ![a] = Returned(a)]
      /\ Returned(a) # "run" /\ UNCHANGED <<queue, arg>>
      /\ pc \in [Actors -> {"idle", "popped", "loop", "run", "fetch", "runDeferred", "drain"}]
      /\ cur \in [Actors -> [dpc : Dpcs \cup {None}, req : Args]]
  BY DEF IInv, TypesInv, Return, Returned, Goto, processor
<1>2. CASE a \in Cpus /\ pc[a] = "run"
  <2>1. cur[a].dpc # None
    BY <1>2, DpcAssumption DEF IInv, HasDpc
  <2>2. Nothing.dpc = None
    BY DEF Nothing
  <2>3. Running[a] = cur[a] /\ cur[a] # Nothing
    BY <1>2, <2>1, <2>2 DEF Running
  <2>4. /\ pc'[a] # "run" /\ \A e \in Cpus : e # a => pc'[e] = pc[e] /\ cur'[e] = cur[e]
    BY <1>1 DEF Actors
  <2>5. Running' = [Running EXCEPT ![a] = Nothing]
    <3>1. Running' = [e \in Cpus |-> IF pc'[e] = "run" THEN cur'[e] ELSE Nothing]
      BY DEF Running, Nothing
    <3> HIDE DEF Nothing
    <3> QED
      BY <2>4, <3>1 DEF Running
  <2>6. UNCHANGED Waiting
    BY <1>1 DEF Waiting
  <2> QED
    BY <1>2, <2>3, <2>5, <2>6, StepsFinish
<1>3. CASE ~(a \in Cpus /\ pc[a] = "run")
  <2> DEFINE l == Returned(a)
             x == Nothing
  <2> HIDE DEF l, x
  <2>1. pc' = [pc EXCEPT ![a] = l] /\ cur' = [cur EXCEPT ![a] = x] /\ l # "run"
    BY <1>1 DEF l, x
  <2> QED
    BY <1>1, <1>3, <2>1, OtherSteps
<1> QED
  BY <1>2, <1>3

\* The other steps of a thread are none of its processor's queue.
LEMMA ThreadSteps ==
  ASSUME IInv, NEW a \in Actors,
         \/ a = Worker /\ (Pop \/ RunLambda)
         \/ a \in Hosts /\ Interrupt(a)
         \/ a \in Cpus /\ Wake(a)
         \/ Drain(a) \/ Fetch(a)
  PROVE  [Fifo!Next]_(Fifo!vars)
<1>w. Worker \notin Cpus /\ (a \in Hosts => a \notin Cpus)
  BY DpcAssumption
<1>1. CASE a = Worker /\ Pop
  <2> DEFINE x == Head(dispatchQueue)
  <2>1. /\ pc' = [pc EXCEPT ![a] = "popped"] /\ cur' = [cur EXCEPT ![a] = x]
        /\ UNCHANGED <<queue, arg>>
    BY <1>1 DEF Pop, Goto, processor
  <2> HIDE DEF x
  <2> QED
    BY <1>w, <1>1, <2>1, OtherSteps
<1>2. CASE a = Worker /\ RunLambda
  <2> DEFINE x == Nothing
  <2>1. /\ \E l \in {"run", "idle"} : pc' = [pc EXCEPT ![a] = l]
        /\ UNCHANGED cur \/ cur' = [cur EXCEPT ![a] = x]
        /\ UNCHANGED <<queue, arg>>
    BY <1>2 DEF RunLambda, Goto, processor
  <2> HIDE DEF x
  <2>2. PICK l \in {"run", "idle"} : pc' = [pc EXCEPT ![a] = l]
    BY <2>1
  <2> QED
    BY <1>w, <1>2, <2>1, <2>2, OtherSteps
<1>3. CASE a \in Hosts /\ Interrupt(a)
  <2>1. pc' = [pc EXCEPT ![a] = "run"] /\ UNCHANGED <<queue, arg, cur>>
    BY <1>3 DEF Interrupt, Goto, processor
  <2> QED
    BY <1>w, <1>3, <2>1, OtherSteps
<1>4. CASE a \in Cpus /\ Wake(a)
  <2>1. pc[a] = "idle" /\ pc' = [pc EXCEPT ![a] = "loop"] /\ UNCHANGED <<queue, arg, cur>>
    BY <1>4 DEF Wake, Goto
  <2> QED
    BY <2>1, OtherSteps
<1>5. CASE Drain(a)
  <2>1. pc[a] = "drain" /\ UNCHANGED <<queue, arg>>
    BY <1>5 DEF Drain, processor
  <2>2. CASE Own(a) # {}
    <3> DEFINE i == CHOOSE j \in Own(a) : \A k \in Own(a) : j <= k
               x == [dpc |-> deferred[i].dpc, req |-> 0]
    <3>1. pc' = [pc EXCEPT ![a] = "fetch"] /\ cur' = [cur EXCEPT ![a] = x]
      BY <1>5, <2>2, Zenon DEF Drain, Goto, Runs
    <3> HIDE DEF x
    <3> QED
      BY <2>1, <3>1, OtherSteps
  <2>3. CASE Own(a) = {}
    <3>1. pc' = [pc EXCEPT ![a] = "idle"] /\ UNCHANGED cur
      BY <1>5, <2>3 DEF Drain, Goto
    <3> QED
      BY <2>1, <3>1, OtherSteps
  <2> QED
    BY <2>2, <2>3
<1>6. CASE Fetch(a)
  <2> DEFINE x == [dpc |-> cur[a].dpc, req |-> arg[cur[a].dpc]]
  <2>1. /\ pc[a] = "fetch" /\ pc' = [pc EXCEPT ![a] = "runDeferred"]
        /\ cur' = [cur EXCEPT ![a] = x] /\ UNCHANGED <<queue, arg>>
    BY <1>6 DEF Fetch, Goto, Runs, processor
  <2> HIDE DEF x
  <2> QED
    BY <2>1, OtherSteps
<1> QED
  BY <1>1, <1>2, <1>3, <1>4, <1>5, <1>6

\* Each processor's queue keeps its requests, each with its own arguments, and its fiber
\* runs them one at a time in the order they came, whoever else uses the same DPC.
THEOREM QueuesAreFifo == Spec => ImplementsFifo
<1>1. IInv /\ [Next]_vars => [Fifo!Next]_(Fifo!vars)
  <2>1. ASSUME IInv, NEW a \in Actors, Proceeds(a) PROVE [Fifo!Next]_(Fifo!vars)
    BY <2>1, ThreadSteps, LoopSteps, ReturnSteps DEF Proceeds
  <2>2. ASSUME IInv, NEW a \in Actors, NEW d \in Dpcs,
               KeInsertQueueDpc(a, d) \/ KeRemoveQueueDpc(a, d)
        PROVE  [Fifo!Next]_(Fifo!vars)
    BY <2>2, InsertSteps, RemoveSteps
  <2>3. ASSUME IInv, NEW d \in Dpcs, QueueDpc(d) PROVE [Fifo!Next]_(Fifo!vars)
    BY <2>3, TimerSteps
  <2>4. ASSUME IInv, NEW a \in Hosts, Interrupt(a) PROVE [Fifo!Next]_(Fifo!vars)
    BY <2>4, ThreadSteps DEF Actors
  <2>5. ASSUME UNCHANGED vars PROVE [Fifo!Next]_(Fifo!vars)
    <3>1. UNCHANGED <<Waiting, Running>>
      BY <2>5 DEF vars, processor, actor, Waiting, Running
    <3> QED
      BY <3>1, StepsNothing
  <2> QED
    BY <2>1, <2>2, <2>3, <2>4, <2>5 DEF Next
<1> QED
  BY <1>1, IInvAlways, FifoInit, PTL DEF Spec, ImplementsFifo, Fifo!Spec
=============================================================================
