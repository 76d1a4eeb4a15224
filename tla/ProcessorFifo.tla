---------------------------- MODULE ProcessorFifo -----------------------------
(***************************************************************************)
(* What the DPC queue of a processor promises: requests run one at a time, *)
(* in the order in which they came, with the arguments they came with.     *)
(***************************************************************************)
EXTENDS Naturals, SequencesExt

CONSTANTS Cpus, Dpcs, Requests, None

VARIABLES waiting, running     \* per processor: requests in order; what runs

vars == <<waiting, running>>

Nothing == [dpc |-> None, req |-> 0]

Init == waiting = [c \in Cpus |-> <<>>] /\ running = [c \in Cpus |-> Nothing]

\* A DPC is there once.
Put(c) ==
  \E d \in Dpcs, r \in Requests :
    /\ \A i \in DOMAIN waiting[c] : waiting[c][i].dpc # d
    /\ waiting' = [waiting EXCEPT ![c] = Append(@, [dpc |-> d, req |-> r])]
    /\ UNCHANGED running

Take(c) ==
  /\ running[c] = Nothing /\ waiting[c] # <<>>
  /\ running' = [running EXCEPT ![c] = Head(waiting[c])]
  /\ waiting' = [waiting EXCEPT ![c] = Tail(@)]

Finish(c) ==
  /\ running[c] # Nothing /\ running' = [running EXCEPT ![c] = Nothing]
  /\ UNCHANGED waiting

\* A DPC is taken back.
Cancel(d) ==
  /\ waiting' = [c \in Cpus |-> RemoveFirstMatch(waiting[c], LAMBDA r : r.dpc = d)]
  /\ UNCHANGED running

Next == (\E c \in Cpus : Put(c) \/ Take(c) \/ Finish(c)) \/ \E d \in Dpcs : Cancel(d)

Spec == Init /\ [][Next]_vars
================================================================================
