------------------------------ MODULE FifoMutex ------------------------------
(***************************************************************************)
(* What a mutant promises its waiters: one holder at a time, and a free    *)
(* mutant goes to the thread that has waited longest.                      *)
(***************************************************************************)
EXTENDS Naturals, Sequences

CONSTANTS Threads, NoThread

VARIABLES holder, queue

Init == holder = NoThread /\ queue = <<>>

Join(t) ==
  /\ t \notin {queue[i] : i \in DOMAIN queue}
  /\ queue' = Append(queue, t)
  /\ UNCHANGED holder

\* Only the front of the queue takes a free mutant.
Take(t) ==
  /\ holder = NoThread /\ queue # <<>> /\ Head(queue) = t
  /\ holder' = t
  /\ UNCHANGED queue

\* The wait is over, won or not; the others keep their order.
Quit(t) ==
  /\ \E k \in DOMAIN queue :
       /\ queue[k] = t
       /\ queue' = [j \in 1..(Len(queue) - 1) |-> IF j < k THEN queue[j] ELSE queue[j + 1]]
  /\ UNCHANGED holder

Release(t) == holder = t /\ holder' = NoThread /\ UNCHANGED queue

Next == \E t \in Threads : Join(t) \/ Take(t) \/ Quit(t) \/ Release(t)

Spec == Init /\ [][Next]_<<holder, queue>>
=============================================================================
