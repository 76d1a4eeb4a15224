-------------------------- MODULE MCGuestScheduler --------------------------
(***************************************************************************)
(* The scheduler with two CPUs.  Some workloads move threads between their *)
(* dispatch threads; in the others ("alone") all threads stay on one CPU,  *)
(* and only its dispatch thread takes steps.                               *)
(***************************************************************************)
EXTENDS SchedulerProperties, TLC

Used(c) == \E t \in Threads : currentCpu[t] = c

\* Bound: the steps that are explored.
MCNext ==
  /\ Next
  /\ "alone" \in workload => /\ UNCHANGED currentCpu
                             /\ \A c \in Cpus : ~Used(c) => pc'[c] = pc[c]

MCSpec == Init /\ [][MCNext]_vars

Sym == Permutations(Threads) \cup Permutations(Cpus)
=============================================================================
