---------------------------- MODULE IntrusiveList ----------------------------
(***************************************************************************)
(* The singly-linked lists of kernel/guest_scheduler.cc, linked through    *)
(* XThread::SchedulerLinks::ready_next, as sequences of threads.           *)
(***************************************************************************)
EXTENDS Naturals, Sequences

Elems(s) == {s[i] : i \in DOMAIN s}
Distinct(s) == \A i, j \in DOMAIN s : s[i] = s[j] => i = j

LinkTail(s, t) == Append(s, t)
LinkHead(s, t) == <<t>> \o s

\* The walk stops at the first link to t; a list without t is left as it is.
Unlink(s, t) ==
  IF t \notin Elems(s) THEN s
  ELSE LET k == CHOOSE i \in DOMAIN s :
                  s[i] = t /\ \A j \in DOMAIN s : j < i => s[j] # t
       IN [j \in 1..(Len(s) - 1) |-> IF j < k THEN s[j] ELSE s[j + 1]]
=============================================================================
