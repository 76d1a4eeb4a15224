----------------------------- MODULE SignalHeader -----------------------------
(***************************************************************************)
(* The guest dispatch header of an event or a semaphore beside the host    *)
(* primitive (kernel/xevent.cc, kernel/xsemaphore.cc).  Titles inline some *)
(* kernel calls and store signal_state themselves; SyncFromGuest, at the   *)
(* head of every call that is given the header's address, compares it with *)
(* what the kernel stored last and brings the primitive along.             *)
(*                                                                         *)
(* Header, mirror and primitive change under one lock, except that a wait  *)
(* takes from the primitive first and calls WaitCallback later.            *)
(***************************************************************************)
EXTENDS Integers, FiniteSets

CONSTANTS
  Threads,
  Kind,            \* "auto", "manual" or "semaphore"
  Limit,           \* the limit of the semaphore, 1 for an event
  Stores           \* what the guest may store in the header; {} if it never does

\* What the constants have to be.
HeaderAssumption ==
  Kind \in {"auto", "manual", "semaphore"} /\ Limit \in Nat \ {0} /\ Stores \subseteq Nat
  /\ IsFiniteSet(Threads)

VARIABLES
  count,           \* of the host primitive; 1 if a host event is signaled
  host,            \* host_count_ or host_signaled_
  header,          \* signal_state
  taken,           \* the threads between their poll and its WaitCallback
  stored           \* the guest stored and no SyncFromGuest came since

vars == <<count, host, header, taken, stored>>
Event == Kind # "semaphore"

TypeOK ==
  /\ count \in 0..Limit /\ host \in Int /\ header \in Int
  /\ taken \subseteq Threads /\ stored \in BOOLEAN

Init ==
  /\ count \in {0, 1} /\ host = count /\ header = count
  /\ taken = {} /\ stored = FALSE

\* A guest store leaves the header unknown to the kernel until it looks.
Store == /\ \E v \in Stores : header' = v
         /\ stored' = TRUE /\ UNCHANGED <<count, host, taken>>

-----------------------------------------------------------------------------
\* SyncFromGuest of an event and of a semaphore.
SyncEvent ==
  LET now == IF header # 0 THEN 1 ELSE 0
  IN IF now = host THEN UNCHANGED <<count, host, header>>
     ELSE host' = now /\ count' = now /\ UNCHANGED header

CountsAll(more) == more                       \* a bug: drains without counting
Drained(more) == IF more < count THEN more ELSE count
GuestAdds ==
  IF count + (header - host) > Limit THEN UNCHANGED <<count, host, header>>
  ELSE count' = count + (header - host) /\ host' = header /\ UNCHANGED header
GuestTakes ==
  LET n == Drained(host - header)
  IN count' = (IF n < count THEN count - n ELSE 0) /\ host' = host - n /\ header' = host'
SyncSemaphore ==
  IF header > host THEN GuestAdds
  ELSE IF header < host THEN GuestTakes ELSE UNCHANGED <<count, host, header>>

SyncFromGuest ==
  /\ IF Event THEN SyncEvent ELSE SyncSemaphore
  /\ stored' = FALSE /\ UNCHANGED taken

-----------------------------------------------------------------------------
Become(v) == count' = v /\ host' = v /\ header' = v /\ stored' = FALSE /\ UNCHANGED taken

Set == Event /\ Become(1)
Reset == Event /\ Become(0)
\* Pulse is a set if a fiber is queued, and leaves the event reset otherwise.
Pulse == Event /\ (Become(0) \/ (Kind = "auto" /\ Become(1)))

AnyCount(n) == TRUE                           \* a bug: beyond the limit
WithinLimit(n) == count + n <= Limit
ReleaseSemaphore(n) ==
  /\ ~Event /\ WithinLimit(n)
  /\ count' = count + n /\ host' = host + n /\ header' = host'
  /\ stored' = FALSE /\ UNCHANGED taken

\* A wait takes from the primitive, and tells the header later.
Poll(t) ==
  /\ t \notin taken /\ count > 0
  /\ count' = IF Kind = "manual" THEN count ELSE count - 1
  /\ taken' = taken \cup {t} /\ UNCHANGED <<host, header, stored>>

Kept == host                                  \* a bug: nobody is told
AfterTake == IF Event THEN 0 ELSE host - 1
WaitCallback(t) ==
  /\ t \in taken /\ taken' = taken \ {t}
  /\ IF Kind = "manual" THEN UNCHANGED <<host, header, stored>>
     ELSE host' = AfterTake /\ header' = host' /\ stored' = FALSE
  /\ UNCHANGED count

Next ==
  \/ Store \/ SyncFromGuest \/ Set \/ Reset \/ Pulse
  \/ \E n \in 1..Limit : ReleaseSemaphore(n)
  \/ \E t \in Threads : Poll(t) \/ WaitCallback(t)

Spec == Init /\ [][Next]_vars

-----------------------------------------------------------------------------
\* A semaphore's mirror counts the permits, those included that a wait has
\* taken and not yet told: no reconciliation invents a permit or drops one.
CountExact == ~Event => host = count + Cardinality(taken)

\* An event that the kernel calls signaled is: or a wait has just taken it.
SignaledIsSo == (Event /\ host = 1) => (count = 1 \/ taken # {})

\* Once the kernel looked at the header and no wait is under way, the next wait
\* finds what the header says.
HeaderIsTrue == (Event /\ taken = {} /\ ~stored) => (count = 1 <=> header # 0)
================================================================================
