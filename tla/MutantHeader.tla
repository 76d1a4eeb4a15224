----------------------------- MODULE MutantHeader -----------------------------
(***************************************************************************)
(* The owner, recursion and permit of a mutant beside its guest header     *)
(* (kernel/xmutant.cc).  No lock covers them together: ReleaseMutant,      *)
(* WaitCallback and SyncFromGuest order their accesses so that a call of   *)
(* the kernel never looks like a store of the guest, which re-initializes  *)
(* a KMUTANT in place by storing 1 in signal_state.                        *)
(***************************************************************************)
EXTENDS Integers, FiniteSets

CONSTANTS
  Threads, None,
  Ops,             \* "address", "store", "abandon", "handoff"
  MaxRecursion     \* bound: recursive acquisitions

\* What the constants have to be.
MutantAssumption == None \notin Threads /\ MaxRecursion \in Nat \ {0}

VARIABLES
  owner, recursion,    \* owning_thread_, recursion_count_
  permit,              \* of free_signal_
  header,              \* signal_state: 1 free, 0 held once, less if recursively
  globalLock,          \* the thread in the global critical region
  pc, next,            \* the step of a call; the operation after the lookup
  sampled,             \* the owner that SyncFromGuest read
  reinit               \* the guest re-initialized it since it was acquired last

kernel == <<owner, recursion, permit, header>>
thread == <<globalLock, pc, next, sampled>>
vars == <<kernel, thread, reinit>>

Steps == {"idle", "compare", "swap", "release", "bump", "free", "permit",
          "acquire", "count", "own", "abandon"}
TypeOK ==
  /\ owner \in Threads \cup {None} /\ recursion \in Nat /\ permit \in Nat
  /\ header \in Int /\ globalLock \in Threads \cup {None}
  /\ pc \in [Threads -> Steps] /\ next \in [Threads -> Steps]
  /\ sampled \in [Threads -> Threads \cup {None}] /\ reinit \in BOOLEAN

Init ==
  /\ owner = None /\ recursion = 0 /\ permit = 1 /\ header = 1 /\ globalLock = None
  /\ pc = [t \in Threads |-> "idle"] /\ next = [t \in Threads |-> "idle"]
  /\ sampled = [t \in Threads |-> None] /\ reinit = FALSE

Goto(t, s) == pc' = [pc EXCEPT ![t] = s]
Local == UNCHANGED <<globalLock, next, sampled>>
Quiet == \A t \in Threads : pc[t] = "idle"

-----------------------------------------------------------------------------
\* A call that is given the header's address looks the mutant up in the global
\* critical region, with SyncFromGuest there; one by handle only looks it up.
Unlocked == TRUE                 \* a bug: it does not hold the region
LookupFree == globalLock = None

Sync(t, op) ==
  /\ pc[t] = "idle" /\ LookupFree /\ next' = [next EXCEPT ![t] = op]
  /\ sampled' = [sampled EXCEPT ![t] = owner]
  /\ IF owner = None THEN Goto(t, op) /\ UNCHANGED globalLock
     ELSE Goto(t, "compare") /\ globalLock' = t
ByAddress(t, op) == "address" \in Ops /\ Sync(t, op) /\ UNCHANGED <<kernel, reinit>>
ByHandle(t, op) ==
  /\ pc[t] = "idle" /\ LookupFree /\ Goto(t, op) /\ UNCHANGED <<kernel, reinit, globalLock>>
  /\ UNCHANGED <<next, sampled>>

LeaveSync(t) == Goto(t, next[t]) /\ globalLock' = None /\ UNCHANGED <<next, sampled>>
Compare(t) ==
  /\ pc[t] = "compare" /\ UNCHANGED <<kernel, reinit>>
  /\ IF header < 1 THEN LeaveSync(t)
     ELSE Goto(t, "swap") /\ UNCHANGED <<globalLock, next, sampled>>
SwapAny(t) == owner # None                     \* a bug: whoever owns it by now
StillOwned(t) == owner = sampled[t]
Swap(t) ==
  /\ pc[t] = "swap" /\ LeaveSync(t) /\ UNCHANGED <<header, reinit>>
  /\ IF StillOwned(t) THEN owner' = None /\ recursion' = 0 /\ permit' = permit + 1
     ELSE UNCHANGED <<owner, recursion, permit>>

-----------------------------------------------------------------------------
\* ReleaseMutant: ownership goes before the header tells, the permit comes last.
\* A hand-off (SignalAndWait on one mutant) goes on to wait without a lookup.
NobodyElse(t) == FALSE           \* a bug: not refused
NotOwned(t) == owner # t
ReleaseMutant(t) ==
  /\ pc[t] = "release" /\ Local /\ UNCHANGED <<permit, header, reinit>>
  /\ IF NotOwned(t) THEN Goto(t, "idle") /\ UNCHANGED <<owner, recursion>>
     ELSE /\ recursion' = recursion - 1
          /\ owner' = IF recursion = 1 THEN None ELSE t
          /\ Goto(t, IF recursion = 1 THEN "free" ELSE "bump")
Bump(t) ==
  /\ pc[t] \in {"bump", "free"} /\ header' = header + 1 /\ Local
  /\ Goto(t, IF pc[t] = "free" THEN "permit" ELSE "idle")
  /\ UNCHANGED <<owner, recursion, permit, reinit>>
Free(t) ==
  /\ pc[t] = "permit" /\ permit' = permit + 1 /\ Local
  /\ Goto(t, "idle") \/ ("handoff" \in Ops /\ Goto(t, "acquire"))
  /\ UNCHANGED <<owner, recursion, header, reinit>>

\* A wait takes the permit, or needs none if it owns the mutant; WaitCallback
\* tells the header before it takes ownership.
Looks == permit                  \* a bug: looks without taking
Taken == permit - 1
Take(t) ==
  /\ pc[t] = "acquire" /\ Local /\ UNCHANGED <<owner, recursion, header, reinit>>
  /\ \/ owner = t /\ recursion < MaxRecursion /\ UNCHANGED permit
     \/ owner # t /\ permit > 0 /\ permit' = Taken
  /\ Goto(t, "count")
GiveUp(t) == pc[t] = "acquire" /\ Goto(t, "idle") /\ Local /\ UNCHANGED <<kernel, reinit>>

OwnerFirst(t) == pc[t] = "own"   \* a bug: the other order
HeaderFirst(t) == pc[t] = "count"
WaitCallback(t) ==
  /\ pc[t] \in {"count", "own"} /\ Local /\ UNCHANGED permit
  /\ Goto(t, IF pc[t] = "count" THEN "own" ELSE "idle")
  /\ IF HeaderFirst(t) THEN header' = header - 1 /\ UNCHANGED <<owner, recursion, reinit>>
     ELSE /\ owner' = t /\ recursion' = (IF owner = t THEN recursion + 1 ELSE 1)
          /\ reinit' = (owner = t /\ reinit) /\ UNCHANGED header

\* Nobody else uses the mutant when the guest re-initializes it, before it calls the
\* kernel with its address.
Store(t) ==
  /\ "store" \in Ops /\ Quiet /\ owner \in {t, None}
  /\ header' = 1 /\ reinit' = TRUE /\ Sync(t, "acquire")
  /\ UNCHANGED <<owner, recursion, permit>>

\* AbandonAllOwnedByThread of a thread that exits: the header, a lookup, the owner.
Abandon(t) ==
  /\ "abandon" \in Ops /\ pc[t] = "idle" /\ owner = t
  /\ header' = 1 /\ Goto(t, "abandon") /\ Local /\ UNCHANGED <<owner, recursion, permit, reinit>>
Disown(t) ==
  /\ pc[t] = "abandon" /\ LookupFree /\ Goto(t, "idle") /\ Local /\ UNCHANGED <<header, reinit>>
  /\ IF owner # None THEN owner' = None /\ recursion' = 0 /\ permit' = permit + 1
     ELSE UNCHANGED <<owner, recursion, permit>>

Next ==
  \E t \in Threads :
    \/ \E op \in {"release", "acquire"} : ByAddress(t, op) \/ ByHandle(t, op)
    \/ Store(t) \/ Compare(t) \/ Swap(t)
    \/ ReleaseMutant(t) \/ Bump(t) \/ Free(t)
    \/ Take(t) \/ GiveUp(t) \/ WaitCallback(t)
    \/ Abandon(t) \/ Disown(t)

Spec == Init /\ [][Next]_vars

-----------------------------------------------------------------------------
\* There is one permit: the host primitive has it, or the owner, or a call on its way.
Carried ==
  {t \in Threads : pc[t] \in {"free", "permit"} \/ (pc[t] \in {"count", "own"} /\ owner # t)}
OnePermit == permit + Cardinality(Carried) + (IF owner = None THEN 0 ELSE 1) = 1

\* SyncFromGuest frees a mutant only if the guest re-initialized it: the calls of
\* the kernel never look like it.
OnlyGuestFrees == [][\A t \in Threads : Swap(t) /\ owner' # owner => reinit]_vars

\* With no call under way the header tells how often the mutant is held, unless
\* the guest stored in it.
HeaderTells == (Quiet /\ ~reinit) => header = 1 - recursion
================================================================================
