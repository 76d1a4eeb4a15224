------------------------------ MODULE PhysicalHeap ------------------------------
(***************************************************************************)
(* The watches on physical memory (PhysicalHeap in memory.cc) and the      *)
(* pages the GPU's copy of it holds (gpu/shared_memory.cc).                *)
(*                                                                         *)
(* The memory shows in several views, each with a host protection and with *)
(* watches of its own: on writes, to throw the GPU's copy away, and on any *)
(* access, to bring in what the GPU wrote. The guest's own protection      *)
(* belongs to the view the memory was allocated through. The pages are     *)
(* those of one block of 64 flags. All of this is under the global         *)
(* critical region: every operator here is one section of it.              *)
(***************************************************************************)
EXTENDS Naturals, FiniteSets

CONSTANTS Pages,     \* consecutive numbers
          Views, Home

\* What the constants have to be.
HeapAssumption == Pages \subseteq Nat /\ Home \in Views

VARIABLES guest,      \* the guest's protection of a page: current_protect, or none
          watch,      \* host protection, notify_on_invalidation and notify_on_read
          valid,      \* system_page_flags_valid_
          gpuWritten  \* system_page_flags_valid_and_gpu_written_
heapVars == <<guest, watch, valid, gpuWritten>>

Accesses == {"na", "ro", "rw"}

HeapTypeOK ==
  /\ guest \in [Pages -> {"none", "ro", "rw"}]
  /\ watch \in [Views -> [Pages -> [host : Accesses, inv : BOOLEAN, read : BOOLEAN]]]
  /\ valid \subseteq Pages
  /\ gpuWritten \subseteq valid

HeapInit ==
  /\ guest = [p \in Pages |-> "rw"]
  /\ watch = [v \in Views |-> [p \in Pages |-> [host |-> "rw", inv |-> FALSE, read |-> FALSE]]]
  /\ valid = {}
  /\ gpuWritten = {}

Permits(v, p, write) == watch[v][p].host \in IF write THEN {"rw"} ELSE {"ro", "rw"}

\* Watches on writes. A page with a read watch is protected more already.
ArmedWrite(v, ps) ==
  [p \in Pages |->
     LET f == watch[v][p] IN
     IF p \in ps /\ guest[p] = "rw" /\ ~f.inv
     THEN [f EXCEPT !.inv = TRUE, !.host = IF f.read THEN @ ELSE "ro"] ELSE f]

\* Watches on any access.
ArmedRead(v, ps) ==
  [p \in Pages |->
     LET f == watch[v][p] IN
     IF p \in ps /\ guest[p] # "none" /\ ~f.read
     THEN [f EXCEPT !.read = TRUE, !.host = "na"] ELSE f]

AnyWatched(v, ps) == \E p \in ps : watch[v][p].inv \/ watch[v][p].read

\* The range around ps that can be invalidated without losing what the GPU wrote.
Widened(ps) ==
  {p \in Pages : \A g \in gpuWritten \ ps :
                   /\ (\A q \in ps : g < q) => g < p
                   /\ (\A q \in ps : g > q) => p < g}

Range(ps, exact) == IF exact THEN ps ELSE Widened(ps)

\* A bug: only the pages written are thrown away, those unwatched around them not.
InvalidateWritten(ps, range) ==
  /\ valid' = valid \ ps
  /\ gpuWritten' = gpuWritten \ ps

\* A bug: what was thrown away is still taken for written by the GPU.
InvalidateValid(ps, range) ==
  /\ valid' = valid \ range
  /\ UNCHANGED gpuWritten

Invalidate(ps, range) ==
  /\ valid' = valid \ range
  /\ gpuWritten' = gpuWritten \ range

\* A bug: a page that waits for what the GPU wrote stays protected when it is written.
UnwatchedKept(v, range, unprotect) ==
  [p \in Pages |->
     LET f == watch[v][p] IN
     IF p \in range
     THEN [host |-> IF unprotect /\ f.inv /\ ~f.read /\ guest[p] = "rw" THEN "rw" ELSE f.host,
           inv |-> FALSE, read |-> FALSE]
     ELSE f]

\* Drops every watch in the range. Only what the guest can write is unprotected.
Unwatched(v, range, unprotect) ==
  [p \in Pages |->
     LET f == watch[v][p] IN
     IF p \in range
     THEN [host |-> IF unprotect /\ (f.inv \/ f.read) /\ guest[p] = "rw" THEN "rw" ELSE f.host,
           inv |-> FALSE, read |-> FALSE]
     ELSE f]

\* A bug: a page read for the first time becomes writable although writes are watched.
ReadUnwatchedFully(v, ps) ==
  [p \in Pages |->
     LET f == watch[v][p] IN
     IF p \in ps /\ f.read THEN [f EXCEPT !.read = FALSE, !.host = guest[p]] ELSE f]

\* Drops the watches on any access, after the first read.
ReadUnwatched(v, ps) ==
  [p \in Pages |->
     LET f == watch[v][p] IN
     IF p \in ps /\ f.read
     THEN [f EXCEPT !.read = FALSE,
                    !.host = IF guest[p] = "none" THEN "na" ELSE IF f.inv THEN "ro" ELSE guest[p]]
     ELSE f]

\* MakeRangeValid, up to the watches, which follow without the region.
MarkValid(ps, byGpu) ==
  /\ valid' = valid \cup ps
  /\ gpuWritten' = IF byGpu THEN gpuWritten \cup ps ELSE gpuWritten \ ps

\* BaseHeap::Protect: the table and the host protection, whatever is watched.
ProtectPage(p, access) ==
  /\ guest' = [guest EXCEPT ![p] = access]
  /\ watch' = [watch EXCEPT ![Home][p].host = access]
=============================================================================
