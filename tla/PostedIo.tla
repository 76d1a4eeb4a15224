------------------------------- MODULE PostedIo -------------------------------
(***************************************************************************)
(* Asynchronous requests on one file: XFile::PostIo, RunPostedIo,          *)
(* CancelPostedIo and NtCancelIoFile.  A file has one runner at a time,    *)
(* which posted_running_ stands for: it is a host call posted to the       *)
(* workers of BlockingIo, or the issuing thread itself once shutdown began. *)
(*                                                                         *)
(* Requests are numbered in the order they are posted.                     *)
(***************************************************************************)
EXTENDS Naturals, Sequences, FiniteSets

CONSTANTS
  Threads,    \* guest threads that issue requests on the file
  Workers,    \* I/O workers that may run a host call
  MaxPosts,   \* bound: requests ever posted
  Ops,        \* "cancel", "shutdown"
  NoThread

\* What the constants have to be.
PostedAssumption ==
  MaxPosts \in Nat /\ Threads \cap Workers = {} /\ NoThread \notin Threads

Runners == Threads \cup Workers

VARIABLES
  posts,            \* how many requests were posted
  issuer, status,   \* of each request
  posted,           \* posted_, without the functions
  postedRunning, runningThread,
  hostCalls,        \* RunPostedIo calls queued for a worker
  pc,               \* a thread in PostIo or NtCancelIoFile
  runPc, current,   \* a runner in RunPostedIo, and the request it runs
  shuttingDown

vars == <<posts, issuer, status, posted, postedRunning, runningThread, hostCalls, pc,
          runPc, current, shuttingDown>>

Requests == 1..MaxPosts

TypeOK ==
  /\ posts \in 0..MaxPosts
  /\ issuer \in [Requests -> Threads \cup {NoThread}]
  /\ status \in [Requests -> {"none", "posted", "running", "done", "cancelling",
                              "cancelled"}]
  /\ posted \in Seq(Requests)
  /\ postedRunning \in BOOLEAN /\ runningThread \in Threads \cup {NoThread}
  /\ hostCalls \in 0..1
  /\ pc \in [Threads -> {"idle", "post", "cancel", "cancelled", "polling"}]
  /\ runPc \in [Runners -> {"idle", "top", "run", "relock"}]
  /\ current \in [Runners -> 0..MaxPosts]
  /\ shuttingDown \in BOOLEAN

Init ==
  /\ posts = 0
  /\ issuer = [r \in Requests |-> NoThread] /\ status = [r \in Requests |-> "none"]
  /\ posted = <<>> /\ postedRunning = FALSE /\ runningThread = NoThread /\ hostCalls = 0
  /\ pc = [t \in Threads |-> "idle"]
  /\ runPc = [x \in Runners |-> "idle"] /\ current = [x \in Runners |-> 0]
  /\ shuttingDown = FALSE

Goto(t, step) == pc' = [pc EXCEPT ![t] = step]
RunTo(x, step) == runPc' = [runPc EXCEPT ![x] = step]
Free(t) == pc[t] = "idle" /\ runPc[t] = "idle"

-----------------------------------------------------------------------------
\* PostIo under posted_lock_: only the first request asks for a runner.
HasRunnerIfBusy == runningThread # NoThread    \* a bug: a runner between two requests
HasRunner == postedRunning
PostIo(t) ==
  /\ Free(t) /\ posts < MaxPosts
  /\ posts' = posts + 1
  /\ issuer' = [issuer EXCEPT ![posts + 1] = t]
  /\ status' = [status EXCEPT ![posts + 1] = "posted"]
  /\ posted' = Append(posted, posts + 1)
  /\ IF HasRunner THEN UNCHANGED <<postedRunning, pc>>
                  ELSE postedRunning' = TRUE /\ Goto(t, "post")
  /\ UNCHANGED <<runningThread, hostCalls, runPc, current, shuttingDown>>

\* PostHostCall, which runs the call inline once shutdown began.
PostHostCall(t) ==
  /\ pc[t] = "post"
  /\ Goto(t, "idle")
  /\ IF shuttingDown THEN RunTo(t, "top") /\ UNCHANGED hostCalls
                     ELSE hostCalls' = hostCalls + 1 /\ UNCHANGED runPc
  /\ UNCHANGED <<posts, issuer, status, posted, postedRunning, runningThread, current,
                 shuttingDown>>

WorkerTakes(w) ==
  /\ runPc[w] = "idle" /\ hostCalls > 0
  /\ hostCalls' = hostCalls - 1
  /\ RunTo(w, "top")
  /\ UNCHANGED <<posts, issuer, status, posted, postedRunning, runningThread, pc,
                 current, shuttingDown>>

\* One critical section of RunPostedIo: the last request is over, the next is taken, or
\* the runner ends.
RunnerStays == postedRunning               \* a bug: posted_running_ is never cleared
RunnerEnds == FALSE
RunningIfMore == Len(posted) > 1           \* a bug: cleared when the last one is taken
StillRunning == postedRunning
RunPostedIo(x) ==
  /\ runPc[x] \in {"top", "relock"}
  /\ IF posted = <<>>
     THEN /\ postedRunning' = RunnerEnds
          /\ runningThread' = IF runPc[x] = "relock" THEN NoThread ELSE runningThread
          /\ RunTo(x, "idle")
          /\ current' = [current EXCEPT ![x] = 0]
          /\ UNCHANGED <<posted, status>>
     ELSE /\ current' = [current EXCEPT ![x] = Head(posted)]
          /\ posted' = Tail(posted)
          /\ runningThread' = issuer[Head(posted)]
          /\ status' = [status EXCEPT ![Head(posted)] = "running"]
          /\ RunTo(x, "run")
          /\ postedRunning' = StillRunning
  /\ UNCHANGED <<posts, issuer, hostCalls, pc, shuttingDown>>

\* fn(false), outside the lock.
Complete(x) ==
  /\ runPc[x] = "run"
  /\ status' = [status EXCEPT ![current[x]] = "done"]
  /\ RunTo(x, "relock")
  /\ UNCHANGED <<posts, issuer, posted, postedRunning, runningThread, hostCalls, pc,
                 current, shuttingDown>>

-----------------------------------------------------------------------------
(* NtCancelIoFile. *)

\* The elements of s at the indices K, in their order: the k-th has k of K up to it
\* (SelectSeq by ranks, without its recursion).
At(s, K) ==
  LET Nth(k) == CHOOSE i \in K : Cardinality({j \in K : j <= i}) = k
  IN [k \in 1..Cardinality(K) |-> s[Nth(k)]]
Without(t) == At(posted, {i \in DOMAIN posted : issuer[posted[i]] # t})

\* CancelPostedIo takes the thread's requests off the list under the lock ...
CancelPostedIo(t) ==
  /\ Free(t) /\ "cancel" \in Ops
  /\ status' = [r \in Requests |->
                  IF status[r] = "posted" /\ issuer[r] = t THEN "cancelling"
                  ELSE status[r]]
  /\ posted' = Without(t)
  /\ Goto(t, "cancel")
  /\ UNCHANGED <<posts, issuer, postedRunning, runningThread, hostCalls, runPc, current,
                 shuttingDown>>

\* ... and completes them as cancelled outside it.
CompleteCancelled(t) ==
  /\ pc[t] = "cancel"
  /\ status' = [r \in Requests |->
                  IF status[r] = "cancelling" /\ issuer[r] = t THEN "cancelled"
                  ELSE status[r]]
  /\ Goto(t, "polling")
  /\ UNCHANGED <<posts, issuer, posted, postedRunning, runningThread, hostCalls, runPc,
                 current, shuttingDown>>

\* The loop around HasPostedIo.
HasQueuedIo(t) == \E i \in DOMAIN posted : issuer[posted[i]] = t  \* a bug: not the running one
HasPostedIo(t) == runningThread = t \/ \E i \in DOMAIN posted : issuer[posted[i]] = t
CancelReturns(t) ==
  /\ pc[t] = "polling" /\ ~HasPostedIo(t)
  /\ Goto(t, "idle")
  /\ UNCHANGED <<posts, issuer, status, posted, postedRunning, runningThread, hostCalls,
                 runPc, current, shuttingDown>>

-----------------------------------------------------------------------------
\* GuestScheduler::Shutdown: later calls are refused, and queued ones no worker took are
\* dropped.
BeginShutdown ==
  /\ "shutdown" \in Ops /\ ~shuttingDown
  /\ shuttingDown' = TRUE
  /\ UNCHANGED <<posts, issuer, status, posted, postedRunning, runningThread, hostCalls,
                 pc, runPc, current>>

DropCalls ==
  /\ shuttingDown /\ hostCalls > 0
  /\ hostCalls' = 0
  /\ UNCHANGED <<posts, issuer, status, posted, postedRunning, runningThread, pc, runPc,
                 current, shuttingDown>>

-----------------------------------------------------------------------------
ThreadStep(t) == PostHostCall(t) \/ CompleteCancelled(t) \/ CancelReturns(t)
RunnerStep(x) == RunPostedIo(x) \/ Complete(x)

Next ==
  \/ \E t \in Threads : PostIo(t) \/ CancelPostedIo(t) \/ ThreadStep(t)
  \/ \E w \in Workers : WorkerTakes(w)
  \/ \E x \in Runners : RunnerStep(x)
  \/ BeginShutdown \/ DropCalls

Spec == Init /\ [][Next]_vars

-----------------------------------------------------------------------------
\* A request runs after every request posted before it, so at most one of the file runs
\* at a time, whichever worker runs it.
RunsInOrder ==
  \A i, j \in Requests : i < j /\ status[j] \in {"running", "done"} =>
    status[i] \in {"done", "cancelling", "cancelled"}

\* NtCancelIoFile returns when none of the caller's requests is pending or running.
CancelIsOver ==
  [][\A t \in Threads : pc[t] = "polling" /\ pc'[t] = "idle" =>
       \A r \in Requests : issuer[r] = t => status[r] \in {"done", "cancelled"}]_vars

-----------------------------------------------------------------------------
(* Fairness: threads inside a call and runners continue, a worker serves the queue.   *)
Fairness ==
  /\ \A t \in Threads : WF_vars(ThreadStep(t))
  /\ \A x \in Runners : WF_vars(RunnerStep(x))
  /\ WF_vars(\E w \in Workers : WorkerTakes(w))

FairSpec == Spec /\ Fairness

\* Every request completes, unless shutdown drops the call that would have run it.
RequestsComplete ==
  \A r \in Requests :
    status[r] # "none" ~> status[r] \in {"done", "cancelled"} \/ shuttingDown
=============================================================================
