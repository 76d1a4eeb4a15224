-------------------------------- MODULE MCIo --------------------------------
(***************************************************************************)
(* Blocking host calls with Shutdown, or requests posted on one file: the  *)
(* initial state chooses.  The variables of the other model keep their     *)
(* initial values, and a property assumes the fairness of its model.       *)
(***************************************************************************)
EXTENDS BlockingIo, TLC

CONSTANTS Issuers, FileWorkers, FileOps, MaxPosts    \* of the requests on the file

VARIABLES
  model,
  pPosts, pIssuer, pStatus, pPosted, pPostedRunning, pRunningThread, pHostCalls, pPc,
  pRunPc, pCurrent, pShuttingDown

pVars == <<pPosts, pIssuer, pStatus, pPosted, pPostedRunning, pRunningThread,
           pHostCalls, pPc, pRunPc, pCurrent, pShuttingDown>>

File == INSTANCE PostedIo WITH
         Threads <- Issuers, Workers <- FileWorkers, Ops <- FileOps, NoThread <- NoCall,
         posts <- pPosts, issuer <- pIssuer, status <- pStatus,
         posted <- pPosted, postedRunning <- pPostedRunning,
         runningThread <- pRunningThread, hostCalls <- pHostCalls, pc <- pPc,
         runPc <- pRunPc, current <- pCurrent, shuttingDown <- pShuttingDown

ASSUME FileOK == File!PostedAssumption

MCInit ==
  /\ model \in {"calls", "file"} /\ Init /\ File!Init
  /\ model = "file" => workload = CHOOSE w \in Workloads : TRUE
MCNext ==
  \/ model = "calls" /\ Next /\ UNCHANGED <<model, pVars>>
  \/ model = "file" /\ File!Next /\ UNCHANGED <<model, vars>>
MCSpec == MCInit /\ [][MCNext]_<<model, vars, pVars>>

\* RunBlockingIo returns, Shutdown gets through its joins, and every posted request of a
\* file completes (kernel_state.cc, RunBlockingIo; guest_scheduler.cc, Shutdown; xfile.cc,
\* PostIo).
CallsEnd ==
  /\ model = "calls" /\ Fairness => RequestReturns /\ ShutdownEnds
  /\ model = "file" /\ File!Fairness => File!RequestsComplete

\* The requests of a file run one at a time in the order of PostIo, whoever runs them, and
\* NtCancelIoFile returns only when none of those it is about can complete (xfile.cc).
RequestsInOrder == [](File!TypeOK /\ File!RunsInOrder) /\ File!CancelIsOver
=============================================================================
