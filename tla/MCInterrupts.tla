----------------------------- MODULE MCInterrupts -----------------------------
(***************************************************************************)
(* Kernel timers on the host timer queue, or the APC queues of threads     *)
(* with kernel APCs or with user APCs and timers that own one: the initial *)
(* state chooses.  The variables of the other model keep their initial     *)
(* values.                                                                 *)
(***************************************************************************)
EXTENDS TimerQueue, TLC

CONSTANTS Heap, Owned, Special, Normal,   \* the APCs of each kind
          ApcSettings

VARIABLES
  model,
  aFlink, aBlink, aEnqueued, aThread, aLive, aMayQueue, aDisabled, aExecuting, aArmed,
  aHas, aTarget, aPc, aList, aApc, aFirst, aChain, aSetting

aVars == <<aFlink, aBlink, aEnqueued, aThread, aLive, aMayQueue, aDisabled, aExecuting,
           aArmed, aHas, aTarget, aPc, aList, aApc, aFirst, aChain, aSetting>>

\* What an APC is, and which there are: those of the kernel, or of a thread and a timer.
KindOf(a) == CASE a \in Heap -> "heap" [] a \in Owned -> "owned"
               [] a \in Special -> "special" [] OTHER -> "normal"
KernelOrUser ==
  {[apcs |-> Special \cup Normal, ops |-> {"exit", "regions"}],
   [apcs |-> Heap \cup Owned, ops |-> {"exit", "terminate"}]}

Apc == INSTANCE ApcQueue WITH
         Apcs <- Heap \cup Owned \cup Special \cup Normal, Kind <- KindOf,
         Settings <- ApcSettings,
         flink <- aFlink, blink <- aBlink, enqueued <- aEnqueued, thread <- aThread,
         live <- aLive, mayQueue <- aMayQueue, disabled <- aDisabled,
         executing <- aExecuting, armed <- aArmed, has <- aHas, target <- aTarget,
         pc <- aPc, list <- aList, apc <- aApc, first <- aFirst, chain <- aChain,
         setting <- aSetting

ASSUME ApcsOK == Apc!ApcAssumption

Sym == Permutations(Timers) \cup Permutations(Threads) \cup Permutations(Items)

MCInit ==
  /\ model \in {"timers", "apcs"} /\ Init /\ Apc!Init
  /\ model = "timers" => aSetting = CHOOSE s \in ApcSettings : TRUE
MCNext ==
  \/ model = "timers" /\ Next /\ UNCHANGED <<model, aVars>>
  \/ model = "apcs" /\ Apc!Next /\ UNCHANGED <<model, vars>>
MCSpec == MCInit /\ [][MCNext]_<<model, vars, aVars>>

\* The lists of a thread hold exactly its queued APCs, special ones first, whatever was
\* removed from the middle; nothing freed is queued, delivered or in a run-down; a thread
\* that exited has none left; and a timer finds the APC of its last expiry
\* (xboxkrnl_threading.cc, ProcessApcList, YankApcList; xtimer.cc, Cancel).
ApcsSound ==
  /\ Apc!TypeOK /\ Apc!ListsSound /\ Apc!NoUseAfterFree
  /\ Apc!RundownFreesAll /\ Apc!OwnerCanRemove /\ Apc!SpecialsFirst
===============================================================================
