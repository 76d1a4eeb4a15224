------------------------------- MODULE MCMemory -------------------------------
(***************************************************************************)
(* Code the guest writes at run time in one of its settings, or guest      *)
(* memory the GPU uses in one of six: the initial state chooses.  The      *)
(* variables of the other model keep their initial values.                 *)
(***************************************************************************)
EXTENDS Naturals, Sequences, TLC

CONSTANTS
  t1, t2, t3, va, vb, none,
  CodeThreads, CodeWriters, CodeNames, CodeWords, End, Page, SweepNames, CodeEntries,
  Blank, Zeroed, MaxAttempts, MaxVersion, Settings    \* of the code

VARIABLES
  model,
  cCode, cSwept, cCount, cLog, cEntryOf, cEntry, cSymbol, cPieces, cCache, cSweeping,
  cCall, cSetting,
  gGuest, gWatch, gValid, gGpuWritten, gRam, gBuffer, gSubmitted, gOwner, gResolve,
  gRearm, gRearming, gUnsubmitted, gGpu, gAct, gWritten, gUsed

cVars == <<cCode, cSwept, cCount, cLog, cEntryOf, cEntry, cSymbol, cPieces, cCache,
           cSweeping, cCall, cSetting>>
gVars == <<gGuest, gWatch, gValid, gGpuWritten, gRam, gBuffer, gSubmitted, gOwner,
           gResolve, gRearm, gRearming, gUnsubmitted, gGpu, gAct, gWritten, gUsed>>

\* Words 1 and 2 are one function, in two pages. Kernel and user address are aliases, a window
\* is a third name that KeSweepIcacheRange does not know.
BothWords == <<2, 2>>
PageEach == <<1, 2>>
AliasesOf ==
  "kernel" :> <<"kernel", "user">> @@ "user" :> <<"user", "kernel">> @@ "window" :> <<"window">>
Of(name, words) == [name |-> name, words |-> words]
\* Two callers, one function; a function that goes by three names; a function within another;
\* two callers by different names.
EachSetting ==
  {[callers |-> {t1, t2}, called |-> {<<"kernel", 1>>}, sweeps |-> {Of("kernel", 1..2)},
    counts |-> 2, versions |-> 2],
   [callers |-> {t1}, called |-> {<<"kernel", 1>>, <<"window", 1>>},
    sweeps |-> {Of(n, {w}) : n \in {"kernel", "user", "window"}, w \in 1..2},
    counts |-> 3, versions |-> 1],
   [callers |-> {t1}, called |-> {<<"kernel", 1>>, <<"kernel", 2>>},
    sweeps |-> {Of("kernel", {2})}, counts |-> 3, versions |-> 2],
   [callers |-> {t1, t2}, called |-> {<<"kernel", 1>>, <<"window", 1>>},
    sweeps |-> {Of("kernel", {1})}, counts |-> 2, versions |-> 1]}

Code == INSTANCE DynamicCode WITH
         Threads <- CodeThreads, NoThread <- none, Writers <- CodeWriters,
         Names <- CodeNames, Words <- CodeWords,
         Entries <- CodeEntries, NoEntry <- none, code <- cCode, swept <- cSwept,
         count <- cCount, log <- cLog, entryOf <- cEntryOf, entry <- cEntry,
         symbol <- cSymbol, pieces <- cPieces, cache <- cCache, sweeping <- cSweeping,
         call <- cCall, setting <- cSetting

\* Two threads use the edges of a resolve that crosses a page.
Edges == INSTANCE ResolveReadback WITH
         Pages <- 1..2, Views <- {va}, Home <- va, PerPage <- 2, Threads <- {t1, t2},
         None <- none, Draws <- {}, Fills <- {}, Protected <- {}, Freed <- {},
         Beside <- "never", ProtectInUse <- FALSE, Resolves <- {<<2, 3>>},
         Actions <- {"read", "write"}, guest <- gGuest, watch <- gWatch,
         valid <- gValid, gpuWritten <- gGpuWritten, ram <- gRam, buffer <- gBuffer,
         submitted <- gSubmitted, owner <- gOwner, resolve <- gResolve, rearm <- gRearm,
         rearming <- gRearming, unsubmitted <- gUnsubmitted, gpu <- gGpu, act <- gAct,
         written <- gWritten, used <- gUsed
\* The memory is used through two views.
Aliased == INSTANCE ResolveReadback WITH
         Pages <- 1..2, Views <- {va, vb}, Home <- va, PerPage <- 2, Threads <- {t1},
         None <- none, Draws <- {}, Fills <- {}, Protected <- {}, Freed <- {},
         Beside <- "never", ProtectInUse <- FALSE, Resolves <- {<<2, 3>>},
         Actions <- {"read", "write"}, guest <- gGuest, watch <- gWatch,
         valid <- gValid, gpuWritten <- gGpuWritten, ram <- gRam, buffer <- gBuffer,
         submitted <- gSubmitted, owner <- gOwner, resolve <- gResolve, rearm <- gRearm,
         rearming <- gRearming, unsubmitted <- gUnsubmitted, gpu <- gGpu, act <- gAct,
         written <- gWritten, used <- gUsed
\* Draws use what two threads write beside a resolve.
Drawn == INSTANCE ResolveReadback WITH
         Pages <- 1..2, Views <- {va}, Home <- va, PerPage <- 2, Threads <- {t1, t2},
         None <- none, Draws <- {{2}}, Fills <- {}, Protected <- {}, Freed <- {},
         Beside <- "never", ProtectInUse <- FALSE, Resolves <- {<<2, 3>>},
         Actions <- {"read", "write"}, guest <- gGuest, watch <- gWatch,
         valid <- gValid, gpuWritten <- gGpuWritten, ram <- gRam, buffer <- gBuffer,
         submitted <- gSubmitted, owner <- gOwner, resolve <- gResolve, rearm <- gRearm,
         rearming <- gRearming, unsubmitted <- gUnsubmitted, gpu <- gGpu, act <- gAct,
         written <- gWritten, used <- gUsed
\* File reads fill whole pages, or cells beside a resolve.
Filled == INSTANCE ResolveReadback WITH
         Pages <- 1..2, Views <- {va}, Home <- va, PerPage <- 2, Threads <- {t1, t2},
         None <- none, Draws <- {{4}}, Fills <- {<<3, 4>>, <<4, 4>>}, Protected <- {},
         Freed <- {}, Beside <- "never", ProtectInUse <- FALSE, Resolves <- {<<3, 3>>},
         Actions <- {"read", "write", "fill"}, guest <- gGuest, watch <- gWatch,
         valid <- gValid, gpuWritten <- gGpuWritten, ram <- gRam, buffer <- gBuffer,
         submitted <- gSubmitted, owner <- gOwner, resolve <- gResolve, rearm <- gRearm,
         rearming <- gRearming, unsubmitted <- gUnsubmitted, gpu <- gGpu, act <- gAct,
         written <- gWritten, used <- gUsed
\* The title changes the protection of a page.
Guarded == INSTANCE ResolveReadback WITH
         Pages <- 1..2, Views <- {va}, Home <- va, PerPage <- 2, Threads <- {t1},
         None <- none, Draws <- {{4}}, Fills <- {}, Protected <- {2}, Freed <- {},
         Beside <- "never", ProtectInUse <- FALSE, Resolves <- {<<2, 2>>},
         Actions <- {"read", "write", "protect"}, guest <- gGuest, watch <- gWatch,
         valid <- gValid, gpuWritten <- gGpuWritten, ram <- gRam, buffer <- gBuffer,
         submitted <- gSubmitted, owner <- gOwner, resolve <- gResolve, rearm <- gRearm,
         rearming <- gRearming, unsubmitted <- gUnsubmitted, gpu <- gGpu, act <- gAct,
         written <- gWritten, used <- gUsed
\* The title frees a page and allocates it again.
Released == INSTANCE ResolveReadback WITH
         Pages <- 1..2, Views <- {va}, Home <- va, PerPage <- 2, Threads <- {t1},
         None <- none, Draws <- {{4}}, Fills <- {}, Protected <- {}, Freed <- {2},
         Beside <- "never", ProtectInUse <- FALSE, Resolves <- {<<2, 2>>},
         Actions <- {"read", "write", "free"}, guest <- gGuest, watch <- gWatch,
         valid <- gValid, gpuWritten <- gGpuWritten, ram <- gRam, buffer <- gBuffer,
         submitted <- gSubmitted, owner <- gOwner, resolve <- gResolve, rearm <- gRearm,
         rearming <- gRearming, unsubmitted <- gUnsubmitted, gpu <- gGpu, act <- gAct,
         written <- gWritten, used <- gUsed

ASSUME CodeOK == Code!CodeAssumption
ASSUME HeapsOK == Edges!HeapAssumption /\ Aliased!HeapAssumption

MCInit ==
  /\ model \in {"code", "edges", "aliased", "drawn", "filled", "guarded", "released"}
  /\ Code!Init /\ (model # "code" => cSetting = CHOOSE s \in Settings : TRUE)
  /\ CASE model = "edges" -> Edges!Init
       [] model = "aliased" -> Aliased!Init
       [] model = "drawn" -> Drawn!Init
       [] model = "filled" -> Filled!Init
       [] model = "guarded" -> Guarded!Init
       [] OTHER -> Released!Init
Graphics ==
  \/ model = "edges" /\ Edges!Next
  \/ model = "aliased" /\ Aliased!Next
  \/ model = "drawn" /\ Drawn!Next
  \/ model = "filled" /\ Filled!Next
  \/ model = "guarded" /\ Guarded!Next
  \/ model = "released" /\ Released!Next
MCNext ==
  \/ model = "code" /\ Code!Next /\ UNCHANGED <<model, gVars>>
  \/ Graphics /\ UNCHANGED <<model, cVars>>
MCSpec == MCInit /\ [][MCNext]_<<model, cVars, gVars>>

\* Once a sweep has returned no call runs what was compiled before it, by whatever name the
\* function is called, and the tables have one current entry for it (cpu/processor.cc,
\* cpu/entry_table.cc, cpu/thread_state.h; kernel/xboxkrnl, KeSweepIcacheRange).
CompiledIsCurrent ==
  /\ Code!TypeOK /\ Code!ReadyIsCurrent /\ Code!CachedIsCurrent /\ Code!CallsRunCurrent
  /\ Code!RunsOnce /\ Code!SymbolMatchesEntry

\* What a guest thread reads is what was written last, by it, by another thread or by the
\* GPU, and an access that may be made is neither refused nor lost: the protection of every
\* page is what its watches need (memory.cc; gpu/shared_memory.cc; the resolve read-back of
\* gpu/vulkan/vulkan_command_processor.cc).
ReadsCurrent ==
  /\ model = "edges" =>
       /\ Edges!TypeOK /\ Edges!ReadsCurrent /\ Edges!WatchesMatchProtection
       /\ Edges!NothingCrashes
  /\ model = "aliased" =>
       Aliased!ReadsCurrent /\ Aliased!WatchesMatchProtection /\ Aliased!NothingCrashes
  /\ model = "filled" => Filled!ReadsCurrent
  /\ model = "released" => Released!ReadsCurrent

\* What a draw uses is what was written last before it was recorded, and a page that the
\* GPU's copy is valid for tells of the next write (gpu/shared_memory.cc, RequestRange;
\* memory.cc, TriggerPhysicalMemoryCallbacks).
DrawsCurrent ==
  /\ model = "drawn" => Drawn!DrawsCurrent /\ Drawn!WritesAreCaught
  /\ model = "filled" => Filled!DrawsCurrent
  /\ model = "guarded" => Guarded!DrawsCurrent /\ Guarded!WritesAreCaught
  /\ model = "released" => Released!DrawsCurrent /\ Released!WritesAreCaught
===============================================================================
