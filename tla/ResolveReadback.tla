---------------------------- MODULE ResolveReadback ----------------------------
(***************************************************************************)
(* Memory that the CPU and the GPU share (gpu/shared_memory.cc, the        *)
(* backends' UploadRanges, gpu/command_processor_resolve_readwatch.inc,    *)
(* memory.cc and the file reads of kernel/xfile.cc): what the CPU writes   *)
(* is uploaded before the GPU uses it, and what a resolve writes into the  *)
(* GPU's copy reaches guest memory when the CPU first touches it.          *)
(*                                                                         *)
(* Memory is a row of cells, several to a page. A copy of a cell is        *)
(* current when it holds what was written last: values are never equal, so *)
(* the sets of current cells say all about the contents. The title is free *)
(* of data races: between telling the GPU to use a cell and the fence, its *)
(* threads keep off that cell, but not off the others of the page.         *)
(***************************************************************************)
EXTENDS PhysicalHeap

CONSTANTS PerPage,      \* cells of a page
          Threads, None,
          Resolves,     \* destinations, <<first, last>> cell
          Draws,        \* the sets of cells a draw uses
          Fills,        \* buffers of file reads, <<first, last>> cell
          Protected,    \* pages the title changes the protection of
          Freed,        \* pages the title frees and allocates again
          Actions,      \* what the threads do
          Beside,       \* writes on the pages of a resolve in flight: never, recorded or any
          ProtectInUse  \* whether a page changes protection while the GPU reads it

VARIABLES ram, buffer, submitted,  \* the current cells of guest memory, of the GPU's
                                   \* copy, and of that copy when last submitted
          owner,        \* resolve_page_owners_
          resolve,      \* resolve_owners_
          rearm, rearming,
          unsubmitted,  \* resolve_unsubmitted_owner_
          gpu,          \* what the GPU thread does
          act,          \* what each thread does
          written, used \* cells of commands before the last fence
copyVars == <<ram, buffer, submitted>>
readbackVars == <<owner, resolve, rearm, rearming, unsubmitted>>
vars == <<heapVars, copyVars, readbackVars, gpu, act, written, used>>

Cells == {(p - 1) * PerPage + i : p \in Pages, i \in 1..PerPage}
PageOf(c) == ((c - 1) \div PerPage) + 1
PagesOf(cs) == {PageOf(c) : c \in cs}
CellsOf(ps) == {c \in Cells : PageOf(c) \in ps}
Span(r) == r[1] .. r[2]
Target(r) == PagesOf(Span(r))

NoResolve == [state |-> "none", copied |-> FALSE, clipFirst |-> FALSE, clipLast |-> FALSE]
NoJob == [at |-> "idle", resolve |-> None, cells |-> {}, todo |-> {}, page |-> 0, views |-> {}]
Rest == [at |-> "rest", op |-> "none", cells |-> {}, view |-> Home, to |-> "rw"]

TypeOK ==
  /\ HeapTypeOK
  /\ ram \subseteq Cells /\ buffer \subseteq Cells /\ submitted \subseteq Cells
  /\ owner \in [Pages -> Resolves \cup {None}]
  /\ \A r \in Resolves : resolve[r].state \in {"none", "open", "submitted"}
  /\ rearm \subseteq Resolves /\ rearming \subseteq Resolves
  /\ gpu.page \in Pages \cup {0} /\ gpu.views \subseteq Views /\ gpu.todo \subseteq Pages
  /\ \A t \in Threads : act[t].view \in Views /\ act[t].cells \subseteq Cells
  /\ written \subseteq Cells /\ used \subseteq Cells

Init ==
  /\ HeapInit
  /\ ram = Cells /\ buffer = {} /\ submitted = {}
  /\ owner = [p \in Pages |-> None]
  /\ resolve = [r \in Resolves |-> NoResolve]
  /\ rearm = {} /\ rearming = {}
  /\ unsubmitted = FALSE
  /\ gpu = NoJob
  /\ act = [t \in Threads |-> Rest]
  /\ written = {} /\ used = {}

-----------------------------------------------------------------------------
\* What the owners of the pages give to guest memory
-----------------------------------------------------------------------------
OwnersOf(ps) == {r \in Resolves : /\ \E p \in ps : owner[p] = r
                                  /\ resolve[r].state # "none"
                                  /\ ~resolve[r].copied}
Owned(r) == {p \in Target(r) : owner[p] = r}
FirstPage(r) == PageOf(r[1])
LastPage(r) == PageOf(r[2])

\* The pages r still owns, without the bytes of others where the CPU wrote there.
Copied(r) ==
  {c \in CellsOf(Owned(r)) :
     /\ resolve[r].clipFirst /\ PageOf(c) = FirstPage(r) => c >= r[1]
     /\ resolve[r].clipLast /\ PageOf(c) = LastPage(r) => c <= r[2]}

\* Inside a page, at an end of r, and written before r could be copied.
ClipsFirst(r, ps) == (r[1] - 1) % PerPage # 0 /\ FirstPage(r) \in ps
ClipsLast(r, ps) == r[2] % PerPage # 0 /\ LastPage(r) \in ps

Clipped(r, ps) == [resolve[r] EXCEPT !.clipFirst = @ \/ ClipsFirst(r, ps),
                                     !.clipLast = @ \/ ClipsLast(r, ps)]

\* A bug: a watch a read used up too early stays used up.
ProvideOnce(ps, write) ==
  LET now == {r \in OwnersOf(ps) : resolve[r].state = "submitted"}
      copied == UNION {Copied(r) : r \in now}
  IN  /\ ram' = (ram \ copied) \cup (copied \cap submitted)
      /\ resolve' = [r \in Resolves |-> IF r \in now THEN [resolve[r] EXCEPT !.copied = TRUE]
                                        ELSE resolve[r]]
      /\ UNCHANGED rearm

\* Copies what is submitted and not yet copied. The rest is watched again once submitted.
Provide(ps, write) ==
  LET now == {r \in OwnersOf(ps) : resolve[r].state = "submitted"}
      later == OwnersOf(ps) \ now
      copied == UNION {Copied(r) : r \in now}
  IN  /\ ram' = (ram \ copied) \cup (copied \cap submitted)
      /\ resolve' = [r \in Resolves |->
                       CASE r \in now -> [resolve[r] EXCEPT !.copied = TRUE]
                         [] r \in later /\ write -> Clipped(r, ps)
                         [] OTHER -> resolve[r]]
      /\ rearm' = rearm \cup later

Discard(ps) == owner' = [p \in Pages |-> IF p \in ps THEN None ELSE owner[p]]

-----------------------------------------------------------------------------
\* TriggerCallbacks
-----------------------------------------------------------------------------
Hull(ps) == {p \in Pages : (\E q \in ps : q <= p) /\ (\E q \in ps : p <= q)}

ReadTrigger(v, ps) ==
  IF \E p \in ps : watch[v][p].read
  THEN /\ Provide(ps, FALSE)
       /\ watch' = [watch EXCEPT ![v] = ReadUnwatched(v, ps)]
       /\ UNCHANGED <<guest, valid, gpuWritten, owner>>
  ELSE UNCHANGED <<heapVars, ram, resolve, rearm, owner>>

\* For a fault, a file read, a change of protection or memory freed, the last two also
\* where nothing is watched. Of the pages in gone the contents do not matter any more.
WriteTrigger(v, ps, why, gone) ==
  IF AnyWatched(v, ps) \/ why \in {"protect", "renew"}
  THEN LET range == Range(ps, why # "fault")
           dropped == Hull({p \in range : watch[v][p].read})
       IN  /\ Invalidate(ps, range)
           /\ watch' = [watch EXCEPT ![v] = Unwatched(v, range, why # "protect")]
           /\ Provide(dropped \ gone, TRUE)
           /\ Discard(dropped \cap gone)
           /\ UNCHANGED guest
  ELSE UNCHANGED <<heapVars, ram, resolve, rearm, owner>>

-----------------------------------------------------------------------------
\* The threads of the title
-----------------------------------------------------------------------------
Writing(t) == act[t].op \in {"write", "fill", "protect", "free"}
Elsewhere(t, cs) == \A u \in Threads \ {t} : act[u].cells \cap cs = {}
NotWritten(t, cs) == \A u \in Threads \ {t} : Writing(u) => act[u].cells \cap cs = {}

\* The resolve has been started, and its read watch is not armed yet.
Recording == IF gpu.resolve = None THEN {} ELSE Target(gpu.resolve)
MayWriteBeside(cs) ==
  CASE Beside = "never" -> PagesOf(cs) \cap PagesOf(written) = {}
    [] Beside = "recorded" -> PagesOf(cs) \cap Recording = {}
    [] OTHER -> TRUE

Acts(t, a) == act' = [act EXCEPT ![t] = a]
Goes(t, at) == act' = [act EXCEPT ![t].at = at]
Rests(t) == Acts(t, Rest)
GpuUnchanged == UNCHANGED <<buffer, submitted, rearming, unsubmitted, gpu, written, used>>
MemoryUnchanged == UNCHANGED <<heapVars, ram, resolve, rearm, owner>>

Start(t, at, op, cs, v) == Acts(t, [at |-> at, op |-> op, cells |-> cs, view |-> v, to |-> "rw"])

StartRead(t, v, c) ==
  /\ "read" \in Actions /\ act[t].at = "rest"
  /\ guest[PageOf(c)] # "none" /\ c \notin written /\ NotWritten(t, {c})
  /\ Start(t, "access", "read", {c}, v)
  /\ MemoryUnchanged /\ GpuUnchanged

StartWrite(t, v, c) ==
  /\ "write" \in Actions /\ act[t].at = "rest"
  /\ guest[PageOf(c)] = "rw" /\ c \notin written \cup used /\ Elsewhere(t, {c})
  /\ MayWriteBeside({c})
  /\ Start(t, "access", "write", {c}, v)
  /\ MemoryUnchanged /\ GpuUnchanged

ThePage(t) == CHOOSE p \in Pages : PagesOf(act[t].cells) = {p}
Allowed(t) == Permits(act[t].view, ThePage(t), act[t].op = "write")

\* What the CPU or the host writes is current in guest memory only.
Written(cs) ==
  /\ ram' = ram \cup cs
  /\ buffer' = buffer \ cs
  /\ submitted' = submitted \ cs

Access(t) ==
  /\ act[t].at = "access" /\ Allowed(t)
  /\ IF act[t].op = "write" THEN Written(act[t].cells) ELSE UNCHANGED copyVars
  /\ Rests(t)
  /\ UNCHANGED <<heapVars, readbackVars, gpu, written, used>>

\* A bug: where nothing is watched any more, the access is not tried again.
TriggeredOnce(t) ==
  LET v == act[t].view
      p == ThePage(t)
  IN  IF act[t].op = "write"
      THEN /\ WriteTrigger(v, {p}, "fault", {})
           /\ Goes(t, IF AnyWatched(v, {p}) THEN "access" ELSE "crashed")
      ELSE /\ ReadTrigger(v, {p})
           /\ Goes(t, IF watch[v][p].read THEN "access" ELSE "crashed")

Triggered(t) ==
  LET v == act[t].view
      p == ThePage(t)
  IN  IF act[t].op = "write"
      THEN /\ WriteTrigger(v, {p}, "fault", {})
           /\ Goes(t, IF AnyWatched(v, {p}) \/ guest[p] = "rw" THEN "access" ELSE "crashed")
      ELSE /\ ReadTrigger(v, {p})
           /\ Goes(t, IF watch[v][p].read \/ guest[p] # "none" THEN "access" ELSE "crashed")

\* A page with a read watch is provided first, with the region released.
Fault(t) ==
  /\ act[t].at = "access" /\ ~Allowed(t)
  /\ IF watch[act[t].view][ThePage(t)].read
     THEN Goes(t, "provide") /\ MemoryUnchanged
     ELSE Triggered(t)
  /\ GpuUnchanged

ProvidePage(t) ==
  /\ act[t].at = "provide"
  /\ Provide({ThePage(t)}, act[t].op = "write")
  /\ Goes(t, "trigger")
  /\ UNCHANGED <<heapVars, owner>> /\ GpuUnchanged

TriggerFault(t) ==
  /\ act[t].at = "trigger" /\ act[t].op \in {"read", "write"}
  /\ Triggered(t)
  /\ GpuUnchanged

-----------------------------------------------------------------------------
\* File reads into physical memory, through a view that no watch protects
-----------------------------------------------------------------------------
StartFill(t, v, f) ==
  /\ "fill" \in Actions /\ act[t].at = "rest"
  /\ \A p \in Target(f) : guest[p] = "rw"
  /\ Span(f) \cap (written \cup used) = {} /\ Elsewhere(t, Span(f))
  /\ MayWriteBeside(Span(f))
  /\ Start(t, "edges", "fill", Span(f), v)
  /\ MemoryUnchanged /\ GpuUnchanged

Whole(cs) == {p \in Pages : CellsOf({p}) \subseteq cs}
WatchedEdges(t) == {p \in PagesOf(act[t].cells) \ Whole(act[t].cells) : watch[act[t].view][p].read}

\* The pages the buffer covers in part get what they wait for.
ProvideEdges(t) ==
  /\ act[t].at = "edges"
  /\ Provide(WatchedEdges(t), TRUE)
  /\ Goes(t, "copy")
  /\ UNCHANGED <<heapVars, owner>> /\ GpuUnchanged

FillBuffer(t) ==
  /\ act[t].at = "copy"
  /\ Written(act[t].cells)
  /\ Goes(t, "filled")
  /\ UNCHANGED <<heapVars, readbackVars, gpu, written, used>>

\* A bug: what the buffer covers whole is told to change, not to be gone.
TriggerFillKept(t) ==
  /\ act[t].at = "filled"
  /\ WriteTrigger(act[t].view, PagesOf(act[t].cells), "fill", {})
  /\ Rests(t) /\ GpuUnchanged

\* A bug: nobody is told of the read.
FillUntold(t) ==
  /\ act[t].at = "filled"
  /\ Rests(t)
  /\ MemoryUnchanged /\ GpuUnchanged

TriggerFill(t) ==
  /\ act[t].at = "filled"
  /\ WriteTrigger(act[t].view, PagesOf(act[t].cells), "fill", Whole(act[t].cells))
  /\ Rests(t) /\ GpuUnchanged

-----------------------------------------------------------------------------
\* Protection, release and allocation, of one page
-----------------------------------------------------------------------------
Apart(t, p) ==
  /\ Elsewhere(t, CellsOf({p}))
  /\ CellsOf({p}) \cap (written \cup IF ProtectInUse THEN {} ELSE used) = {}

StartProtect(t, p, to) ==
  /\ "protect" \in Actions /\ act[t].at = "rest" /\ p \in Protected
  /\ guest[p] # "none" /\ Apart(t, p)
  /\ Acts(t, [at |-> IF to = "rw" THEN "announce" ELSE "table", op |-> "protect",
              cells |-> CellsOf({p}), view |-> Home, to |-> to])
  /\ MemoryUnchanged /\ GpuUnchanged

\* A bug: only a watched page is invalidated before it becomes writable.
AnnounceWatched(t) ==
  /\ act[t].at = "announce"
  /\ WriteTrigger(Home, PagesOf(act[t].cells), "fill", {})
  /\ Goes(t, "table") /\ GpuUnchanged

\* The invalidation releases the region: the table changes in another section.
Announce(t) ==
  /\ act[t].at = "announce"
  /\ WriteTrigger(Home, PagesOf(act[t].cells), "protect", {})
  /\ Goes(t, "table") /\ GpuUnchanged

Protect(t) ==
  /\ act[t].at = "table" /\ act[t].op = "protect"
  /\ ProtectPage(ThePage(t), act[t].to)
  /\ Rests(t)
  /\ UNCHANGED <<valid, gpuWritten, ram, resolve, rearm, owner>> /\ GpuUnchanged

StartFree(t, p) ==
  /\ "free" \in Actions /\ act[t].at = "rest" /\ p \in Freed
  /\ guest[p] = "rw" /\ Apart(t, p)
  /\ CellsOf({p}) \cap used = {}
  /\ Start(t, "release", "free", CellsOf({p}), Home)
  /\ MemoryUnchanged /\ GpuUnchanged

Release(t) ==
  /\ act[t].at = "release"
  /\ LET p == PagesOf(act[t].cells) IN WriteTrigger(Home, p, "renew", p)
  /\ Goes(t, "table") /\ GpuUnchanged

Free(t) ==
  /\ act[t].at = "table" /\ act[t].op = "free"
  /\ guest' = [guest EXCEPT ![ThePage(t)] = "none"]
  /\ Rests(t)
  /\ UNCHANGED <<watch, valid, gpuWritten, ram, resolve, rearm, owner>> /\ GpuUnchanged

\* A bug: a new page keeps what was valid and watched of the old one.
AllocateKept(t, p) ==
  /\ act[t].at = "rest" /\ guest[p] = "none" /\ Elsewhere(t, CellsOf({p}))
  /\ CellsOf({p}) \cap used = {}
  /\ guest' = [guest EXCEPT ![p] = "rw"]
  /\ watch' = [watch EXCEPT ![Home][p].host = "rw"]
  /\ Written(CellsOf({p}))
  /\ UNCHANGED <<valid, gpuWritten, readbackVars, gpu, act, written, used>>

\* The new contents are what guest memory holds.
Allocate(t, p) ==
  /\ act[t].at = "rest" /\ guest[p] = "none" /\ Elsewhere(t, CellsOf({p}))
  /\ CellsOf({p}) \cap used = {}
  /\ guest' = [guest EXCEPT ![p] = "rw"]
  /\ watch' = [watch EXCEPT ![Home][p] = [host |-> "rw", inv |-> FALSE, read |-> FALSE]]
  /\ Invalidate({p}, {p})
  /\ Discard(IF watch[Home][p].read THEN {p} ELSE {})
  /\ Written(CellsOf({p}))
  /\ UNCHANGED <<resolve, rearm, rearming, unsubmitted, gpu, act, written, used>>

-----------------------------------------------------------------------------
\* The GPU thread
-----------------------------------------------------------------------------
GpuGoes(at) == gpu' = [gpu EXCEPT !.at = at]
Watching(at) == gpu' = [gpu EXCEPT !.at = at, !.views = Views]
ThreadsUnchanged == UNCHANGED <<act, written, used>>
InFlight == UNION {act[t].cells : t \in Threads}
BeingWritten == UNION {act[t].cells : t \in {u \in Threads : Writing(u)}}

StartResolve(r) ==
  /\ gpu.at = "idle"
  /\ \A p \in Target(r) : guest[p] = "rw"
  /\ Span(r) \cap InFlight = {}
  /\ Beside = "any" \/ Target(r) \cap PagesOf(BeingWritten) = {}
  /\ gpu' = [NoJob EXCEPT !.at = "request", !.resolve = r, !.cells = Span(r)]
  /\ written' = written \cup Span(r)
  /\ UNCHANGED <<heapVars, copyVars, readbackVars, act, used>>

InUse(t) == IF ProtectInUse /\ act[t].op = "protect" THEN {} ELSE act[t].cells

\* A draw may name memory that nobody owns.
StartDraw(cs) ==
  /\ gpu.at = "idle"
  /\ \A t \in Threads : Writing(t) => cs \cap InUse(t) = {}
  /\ gpu' = [NoJob EXCEPT !.at = "request", !.cells = cs]
  /\ used' = used \cup cs
  /\ UNCHANGED <<heapVars, copyVars, readbackVars, act, written>>

Uploaded == IF gpu.resolve = None THEN "drawn" ELSE "record"

RequestRange ==
  /\ gpu.at = "request"
  /\ LET todo == PagesOf(gpu.cells) \ valid
     IN  gpu' = [gpu EXCEPT !.todo = todo, !.at = IF todo = {} THEN Uploaded ELSE "mark"]
  /\ UNCHANGED <<heapVars, copyVars, readbackVars>> /\ ThreadsUnchanged

\* A page at a time: the backends take as much of a range as an upload buffer holds.
UploadMark ==
  /\ gpu.at = "mark"
  /\ LET p == CHOOSE q \in gpu.todo : \A other \in gpu.todo : q <= other
     IN  /\ MarkValid({p}, FALSE)
         /\ gpu' = [gpu EXCEPT !.at = "watch", !.page = p, !.views = Views]
  /\ UNCHANGED <<guest, watch, copyVars, readbackVars>> /\ ThreadsUnchanged

\* One view after the other, each in a section of its own.
ArmView(v, at, armed, next) ==
  /\ gpu.at = at /\ v \in gpu.views
  /\ watch' = [watch EXCEPT ![v] = armed]
  /\ gpu' = [gpu EXCEPT !.views = @ \ {v}, !.at = IF gpu.views = {v} THEN next ELSE @]
  /\ UNCHANGED <<guest, valid, gpuWritten, copyVars, readbackVars>> /\ ThreadsUnchanged

\* A bug: what is uploaded is not watched.
UploadUnwatched(v) == ArmView(v, "watch", watch[v], "copy")

UploadWatch(v) == ArmView(v, "watch", ArmedWrite(v, {gpu.page}), "copy")

UploadCopy ==
  /\ gpu.at = "copy"
  /\ buffer' = (buffer \ CellsOf({gpu.page})) \cup (CellsOf({gpu.page}) \cap ram)
  /\ LET todo == gpu.todo \ {gpu.page}
     IN  gpu' = [gpu EXCEPT !.todo = todo, !.page = 0,
                            !.at = IF todo = {} THEN Uploaded ELSE "mark"]
  /\ UNCHANGED <<heapVars, ram, submitted, readbackVars>> /\ ThreadsUnchanged

Drawn ==
  /\ gpu.at = "drawn"
  /\ gpu' = NoJob
  /\ UNCHANGED <<heapVars, copyVars, readbackVars>> /\ ThreadsUnchanged

\* The resolve is recorded and its range becomes the GPU's.
Record ==
  /\ gpu.at = "record"
  /\ buffer' = buffer \cup gpu.cells
  /\ ram' = ram \ gpu.cells
  /\ submitted' = submitted \ gpu.cells
  /\ MarkValid(PagesOf(gpu.cells), TRUE)
  /\ Watching("watch written")
  /\ UNCHANGED <<guest, watch, readbackVars>> /\ ThreadsUnchanged

WatchWritten(v) == ArmView(v, "watch written", ArmedWrite(v, PagesOf(gpu.cells)), "own")

SetResolvePageOwner ==
  /\ gpu.at = "own"
  /\ owner' = [p \in Pages |-> IF p \in Target(gpu.resolve) THEN gpu.resolve ELSE owner[p]]
  /\ GpuGoes("publish")
  /\ UNCHANGED <<heapVars, copyVars, resolve, rearm, rearming, unsubmitted>> /\ ThreadsUnchanged

Publish ==
  /\ gpu.at = "publish"
  /\ resolve' = [resolve EXCEPT ![gpu.resolve] = [NoResolve EXCEPT !.state = "open"]]
  /\ Watching("watch read")
  /\ UNCHANGED <<heapVars, copyVars, owner, rearm, rearming, unsubmitted>> /\ ThreadsUnchanged

WatchRead(v) == ArmView(v, "watch read", ArmedRead(v, Target(gpu.resolve)), "noted")

Noted ==
  /\ gpu.at = "noted"
  /\ unsubmitted' = TRUE
  /\ gpu' = NoJob
  /\ UNCHANGED <<heapVars, copyVars, owner, resolve, rearm, rearming>> /\ ThreadsUnchanged

-----------------------------------------------------------------------------
\* Submissions, and the fence after them
-----------------------------------------------------------------------------
EndSubmission ==
  /\ gpu.at = "idle"
  /\ submitted' = buffer
  /\ resolve' = [r \in Resolves |-> IF resolve[r].state = "open"
                                    THEN [resolve[r] EXCEPT !.state = "submitted"] ELSE resolve[r]]
  /\ GpuGoes("submitted")
  /\ UNCHANGED <<heapVars, ram, buffer, owner, rearm, rearming, unsubmitted>> /\ ThreadsUnchanged

OnResolveSubmissionEnded ==
  /\ gpu.at = "submitted"
  /\ unsubmitted' = FALSE
  /\ rearming' = rearm
  /\ rearm' = {}
  /\ GpuGoes(IF rearm = {} THEN "idle" ELSE "rearm")
  /\ UNCHANGED <<heapVars, copyVars, owner, resolve>> /\ ThreadsUnchanged

RearmNext ==
  /\ gpu.at = "rearm"
  /\ \E r \in rearming : /\ gpu' = [gpu EXCEPT !.at = "watch again", !.resolve = r, !.views = Views]
                         /\ rearming' = rearming \ {r}
  /\ UNCHANGED <<heapVars, copyVars, owner, resolve, rearm, unsubmitted>> /\ ThreadsUnchanged

WatchAgain(v) == ArmView(v, "watch again", ArmedRead(v, Target(gpu.resolve)),
                         IF rearming = {} THEN "rearmed" ELSE "rearm")

Rearmed ==
  /\ gpu.at = "rearmed"
  /\ gpu' = NoJob
  /\ UNCHANGED <<heapVars, copyVars, readbackVars>> /\ ThreadsUnchanged

\* The guest learns that the GPU got here: every resolve is submitted by then.
Sync ==
  /\ gpu.at = "idle" /\ ~unsubmitted
  /\ written' = {} /\ used' = {}
  /\ UNCHANGED <<heapVars, copyVars, readbackVars, gpu, act>>

-----------------------------------------------------------------------------
ThreadStep(t) ==
  \/ Access(t) \/ Fault(t) \/ ProvidePage(t) \/ TriggerFault(t)
  \/ ProvideEdges(t) \/ FillBuffer(t) \/ TriggerFill(t)
  \/ Announce(t) \/ Protect(t) \/ Release(t) \/ Free(t)

Title(t) ==
  \/ \E v \in Views, c \in Cells : StartRead(t, v, c) \/ StartWrite(t, v, c)
  \/ \E v \in Views, f \in Fills : StartFill(t, v, f)
  \/ \E p \in Protected, to \in {"ro", "rw"} : StartProtect(t, p, to)
  \/ \E p \in Freed : StartFree(t, p) \/ Allocate(t, p)

GpuStep ==
  \/ RequestRange \/ UploadMark \/ UploadCopy \/ Drawn \/ Record
  \/ SetResolvePageOwner \/ Publish \/ Noted
  \/ \E v \in Views : UploadWatch(v) \/ WatchWritten(v) \/ WatchRead(v) \/ WatchAgain(v)
  \/ OnResolveSubmissionEnded \/ RearmNext \/ Rearmed

Next ==
  \/ \E t \in Threads : ThreadStep(t) \/ Title(t)
  \/ GpuStep
  \/ \E r \in Resolves : StartResolve(r)
  \/ \E cs \in Draws : StartDraw(cs)
  \/ EndSubmission \/ Sync

Spec == Init /\ [][Next]_vars

\* A thread whose access was stopped runs on, and gets to its access between two resolves.
Fairness == \A t \in Threads : WF_vars(ThreadStep(t)) /\ SF_vars(Access(t))

-----------------------------------------------------------------------------
\* What a thread reads, where nothing stops it, is what was written last.
ReadsCurrent ==
  \A t \in Threads :
    act[t].at = "access" /\ act[t].op = "read" /\ Allowed(t) => act[t].cells \subseteq ram

\* What a draw uses is what was written last.
DrawsCurrent == gpu.at = "drawn" => gpu.cells \subseteq buffer

\* A page the GPU holds and the title may write is stopped at the next write.
WritesAreCaught ==
  \A p \in valid :
    guest[p] = "rw" /\ gpu.at \notin {"watch", "watch written"}
      => \A v \in Views : watch[v][p].inv /\ watch[v][p].host # "rw"

\* Nothing watched is left open.
WatchesMatchProtection ==
  \A v \in Views, p \in Pages :
    /\ watch[v][p].read => watch[v][p].host = "na"
    /\ watch[v][p].inv => watch[v][p].host # "rw"

\* Every fault of the title's accesses is a watch.
NothingCrashes == \A t \in Threads : act[t].at # "crashed"

\* Every access gets through: a page is not stopped again and again.
AccessEnds == \A t \in Threads : act[t].at # "rest" ~> act[t].at = "rest"
=============================================================================
