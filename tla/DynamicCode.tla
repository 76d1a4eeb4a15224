------------------------------ MODULE DynamicCode ------------------------------
(***************************************************************************)
(* Code the guest writes at run time (cpu/processor.cc, cpu/entry_table.cc *)
(* and cpu/module.cc, and the dynamic calls of backend/a64): calls compile *)
(* it on demand, other threads write it and sweep the instruction cache.   *)
(*                                                                         *)
(* A word of memory has a version, 0 until there is code, and goes by      *)
(* several addresses, <<name, word>>. The function at a word always ends   *)
(* at End[word]. GetOrCreate, the sections of a compile and a sweep hold  *)
(* the global critical region; the code is read, and the calls of a thread *)
(* are looked up and cached, without it. A call that spins for the         *)
(* compile of another thread waits. A setting has the threads that call,   *)
(* what they call, the sweeps there may be, and the bounds of the sweeps   *)
(* (counts) and of the writes of a word (versions).                        *)
(***************************************************************************)
EXTENDS Naturals, Sequences

CONSTANTS Threads, NoThread, Writers, Names, Words, End, Page, Blank, Zeroed, SweepNames,
          Entries, NoEntry, MaxAttempts, MaxVersion,
          Settings    \* records of who calls what, the sweeps, and the bounds of a behaviour

\* What the constants have to be.
CodeAssumption ==
  /\ NoThread \notin Threads /\ Writers \subseteq Threads
  /\ Words \subseteq Nat /\ Zeroed \subseteq Blank /\ Blank \subseteq Words
  /\ End \in [Words -> Words] /\ \A w \in Words : w <= End[w] /\ w .. End[w] \subseteq Words
  /\ SweepNames \in [Names -> Seq(Names) \ {<<>>}]
  /\ Entries \subseteq Nat /\ NoEntry \notin Entries
  /\ MaxAttempts \in Nat \ {0} /\ MaxVersion \in Nat \ {0}
  /\ \A s \in Settings :
       /\ s.called \subseteq Names \X Words /\ s.versions \in 0 .. MaxVersion
       /\ \A sweep \in s.sweeps : sweep.name \in Names /\ sweep.words \subseteq Words

VARIABLES code,      \* the guest's memory
          swept,     \* the code of the last sweeps that returned: what calls may expect
          count,     \* code_sweep_count_
          log,       \* compile_sweeps_
          entryOf,   \* EntryTable::map_
          entry,     \* the entries, also those no longer in the map
          symbol,    \* the symbols of the dynamic code module
          pieces,    \* dynamic_code_pieces_
          cache,     \* dynamic_call_cache of each thread
          sweeping,  \* the thread that holds the region across steps
          call,
          setting    \* bound: what happens in this behaviour, one of Settings
steps == <<code, swept, count, log, entryOf, entry, symbol, pieces, cache, sweeping, call>>
vars == <<steps, setting>>

Addresses == Names \X Words
Extent(a) == a[2] .. End[a[2]]

NoFunction == [code |-> <<>>, once |-> FALSE]
NewEntry == [status |-> "compiling", function |-> NoFunction]
NoSymbol == [status |-> "none", function |-> NoFunction]
Idle == [at |-> "idle", addr |-> <<>>, entry |-> NoEntry, function |-> NoFunction, sampled |-> 0,
         dynamic |-> FALSE, since |-> 0, attempt |-> 0, names |-> <<>>, words |-> {},
         dropped |-> {}, expects |-> <<>>]

Init ==
  /\ code = [w \in Words |-> IF w \in Blank THEN 0 ELSE 1]
  /\ swept = code
  /\ count = 0
  /\ log = {}
  /\ entryOf = [a \in Addresses |-> NoEntry]
  /\ entry = [i \in Entries |-> NewEntry]
  /\ symbol = [a \in Addresses |-> NoSymbol]
  /\ pieces = {}
  /\ cache = [t \in Threads |-> [a \in Addresses |-> NoFunction]]
  /\ sweeping = NoThread
  /\ call = [t \in Threads |-> Idle]
  /\ setting \in Settings

At(t, place) == call[t].at = place
Locked(t, place) == At(t, place) /\ sweeping = NoThread
IsReady(a) == entryOf[a] # NoEntry /\ entry[entryOf[a]].status = "ready"

(***************************************************************************)
(* Sweeps: KeSweepIcacheRange forgets the range under every name.          *)
(***************************************************************************)
Write(t, w) ==
  /\ t \in Writers /\ At(t, "idle") /\ code[w] < setting.versions
  /\ code' = [code EXCEPT ![w] = @ + 1]
  /\ UNCHANGED <<swept, count, log, entryOf, entry, symbol, pieces, cache, sweeping, call>>

KeSweepIcacheRange(t, s) ==
  /\ t \in Writers /\ At(t, "idle") /\ count < setting.counts
  /\ call' = [call EXCEPT ![t] = [Idle EXCEPT !.at = "sweep", !.names = SweepNames[s.name],
                                              !.words = s.words, !.expects = code]]
  /\ UNCHANGED <<code, swept, count, log, entryOf, entry, symbol, pieces, cache, sweeping>>

InFlight == {t \in Threads : call[t].dynamic}

\* EntryTable::DeleteRange
DeleteRange(name, words) ==
  {a \in Addresses : a[1] = name /\ IsReady(a) /\ Extent(a) \cap words # {}}

\* The first section of InvalidateCodeRange: the count, what the table and the pieces have of
\* the range, and the log for compiles in flight.
\* A bug: only the name the range was swept under is looked up.
InvalidateOneName(t) ==
  LET name == Head(call[t].names)
      words == call[t].words
      dropped == DeleteRange(name, words)
  IN /\ Locked(t, "sweep")
     /\ sweeping' = t
     /\ count' = count + 1
     /\ log' = IF InFlight # {} THEN log \cup {[count |-> count + 1, words |-> words]} ELSE log
     /\ entryOf' = [a \in Addresses |-> IF a \in dropped THEN NoEntry ELSE entryOf[a]]
     /\ symbol' = [a \in Addresses |-> IF a \in dropped THEN NoSymbol ELSE symbol[a]]
     /\ call' = [call EXCEPT ![t].dropped = dropped, ![t].at = "clear"]
     /\ UNCHANGED <<code, swept, entry, pieces, cache>>
\* A bug: the module is not told.
InvalidateEntries(t) ==
  LET name == Head(call[t].names)
      words == call[t].words
      erased == {p \in pieces : p.words \cap words # {}}
      dropped == DeleteRange(name, words)
                 \cup UNION {DeleteRange(p.function[1], {p.function[2]}) : p \in erased}
  IN /\ Locked(t, "sweep")
     /\ sweeping' = t
     /\ count' = count + 1
     /\ log' = IF InFlight # {} THEN log \cup {[count |-> count + 1, words |-> words]} ELSE log
     /\ pieces' = pieces \ erased
     /\ entryOf' = [a \in Addresses |-> IF a \in dropped THEN NoEntry ELSE entryOf[a]]
     /\ call' = [call EXCEPT ![t].dropped = dropped, ![t].at = "clear"]
     /\ UNCHANGED <<code, swept, entry, symbol, cache>>
\* A bug: only a sweep that a compile in flight has to see is counted.
InvalidateUncounted(t) ==
  LET name == Head(call[t].names)
      words == call[t].words
      erased == {p \in pieces : p.words \cap words # {}}
      dropped == DeleteRange(name, words)
                 \cup UNION {DeleteRange(p.function[1], {p.function[2]}) : p \in erased}
  IN /\ Locked(t, "sweep")
     /\ sweeping' = t
     /\ count' = IF InFlight # {} THEN count + 1 ELSE count
     /\ log' = IF InFlight # {} THEN log \cup {[count |-> count + 1, words |-> words]} ELSE log
     /\ pieces' = pieces \ erased
     /\ entryOf' = [a \in Addresses |-> IF a \in dropped THEN NoEntry ELSE entryOf[a]]
     /\ symbol' = [a \in Addresses |-> IF a \in dropped THEN NoSymbol ELSE symbol[a]]
     /\ call' = [call EXCEPT ![t].dropped = dropped, ![t].at = "clear"]
     /\ UNCHANGED <<code, swept, entry, cache>>
InvalidateCodeRange(t) ==
  LET name == Head(call[t].names)
      words == call[t].words
      erased == {p \in pieces : p.words \cap words # {}}
      dropped == DeleteRange(name, words)
                 \cup UNION {DeleteRange(p.function[1], {p.function[2]}) : p \in erased}
  IN /\ Locked(t, "sweep")
     /\ sweeping' = t
     /\ count' = count + 1
     /\ log' = IF InFlight # {} THEN log \cup {[count |-> count + 1, words |-> words]} ELSE log
     /\ pieces' = pieces \ erased
     /\ entryOf' = [a \in Addresses |-> IF a \in dropped THEN NoEntry ELSE entryOf[a]]
     /\ symbol' = [a \in Addresses |-> IF a \in dropped THEN NoSymbol ELSE symbol[a]]
     /\ call' = [call EXCEPT ![t].dropped = dropped, ![t].at = "clear"]
     /\ UNCHANGED <<code, swept, entry, cache>>

\* Then the calls the threads cached, of the range and of the functions that reach into it.
\* A bug: only those of the range.
CachedInRange(c) == {a \in Addresses : a[1] = Head(c.names) /\ a[2] \in c.words}
CachedIn(c) == {a \in Addresses : a[1] = Head(c.names) /\ a[2] \in c.words} \cup c.dropped

Later(old, new, words) ==
  [w \in Words |-> IF w \in words /\ new[w] > old[w] THEN new[w] ELSE old[w]]
InvalidateDynamicCalls(t) ==
  LET c == call[t]
      done == Len(c.names) = 1
  IN /\ At(t, "clear")
     /\ cache' = [u \in Threads |-> [a \in Addresses |->
                    IF a \in CachedIn(c) THEN NoFunction ELSE cache[u][a]]]
     /\ sweeping' = NoThread
     /\ swept' = IF done THEN Later(swept, c.expects, c.words) ELSE swept
     /\ call' = [call EXCEPT ![t] =
                  IF done THEN Idle
                  ELSE [@ EXCEPT !.at = "sweep", !.names = Tail(c.names), !.dropped = {}]]
     /\ UNCHANGED <<code, count, log, entryOf, entry, symbol, pieces>>

(***************************************************************************)
(* Calls.                                                                  *)
(***************************************************************************)
\* The emitted lookup; a miss enters ResolveDynamicFunction, which samples the count.
Call(t, a) ==
  /\ t \in setting.callers /\ At(t, "idle")
  /\ call' = [call EXCEPT ![t] =
               IF cache[t][a] # NoFunction
               THEN [Idle EXCEPT !.at = "run", !.addr = a, !.function = cache[t][a],
                                 !.expects = swept]
               ELSE [Idle EXCEPT !.at = "resolve", !.addr = a, !.sampled = count,
                                 !.expects = swept]]
  /\ UNCHANGED <<code, swept, count, log, entryOf, entry, symbol, pieces, cache, sweeping>>

\* What ResolveFunction makes of an entry another call compiled.
Resolved(c, e) ==
  IF e.status = "ready" THEN [c EXCEPT !.at = "store", !.entry = NoEntry, !.function = e.function]
  ELSE [c EXCEPT !.at = "fault", !.entry = NoEntry]

\* Entries stay allocated. One nobody can find any more stands for a new one.
Unused(i) == /\ \A a \in Addresses : entryOf[a] # i
             /\ \A t \in Threads : call[t].entry # i
NewEntries == {i \in Entries : Unused(i) /\ \A j \in Entries : Unused(j) => i <= j}
\* A bug: a call does not wait for the compile of another.
GetOrCreateAgain(t) ==
  LET addr == call[t].addr
      old == entryOf[addr]
  IN /\ Locked(t, "resolve")
     /\ IF ~IsReady(addr)
        THEN \E i \in NewEntries :
               /\ entryOf' = [entryOf EXCEPT ![addr] = i]
               /\ entry' = [entry EXCEPT ![i] = NewEntry]
               /\ call' = [call EXCEPT ![t].entry = i, ![t].at = "begin"]
        ELSE /\ call' = [call EXCEPT ![t] = Resolved(@, entry[old])]
             /\ UNCHANGED <<entryOf, entry>>
     /\ UNCHANGED <<code, swept, count, log, symbol, pieces, cache, sweeping>>
GetOrCreate(t) ==
  LET addr == call[t].addr
      old == entryOf[addr]
  IN /\ Locked(t, "resolve")
     /\ IF old = NoEntry
        THEN \E i \in NewEntries :
               /\ entryOf' = [entryOf EXCEPT ![addr] = i]
               /\ entry' = [entry EXCEPT ![i] = NewEntry]
               /\ call' = [call EXCEPT ![t].entry = i, ![t].at = "begin"]
        ELSE /\ call' = [call EXCEPT ![t] =
                          IF entry[old].status = "compiling"
                          THEN [@ EXCEPT !.entry = old, !.at = "wait"]
                          ELSE Resolved(@, entry[old])]
             /\ UNCHANGED <<entryOf, entry>>
     /\ UNCHANGED <<code, swept, count, log, symbol, pieces, cache, sweeping>>

\* The end of GetOrCreate's spin.
\* A bug: the waiter looks for the entry once more, which may be gone.
AwaitInMap(t) ==
  /\ Locked(t, "wait") /\ IsReady(call[t].addr)
  /\ call' = [call EXCEPT ![t] = Resolved(@, entry[entryOf[call[t].addr]])]
  /\ UNCHANGED <<code, swept, count, log, entryOf, entry, symbol, pieces, cache, sweeping>>
AwaitCompile(t) ==
  LET e == entry[call[t].entry]
  IN /\ Locked(t, "wait") /\ e.status # "compiling"
     /\ call' = [call EXCEPT ![t] = Resolved(@, e)]
     /\ UNCHANGED <<code, swept, count, log, entryOf, entry, symbol, pieces, cache, sweeping>>

(***************************************************************************)
(* A compile.                                                              *)
(***************************************************************************)
\* LookupModule and BeginCompile. The module has the addresses of committed memory.
ContainsAddress(a) == code[a[2]] > 0 \/ a[2] \in Zeroed
BeginCompile(t) ==
  /\ Locked(t, "begin")
  /\ call' = [call EXCEPT ![t] = IF ContainsAddress(@.addr)
                                 THEN [@ EXCEPT !.at = "declare", !.dynamic = TRUE,
                                                !.since = count, !.attempt = 1]
                                 ELSE [@ EXCEPT !.at = "publish"]]
  /\ UNCHANGED <<code, swept, count, log, entryOf, entry, symbol, pieces, cache, sweeping>>

\* LookupFunction and the lock of DemandFunction: whose compile of the symbol it is.
DefineSymbol(t) ==
  LET addr == call[t].addr
  IN /\ Locked(t, "declare")
     /\ IF symbol[addr].status = "none"
        THEN /\ symbol' = [symbol EXCEPT ![addr].status = "defining"]
             /\ call' = [call EXCEPT ![t].at = "compile"]
        ELSE /\ symbol[addr].status # "defining"
             /\ call' = [call EXCEPT ![t].at = "publish", ![t].function = symbol[addr].function]
             /\ UNCHANGED symbol
     /\ UNCHANGED <<code, swept, count, log, entryOf, entry, pieces, cache, sweeping>>

\* DemandFunction, which reads the code. A function whose first word is zero has none.
DefineFunction(t) ==
  LET addr == call[t].addr
      function == IF code[addr[2]] = 0 THEN NoFunction
                  ELSE [code |-> [w \in Extent(addr) |-> code[w]], once |-> FALSE]
  IN /\ At(t, "compile")
     /\ symbol' = [symbol EXCEPT ![addr] =
                    [status |-> IF function = NoFunction THEN "failed" ELSE "defined",
                     function |-> function]]
     /\ call' = [call EXCEPT ![t].at = "publish", ![t].function = function]
     /\ UNCHANGED <<code, swept, count, log, entryOf, entry, pieces, cache, sweeping>>

\* A bug: a sweep that begins past the function's first word is not seen.
SweptAtStart(c) == \E s \in log : s.count > c.since /\ c.addr[2] \in s.words
SweptSince(c) == \E s \in log : s.count > c.since /\ s.words \cap Extent(c.addr) # {}

\* A bug: the log goes with whichever compile ends first.
EndCompileClears(t) == {}
\* What no compile in flight still has to see goes.
EndCompile(t) ==
  LET others == InFlight \ {t}
  IN {s \in log : \E u \in others : s.count > call[u].since}

Pieces(a) == {[function |-> a, words |-> {w \in Extent(a) : Page[w] = Page[v]}] : v \in Extent(a)}

Swept(t) == call[t].dynamic /\ call[t].function # NoFunction /\ SweptSince(call[t])
Publishes(t) == Locked(t, "publish") /\ log' = IF call[t].dynamic THEN EndCompile(t) ELSE log

\* EntryTable::MarkFailed
MarkFailed(t) ==
  /\ Publishes(t) /\ call[t].function = NoFunction
  /\ entry' = [entry EXCEPT ![call[t].entry].status = "failed"]
  /\ call' = [call EXCEPT ![t].at = "fault", ![t].dynamic = FALSE, ![t].entry = NoEntry]
  /\ UNCHANGED <<code, swept, count, entryOf, symbol, pieces, cache, sweeping>>

\* A bug: the attempts do not run out.
CompileForever(t) ==
  /\ Publishes(t) /\ Swept(t)
  /\ symbol' = [symbol EXCEPT ![call[t].addr] = NoSymbol]
  /\ call' = [call EXCEPT ![t] = [@ EXCEPT !.at = "declare", !.attempt = call[t].attempt + 1,
                                           !.since = count, !.function = NoFunction]]
  /\ UNCHANGED <<code, swept, count, entryOf, entry, pieces, cache, sweeping>>
\* A bug: the symbol that was swept is handed back.
CompileSame(t) ==
  /\ Publishes(t) /\ Swept(t) /\ call[t].attempt < MaxAttempts
  /\ call' = [call EXCEPT ![t] = [@ EXCEPT !.at = "declare", !.attempt = call[t].attempt + 1,
                                           !.since = count, !.function = NoFunction]]
  /\ UNCHANGED <<code, swept, count, entryOf, entry, symbol, pieces, cache, sweeping>>
CompileAgain(t) ==
  /\ Publishes(t) /\ Swept(t) /\ call[t].attempt < MaxAttempts
  /\ symbol' = [symbol EXCEPT ![call[t].addr] = NoSymbol]
  /\ call' = [call EXCEPT ![t] = [@ EXCEPT !.at = "declare", !.attempt = call[t].attempt + 1,
                                           !.since = count, !.function = NoFunction]]
  /\ UNCHANGED <<code, swept, count, entryOf, entry, pieces, cache, sweeping>>

Ready(t, function) ==
  /\ entry' = [entry EXCEPT ![call[t].entry] = [status |-> "ready", function |-> function]]
  /\ call' = [call EXCEPT ![t] = [@ EXCEPT !.at = "store", !.dynamic = FALSE, !.entry = NoEntry,
                                           !.function = function]]

\* The last attempt runs for those waiting, and is dropped as it is published.
\* A bug: the count is not told.
RunOnceUncounted(t) ==
  /\ Publishes(t) /\ Swept(t) /\ call[t].attempt = MaxAttempts
  /\ Ready(t, [call[t].function EXCEPT !.once = TRUE])
  /\ symbol' = [symbol EXCEPT ![call[t].addr] = NoSymbol]
  /\ entryOf' = [entryOf EXCEPT ![call[t].addr] = NoEntry]
  /\ UNCHANGED <<code, swept, count, pieces, cache, sweeping>>
RunOnce(t) ==
  /\ Publishes(t) /\ Swept(t) /\ call[t].attempt = MaxAttempts
  /\ Ready(t, [call[t].function EXCEPT !.once = TRUE])
  /\ symbol' = [symbol EXCEPT ![call[t].addr] = NoSymbol]
  /\ entryOf' = [entryOf EXCEPT ![call[t].addr] = NoEntry]
  /\ count' = count + 1
  /\ UNCHANGED <<code, swept, pieces, cache, sweeping>>

\* EntryTable::MarkReady and RecordDynamicCode
\* A bug: no pieces of it.
MarkReadyOnly(t) ==
  /\ Publishes(t) /\ call[t].function # NoFunction /\ ~Swept(t)
  /\ Ready(t, call[t].function)
  /\ UNCHANGED <<code, swept, count, entryOf, symbol, pieces, cache, sweeping>>
MarkReady(t) ==
  /\ Publishes(t) /\ call[t].function # NoFunction /\ ~Swept(t)
  /\ Ready(t, call[t].function)
  /\ pieces' = pieces \cup Pieces(call[t].addr)
  /\ UNCHANGED <<code, swept, count, entryOf, symbol, cache, sweeping>>

(***************************************************************************)
(* The rest of ResolveDynamicFunction.                                     *)
(***************************************************************************)
CacheCall(t) ==
  /\ At(t, "store")
  /\ cache' = [cache EXCEPT ![t][call[t].addr] = call[t].function]
  /\ call' = [call EXCEPT ![t].at = "recheck"]
  /\ UNCHANGED <<code, swept, count, log, entryOf, entry, symbol, pieces, sweeping>>

\* A bug: the entry stays whatever was swept meanwhile.
KeepCall(t) ==
  /\ At(t, "recheck")
  /\ call' = [call EXCEPT ![t].at = "run"]
  /\ UNCHANGED <<code, swept, count, log, entryOf, entry, symbol, pieces, cache, sweeping>>
RecheckCount(t) ==
  /\ At(t, "recheck")
  /\ cache' = IF count = call[t].sampled THEN cache
              ELSE [cache EXCEPT ![t][call[t].addr] = NoFunction]
  /\ call' = [call EXCEPT ![t].at = "run"]
  /\ UNCHANGED <<code, swept, count, log, entryOf, entry, symbol, pieces, sweeping>>

\* The function runs, or the fetch faults.
Finish(t) ==
  /\ call[t].at \in {"run", "fault"}
  /\ call' = [call EXCEPT ![t] = Idle]
  /\ UNCHANGED <<code, swept, count, log, entryOf, entry, symbol, pieces, cache, sweeping>>

Compile(t) == \/ BeginCompile(t) \/ DefineSymbol(t) \/ DefineFunction(t)
              \/ MarkFailed(t) \/ CompileAgain(t) \/ RunOnce(t) \/ MarkReady(t)
Resolve(t) == GetOrCreate(t) \/ AwaitCompile(t) \/ CacheCall(t) \/ RecheckCount(t) \/ Finish(t)
Sweep(t) == InvalidateCodeRange(t) \/ InvalidateDynamicCalls(t)

Step(t) == \/ \E w \in Words : Write(t, w)
           \/ \E s \in setting.sweeps : KeSweepIcacheRange(t, s)
           \/ \E a \in setting.called : Call(t, a)
           \/ Compile(t) \/ Resolve(t) \/ Sweep(t)
Next == (\E t \in Threads : Step(t)) /\ UNCHANGED setting

Spec == Init /\ [][Next]_vars
\* Host threads are scheduled fairly, and the region's lock is handed on.
Fairness == \A t \in Threads : WF_steps(Compile(t) \/ Resolve(t) \/ Sweep(t))

(***************************************************************************)
(* Properties                                                              *)
(***************************************************************************)
Version == 0 .. MaxVersion
Functions(a) == {NoFunction} \cup [code : [Extent(a) -> Version], once : BOOLEAN]
AnyFunction == {NoFunction} \cup UNION {Functions(a) : a \in Addresses}
Places == {"idle", "sweep", "clear", "resolve", "wait", "begin", "declare", "compile", "publish",
           "store", "recheck", "run", "fault"}
CallInfo == [at : Places, addr : Addresses \cup {<<>>}, entry : Entries \cup {NoEntry},
             function : AnyFunction, sampled : Nat, dynamic : BOOLEAN, since : Nat,
             attempt : 0 .. MaxAttempts, names : Seq(Names), words : SUBSET Words,
             dropped : SUBSET Addresses, expects : [Words -> Version] \cup {<<>>}]
TypeOK ==
  /\ code \in [Words -> Version] /\ swept \in [Words -> Version]
  /\ count \in Nat /\ log \subseteq [count : 0 .. count, words : SUBSET Words]
  /\ entryOf \in [Addresses -> Entries \cup {NoEntry}]
  /\ entry \in [Entries -> [status : {"compiling", "ready", "failed"}, function : AnyFunction]]
  /\ symbol \in [Addresses -> [status : {"none", "defining", "defined", "failed"},
                               function : AnyFunction]]
  /\ pieces \subseteq [function : Addresses, words : SUBSET Words]
  /\ cache \in [Threads -> [Addresses -> AnyFunction]]
  /\ sweeping \in Threads \cup {NoThread}
  /\ call \in [Threads -> CallInfo] /\ setting \in Settings

IsCurrent(function, expects) == \A w \in DOMAIN function.code : function.code[w] >= expects[w]

\* What a lookup finds was compiled from no older code than the last sweeps that returned,
\* whatever name they were told and whoever was compiling then (InvalidateCodeRange and the
\* publish of ResolveFunction).
ReadyIsCurrent ==
  \A a \in Addresses : IsReady(a) => IsCurrent(entry[entryOf[a]].function, swept)

\* The same of the calls a thread cached, but for the moment between the store and its recheck.
CachedIsCurrent ==
  \A t \in Threads : \A a \in Addresses :
    (At(t, "recheck") /\ call[t].addr = a) \/ IsCurrent(cache[t][a], swept)

\* A call made after a sweep returned runs the code of that sweep or newer code, or code
\* that was rewritten under every attempt to compile it (processor.cc:807-809).
CallsRunCurrent ==
  \A t \in Threads : At(t, "run") => \/ IsCurrent(call[t].function, call[t].expects)
                                    \/ call[t].function.once

\* Code published while it was swept is found by those who waited for it and by nobody else:
\* no lookup and no cache has it once they were served.
RunsOnce ==
  /\ \A a \in Addresses : IsReady(a) => ~entry[entryOf[a]].function.once
  /\ \A t \in Threads : \A a \in Addresses :
       (At(t, "recheck") /\ call[t].addr = a) \/ ~cache[t][a].once

\* The module hands a defined symbol back instead of compiling it, so it may have one only
\* for a function the entry table has too, or that is about to be published there.
SymbolMatchesEntry ==
  \A a \in Addresses :
    /\ symbol[a].status = "defined" =>
         \/ IsReady(a) /\ entry[entryOf[a]].function = symbol[a].function
         \/ \E t \in InFlight : call[t].addr = a
    /\ IsReady(a) => symbol[a].status = "defined"

\* The next call into swept memory compiles what the guest has since written there
\* (processor.h:156-158), so it finds code there.
NextCallCompiles ==
  \A t \in Threads : At(t, "fault") => call[t].expects[call[t].addr[2]] = 0

\* Every call comes to run or to fault, whatever is swept under it, and every sweep returns.
CallsEnd == \A t \in Threads : ~At(t, "idle") ~> At(t, "idle")

=============================================================================
