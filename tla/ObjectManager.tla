----------------------------- MODULE ObjectManager -----------------------------
(***************************************************************************)
(* Objects of a type the title defines (kernel/xboxkrnl/xboxkrnl_ob.cc):   *)
(* their guest headers count pointers and handles, and a host object names *)
(* their handles, a stand-in (XGuestObject) or, for a dispatcher body, its *)
(* wrapper. Plain objects are those of NtCreateEvent, without a counted    *)
(* body. A thread takes one step per section of the global critical        *)
(* region.                                                                 *)
(*                                                                         *)
(* The title is legal: owned[h] and held[b] are the handles and references *)
(* its threads were given and not yet returned, it only passes those, and  *)
(* inserts an object once, before any other use. Threads share them.       *)
(* Settings, MaxHeld and MaxOpens, the opens of one handle by name, bound  *)
(* what a run lets it do: the initial state chooses the operations, the    *)
(* threads, bodies and host objects and the references ObInsertObject is   *)
(* asked for. A body is freed for good, and a type's close procedure does  *)
(* not call back.                                                          *)
(***************************************************************************)
EXTENDS ObjectTable, FiniteSets

CONSTANTS Threads, Bodies, Dispatchers, NoBody,
          Settings,   \* records [ops, threads, bodies, objects, biases]
          MaxHeld, MaxOpens

\* What the constants have to be.
ManagerAssumption ==
  /\ TableAssumption /\ Dispatchers \subseteq Bodies /\ NoBody \notin Bodies
  /\ MaxHeld \in Nat /\ MaxOpens \in Nat
  /\ IsFiniteSet(Threads) /\ IsFiniteSet(Handles)
  /\ \A s \in Settings :
       /\ s.threads \subseteq Threads /\ s.bodies \subseteq Bodies
       /\ s.objects \subseteq Objects /\ s.biases \subseteq 0..MaxHeld

VARIABLES table,    \* the ObjectTable
          objects,  \* [kind, body] of each host object
          byBody,   \* XGuestObject::by_body_
          native,   \* the handle in the dispatch header of a body
          header,   \* X_OBJECT_HEADER of a body, and what became of its memory
          owned, held,
          call,     \* the call a thread is in, and where
          setting   \* never changed
steps == <<table, objects, byBody, native, header, owned, held, call>>
vars == <<steps, setting>>

NoOne == [kind |-> "none", body |-> NoBody]
Idle == [at |-> "idle", op |-> "none", body |-> NoBody, handle |-> NoHandle, object |-> NoObject,
         outer |-> NoObject, name |-> NoName, bias |-> 0, derefs |-> 0]
Unused == [pointers |-> 0, handles |-> 0, contained |-> FALSE, state |-> "none"]

Init ==
  /\ table = NewTable
  /\ objects = [o \in Objects |-> NoOne]
  /\ byBody = [b \in Bodies |-> NoObject]
  /\ native = [b \in Bodies |-> NoHandle]
  /\ header = [b \in Bodies |-> Unused]
  /\ owned = [h \in GuestHandles |-> 0]
  /\ held = [b \in Bodies |-> 0]
  /\ call = [a \in Threads |-> Idle]
  /\ setting \in Settings

At(a, place) == call[a].at = place
Goto(a, place) == call' = [call EXCEPT ![a].at = place]
IsNewObject(o) == /\ o \in setting.objects /\ objects[o].kind = "none"
                  /\ \A p \in setting.objects : objects[p].kind = "none" => o <= p
\* CountedBody(object)
CountedBody(o) == IF o = NoObject THEN NoBody ELSE objects[o].body

Referenced(hdr) == [hdr EXCEPT !.pointers = @ + 1]
Opened(hdr, bias) == [hdr EXCEPT !.pointers = @ + bias, !.handles = @ + 1]

(***************************************************************************)
(* Calls that take one step.                                               *)
(***************************************************************************)
CreateObject(b) ==
  /\ "create" \in setting.ops /\ b \in setting.bodies /\ header[b].state = "none"
  /\ header' = [header EXCEPT ![b] = [@ EXCEPT !.pointers = 1, !.state = "new"]]
  /\ held' = [held EXCEPT ![b] = 1]
  /\ UNCHANGED <<table, objects, byBody, native, owned, call>>

ReferenceByHandle(h) ==
  LET b == CountedBody(LookupObject(table, h))
  IN /\ "reference" \in setting.ops /\ owned[h] > 0 /\ b # NoBody /\ held[b] < MaxHeld
     /\ header' = [header EXCEPT ![b] = Referenced(@)]
     /\ held' = [held EXCEPT ![b] = @ + 1]
     /\ UNCHANGED <<table, objects, byBody, native, owned, call>>

(***************************************************************************)
(* The first step of the others.                                           *)
(***************************************************************************)
\* ObInsertObject. The creation reference passes to the handle.
Insert(a, b, n, bias) ==
  /\ "insert" \in setting.ops /\ At(a, "idle") /\ header[b].state = "new" /\ held[b] = 1
  /\ header' = [header EXCEPT ![b].state = "live"]
  /\ held' = [held EXCEPT ![b] = 0]
  /\ call' = [call EXCEPT ![a] = [Idle EXCEPT !.at = "find", !.op = "insert", !.body = b,
                                              !.name = n, !.bias = bias]]
  /\ UNCHANGED <<table, objects, byBody, native, owned>>

\* The reference the title passes stays its own until the call returns.
OpenByPointer(a, b) ==
  /\ "open" \in setting.ops /\ At(a, "idle") /\ header[b].state = "live" /\ held[b] > 0
  /\ held' = [held EXCEPT ![b] = @ - 1]
  /\ call' = [call EXCEPT ![a] = [Idle EXCEPT !.at = "find", !.op = "open", !.body = b,
                                              !.bias = 1]]
  /\ UNCHANGED <<table, objects, byBody, native, header, owned>>

Dereference(a, b) ==
  /\ "reference" \in setting.ops /\ At(a, "idle") /\ held[b] > 0
  /\ held' = [held EXCEPT ![b] = @ - 1]
  /\ call' = [call EXCEPT ![a] = [Idle EXCEPT !.at = "deref", !.op = "deref", !.body = b,
                                              !.derefs = 1]]
  /\ UNCHANGED <<table, objects, byBody, native, header, owned>>

\* A bug: the object is looked up and its body referenced later, by the open.
DuplicateUnreferenced(a, h, closeSource) ==
  LET o == LookupObject(table, h)
      b == CountedBody(o)
  IN /\ (IF closeSource THEN "replace" ELSE "duplicate") \in setting.ops
     /\ At(a, "idle") /\ owned[h] > 0 /\ b # NoBody
     /\ table' = Retain(table, o)
     /\ UNCHANGED header
     /\ owned' = IF closeSource THEN [owned EXCEPT ![h] = @ - 1] ELSE owned
     /\ call' = [call EXCEPT ![a] =
                  [Idle EXCEPT !.at = IF closeSource THEN "close" ELSE "find",
                               !.op = IF closeSource THEN "replace" ELSE "duplicate",
                               !.body = b, !.outer = o, !.handle = h, !.bias = 1]]
     /\ UNCHANGED <<objects, byBody, native, held>>
Duplicate(a, h, closeSource) ==
  LET o == LookupObject(table, h)
      b == CountedBody(o)
  IN /\ (IF closeSource THEN "replace" ELSE "duplicate") \in setting.ops
     /\ At(a, "idle") /\ owned[h] > 0 /\ b # NoBody
     /\ table' = Retain(table, o)
     /\ header' = [header EXCEPT ![b] = Referenced(@)]
     /\ owned' = IF closeSource THEN [owned EXCEPT ![h] = @ - 1] ELSE owned
     /\ call' = [call EXCEPT ![a] =
                  [Idle EXCEPT !.at = IF closeSource THEN "close" ELSE "find",
                               !.op = IF closeSource THEN "replace" ELSE "duplicate",
                               !.body = b, !.outer = o, !.handle = h, !.bias = 1]]
     /\ UNCHANGED <<objects, byBody, native, held>>

\* ObjectTable::DuplicateHandle of a plain object: a second handle, with references of its own.
DuplicatePlain(h, g) ==
  LET o == LookupObject(table, h)
  IN /\ "duplicate" \in setting.ops /\ owned[h] > 0 /\ o # NoObject /\ CountedBody(o) = NoBody
     /\ IsFreeSlot(table, GuestHandles, g)
     /\ table' = AddHandle(table, o, g)
     /\ owned' = [owned EXCEPT ![g] = @ + 1]
     /\ UNCHANGED <<objects, byBody, native, header, held, call>>

\* NtClose. The handle leaves the table before the close procedure runs; one that an extra
\* reference keeps stays open, and the close is not the object's.
\* A bug: XObject::ReleaseHandle, which releases the object's oldest handle.
NtCloseOldest(a, h) ==
  LET o == LookupObject(table, h)
      b == CountedBody(o)
      t == Retain(ReleaseHandle(table, Head(table.handles[o])), o)
  IN /\ "close" \in setting.ops /\ At(a, "idle") /\ owned[h] > 0
     /\ owned' = [owned EXCEPT ![h] = @ - 1]
     /\ table' = t
     /\ call' = [call EXCEPT ![a] =
                  [Idle EXCEPT !.at = IF b = NoBody THEN "return" ELSE "close",
                               !.op = "close", !.body = b, !.outer = o]]
     /\ UNCHANGED <<objects, byBody, native, header, held>>
NtClose(a, h) ==
  LET o == LookupObject(table, h)
      b == CountedBody(o)
      t == Retain(ReleaseHandle(table, h), o)
      closed == LookupObject(t, h) # o
  IN /\ "close" \in setting.ops /\ At(a, "idle") /\ owned[h] > 0
     /\ owned' = [owned EXCEPT ![h] = @ - 1]
     /\ IF o = NoObject THEN UNCHANGED <<table, call>>
        ELSE /\ table' = t
             /\ call' = [call EXCEPT ![a] =
                          [Idle EXCEPT !.at = IF b # NoBody /\ closed THEN "close" ELSE "return",
                                       !.op = "close", !.body = b, !.outer = o]]
     /\ UNCHANGED <<objects, byBody, native, header, held>>

\* ObOpenObjectByName and OpenNamedObject of an NtCreateEvent with OBJ_OPENIF (bias 1) or
\* without (0).
LookupByName(a, op, n, bias) ==
  /\ op \in setting.ops /\ At(a, "idle")
  /\ IF table.names[n] # NoHandle
     THEN /\ table.entry[table.names[n]].refs <= MaxOpens
          /\ table' = GetObjectByName(table, n)
          /\ call' = [call EXCEPT ![a] = [Idle EXCEPT !.at = "named", !.op = op, !.name = n,
                                           !.handle = table.names[n], !.bias = bias]]
     ELSE /\ op = "create_named"
          /\ call' = [call EXCEPT ![a] = [Idle EXCEPT !.at = "construct", !.op = op, !.name = n]]
          /\ UNCHANGED table
  /\ UNCHANGED <<objects, byBody, native, header, owned, held>>
OpenByName(a, n) == LookupByName(a, "open_named", n, 1)
CreateNamed(a, n, openIf) == LookupByName(a, "create_named", n, openIf)

\* What the name was found to be is looked up again. The lookup's reference to the handle is
\* the caller's, unless the object is a counted one, or of another type, or not to be opened.
Named(a) ==
  LET c == call[a]
      o == LookupObject(table, c.handle)
      opens == IF c.op = "open_named" THEN CountedBody(o) = NoBody
               ELSE c.bias = 1 /\ o # NoObject /\ objects[o].kind # "standin"
  IN /\ At(a, "named")
     /\ table' = IF o = NoObject THEN table ELSE Retain(table, o)
     /\ call' = [call EXCEPT ![a] = [@ EXCEPT !.at = IF opens THEN "return" ELSE "unname",
                                              !.outer = o, !.body = CountedBody(o)]]
     /\ UNCHANGED <<objects, byBody, native, header, owned, held>>

\* A bug: the extra reference to the named handle is kept.
UnnameKept(a) ==
  /\ At(a, "unname")
  /\ call' = [call EXCEPT ![a] =
               [@ EXCEPT !.handle = NoHandle,
                         !.at = IF call[a].op = "open_named" THEN "find"
                                ELSE IF call[a].outer = NoObject THEN "construct" ELSE "return"]]
  /\ UNCHANGED <<table, objects, byBody, native, header, owned, held>>
Unname(a) ==
  /\ At(a, "unname")
  /\ table' = ReleaseHandle(table, call[a].handle)
  /\ call' = [call EXCEPT ![a] =
               [@ EXCEPT !.handle = NoHandle,
                         !.at = IF call[a].op = "open_named" THEN "find"
                                ELSE IF call[a].outer = NoObject THEN "construct" ELSE "return"]]
  /\ UNCHANGED <<objects, byBody, native, header, owned, held>>

(***************************************************************************)
(* OpenCounted.                                                            *)
(***************************************************************************)
\* GetNativeObject: the object the handle stashed in a dispatch header names, or a new one
\* with a host handle.
FindWrapper(a) ==
  LET b == call[a].body
      known == /\ native[b] # NoHandle
               /\ CountedBody(LookupObject(table, native[b])) = b
  IN /\ At(a, "find") /\ b \in Dispatchers /\ header[b].pointers > 0
     /\ IF known
        THEN LET o == LookupObject(table, native[b])
             IN /\ table' = Retain(table, o)
                /\ call' = [call EXCEPT ![a].object = o, ![a].at = "add"]
                /\ UNCHANGED <<objects, native>>
        ELSE \E o \in Objects, h \in HostHandles :
               /\ IsNewObject(o) /\ IsFreeSlot(table, HostHandles, h)
               /\ table' = Retain(AddHandle(table, o, h), o)
               /\ objects' = [objects EXCEPT ![o] = [kind |-> "wrapper", body |-> b]]
               /\ native' = [native EXCEPT ![b] = h]
               /\ call' = [call EXCEPT ![a].object = o, ![a].at = "add"]
     /\ UNCHANGED <<byBody, header, owned, held>>

\* XGuestObject::FromBody. A stand-in whose last reference is gone is still in by_body_ until
\* its destructor ran.
\* A bug: it is taken from there all the same.
FindStandInDying(a) ==
  LET b == call[a].body
      o == byBody[b]
  IN /\ At(a, "find") /\ ~(b \in Dispatchers /\ header[b].pointers > 0)
     /\ IF o # NoObject
        THEN /\ table' = Retain(table, o)
             /\ call' = [call EXCEPT ![a].object = o, ![a].at = "add"]
        ELSE /\ call' = [call EXCEPT ![a].at = "create"]
             /\ UNCHANGED table
     /\ UNCHANGED <<objects, byBody, native, header, owned, held>>
FindStandIn(a) ==
  LET b == call[a].body
      o == byBody[b]
  IN /\ At(a, "find") /\ ~(b \in Dispatchers /\ header[b].pointers > 0)
     /\ IF o # NoObject /\ table.refs[o] > 0
        THEN /\ table' = Retain(table, o)
             /\ call' = [call EXCEPT ![a].object = o, ![a].at = "add"]
        ELSE /\ call' = [call EXCEPT ![a].at = "create"]
             /\ UNCHANGED table
     /\ UNCHANGED <<objects, byBody, native, header, owned, held>>

\* A stand-in comes with its first handle, and is found by its body a section later.
CreateStandIn(a) ==
  /\ At(a, "create")
  /\ \E o \in Objects, h \in GuestHandles :
       /\ IsNewObject(o) /\ IsFreeSlot(table, GuestHandles, h)
       /\ table' = Retain(AddHandle(table, o, h), o)
       /\ objects' = [objects EXCEPT ![o] = [kind |-> "standin", body |-> call[a].body]]
       /\ call' = [call EXCEPT ![a] = [@ EXCEPT !.object = o, !.handle = h, !.at = "register"]]
  /\ UNCHANGED <<byBody, native, header, owned, held>>

Register(a) ==
  /\ At(a, "register")
  /\ byBody' = [byBody EXCEPT ![call[a].body] = call[a].object]
  /\ Goto(a, "count")
  /\ UNCHANGED <<table, objects, native, header, owned, held>>

AddCountedHandle(a) ==
  /\ At(a, "add")
  /\ \E h \in GuestHandles :
       /\ IsFreeSlot(table, GuestHandles, h)
       /\ table' = AddHandle(table, call[a].object, h)
       /\ call' = [call EXCEPT ![a] = [@ EXCEPT !.handle = h, !.at = "count"]]
  /\ UNCHANGED <<objects, byBody, native, header, owned, held>>

\* OpenCounted lets the object go, but to ObInsertObject.
\* A bug: a duplicate takes no reference, as if the one NtDuplicateObject took were its own.
CountUnreferenced(a) ==
  LET c == call[a]
  IN /\ At(a, "count")
     /\ header' = [header EXCEPT ![c.body] =
                    Opened(@, IF c.op = "duplicate" THEN 0 ELSE c.bias)]
     /\ table' = IF c.op = "insert" THEN table ELSE Release(table, c.object)
     /\ call' = [call EXCEPT ![a] =
                  [@ EXCEPT !.object = NoObject,
                            !.outer = IF c.op = "insert" THEN c.object ELSE c.outer,
                            !.derefs = IF c.op = "duplicate" THEN 1 ELSE 0,
                            !.at = CASE c.op = "insert" /\ c.name # NoName -> "attributes"
                                     [] c.op = "duplicate" -> "deref"
                                     [] OTHER -> "return"]]
     /\ UNCHANGED <<objects, byBody, native, owned, held>>
Count(a) ==
  LET c == call[a]
  IN /\ At(a, "count")
     /\ header' = [header EXCEPT ![c.body] = Opened(@, c.bias)]
     /\ table' = IF c.op = "insert" THEN table ELSE Release(table, c.object)
     /\ call' = [call EXCEPT ![a] =
                  [@ EXCEPT !.object = NoObject,
                            !.outer = IF c.op = "insert" THEN c.object ELSE c.outer,
                            !.derefs = IF c.op = "duplicate" THEN 1 ELSE 0,
                            !.at = CASE c.op = "insert" /\ c.name # NoName -> "attributes"
                                     [] c.op = "duplicate" -> "deref"
                                     [] OTHER -> "return"]]
     /\ UNCHANGED <<objects, byBody, native, owned, held>>

\* XObject::SetAttributes, also of NtCreateEvent, which ignores a collision as well.
NameObject(a) ==
  LET c == call[a]
  IN /\ At(a, "attributes")
     /\ table' = SetAttributes(table, c.outer, c.name)
     /\ Goto(a, IF c.op = "insert" THEN "contain" ELSE "return")
     /\ UNCHANGED <<objects, byBody, native, header, owned, held>>

\* The directory holds a reference until the last handle closes.
Contain(a) ==
  LET c == call[a]
  IN /\ At(a, "contain")
     /\ header' = IF table.names[c.name] = c.handle
                  THEN [header EXCEPT ![c.body] = [Referenced(@) EXCEPT !.contained = TRUE]]
                  ELSE header
     /\ Goto(a, "return")
     /\ UNCHANGED <<table, objects, byBody, native, owned, held>>

(***************************************************************************)
(* CloseCounted and DereferenceCounted.                                    *)
(***************************************************************************)
CloseHandle(a) ==
  /\ At(a, "close")
  /\ header' = [header EXCEPT ![call[a].body].handles = @ - 1]
  /\ Goto(a, "unlink")
  /\ UNCHANGED <<table, objects, byBody, native, owned, held>>

\* The last handle unlinks the object from its directory, which drops its reference.
\* A bug: an object in no directory is unlinked as well.
UnlinkUncontained(a) ==
  LET b == call[a].body
      unlinked == header[b].handles = 0
  IN /\ At(a, "unlink")
     /\ header' = IF unlinked THEN [header EXCEPT ![b].contained = FALSE] ELSE header
     /\ call' = [call EXCEPT ![a] =
                  [@ EXCEPT !.at = "deref", !.derefs = IF unlinked THEN 2 ELSE 1]]
     /\ UNCHANGED <<table, objects, byBody, native, owned, held>>
\* A bug: the reference is forgotten.
UnlinkOnly(a) ==
  LET b == call[a].body
  IN /\ At(a, "unlink")
     /\ header' = IF header[b].handles = 0 THEN [header EXCEPT ![b].contained = FALSE] ELSE header
     /\ call' = [call EXCEPT ![a] = [@ EXCEPT !.at = "deref", !.derefs = 1]]
     /\ UNCHANGED <<table, objects, byBody, native, owned, held>>
\* A bug: the first close unlinks the object.
UnlinkAtOnce(a) ==
  LET b == call[a].body
  IN /\ At(a, "unlink")
     /\ header' = [header EXCEPT ![b].contained = FALSE]
     /\ call' = [call EXCEPT ![a] =
                  [@ EXCEPT !.at = "deref", !.derefs = IF header[b].contained THEN 2 ELSE 1]]
     /\ UNCHANGED <<table, objects, byBody, native, owned, held>>
UnlinkFromDirectory(a) ==
  LET b == call[a].body
      unlinked == header[b].handles = 0 /\ header[b].contained
  IN /\ At(a, "unlink")
     /\ header' = IF unlinked THEN [header EXCEPT ![b].contained = FALSE] ELSE header
     /\ call' = [call EXCEPT ![a] =
                  [@ EXCEPT !.at = "deref", !.derefs = IF unlinked THEN 2 ELSE 1]]
     /\ UNCHANGED <<table, objects, byBody, native, owned, held>>

\* NtDuplicateObject with DUPLICATE_CLOSE_SOURCE counts its copy once its close is done.
AfterDeref(c) ==
  IF c.derefs > 1 THEN "deref" ELSE IF c.op = "replace" THEN "recount" ELSE "return"
DereferenceCounted(a) ==
  LET b == call[a].body
      last == header[b].pointers = 1
  IN /\ At(a, "deref")
     /\ header' = [header EXCEPT ![b].pointers = @ - 1,
                                ![b].state = IF last THEN "deleting" ELSE @]
     /\ call' = [call EXCEPT ![a].at = IF last THEN "delete" ELSE AfterDeref(call[a]),
                            ![a].derefs = @ - 1]
     /\ UNCHANGED <<table, objects, byBody, native, owned, held>>

\* The type's delete and free procedures.
DeleteBody(a) ==
  LET c == [call[a] EXCEPT !.derefs = @ + 1]
  IN /\ At(a, "delete")
     /\ header' = [header EXCEPT ![c.body].state = "freed"]
     /\ Goto(a, AfterDeref(c))
     /\ UNCHANGED <<table, objects, byBody, native, owned, held>>

Recount(a) ==
  /\ At(a, "recount")
  /\ header' = [header EXCEPT ![call[a].body] = Opened(@, 1)]
  /\ call' = [call EXCEPT ![a] = [@ EXCEPT !.op = "duplicate", !.at = "deref", !.derefs = 1]]
  /\ UNCHANGED <<table, objects, byBody, native, owned, held>>

(***************************************************************************)
(* The rest of NtCreateEvent, and the end of a call.                       *)
(***************************************************************************)
Construct(a) ==
  /\ At(a, "construct")
  /\ \E o \in Objects, h \in GuestHandles :
       /\ IsNewObject(o) /\ IsFreeSlot(table, GuestHandles, h)
       /\ table' = Retain(AddHandle(table, o, h), o)
       /\ objects' = [objects EXCEPT ![o] = [kind |-> "plain", body |-> NoBody]]
       /\ call' = [call EXCEPT ![a] = [@ EXCEPT !.outer = o, !.handle = h, !.at = "attributes"]]
  /\ UNCHANGED <<byBody, native, header, owned, held>>

\* The call returns what it opened and lets its own reference to the object go.
Return(a) ==
  LET c == call[a]
      t == IF c.outer = NoObject THEN table ELSE Release(table, c.outer)
      back == CASE c.op = "insert" -> c.bias [] c.op = "open" -> 1 [] OTHER -> 0
  IN /\ At(a, "return")
     /\ table' = t
     /\ owned' = IF c.handle = NoHandle THEN owned ELSE [owned EXCEPT ![c.handle] = @ + 1]
     /\ held' = IF c.body = NoBody THEN held ELSE [held EXCEPT ![c.body] = @ + back]
     /\ call' = [call EXCEPT ![a] = IF c.outer # NoObject /\ t.refs[c.outer] = 0
                                    THEN [Idle EXCEPT !.at = "destroy", !.outer = c.outer]
                                    ELSE Idle]
     /\ UNCHANGED <<objects, byBody, native, header>>

\* ~XGuestObject. A new object at the same body may have replaced it.
Destroy(a) ==
  LET o == call[a].outer
      b == objects[o].body
  IN /\ At(a, "destroy")
     /\ objects' = [objects EXCEPT ![o] = NoOne]
     /\ byBody' = IF b # NoBody /\ byBody[b] = o THEN [byBody EXCEPT ![b] = NoObject] ELSE byBody
     /\ table' = [table EXCEPT !.name[o] = NoName]
     /\ call' = [call EXCEPT ![a] = Idle]
     /\ UNCHANGED <<native, header, owned, held>>

Step(a) ==
  \/ \E b \in Bodies, n \in Names \cup {NoName}, bias \in setting.biases : Insert(a, b, n, bias)
  \/ \E b \in Bodies : OpenByPointer(a, b) \/ Dereference(a, b)
  \/ \E h \in GuestHandles : NtClose(a, h) \/ \E source \in BOOLEAN : Duplicate(a, h, source)
  \/ \E n \in Names : OpenByName(a, n) \/ \E openIf \in 0..1 : CreateNamed(a, n, openIf)
  \/ Named(a) \/ Unname(a) \/ FindWrapper(a) \/ FindStandIn(a) \/ CreateStandIn(a) \/ Register(a)
  \/ AddCountedHandle(a) \/ Count(a) \/ NameObject(a) \/ Contain(a) \/ CloseHandle(a)
  \/ UnlinkFromDirectory(a) \/ DereferenceCounted(a) \/ DeleteBody(a) \/ Recount(a)
  \/ Construct(a) \/ Return(a) \/ Destroy(a)

Calls ==
  \/ \E b \in Bodies : CreateObject(b)
  \/ \E h \in GuestHandles : ReferenceByHandle(h) \/ \E g \in GuestHandles : DuplicatePlain(h, g)
  \/ \E a \in setting.threads : Step(a)
Next == Calls /\ UNCHANGED setting

Spec == Init /\ [][Next]_vars
-----------------------------------------------------------------------------
Idling == \A a \in Threads : At(a, "idle")
GuestHandlesOf(b) == {h \in GuestHandles : LookupObject(table, h) \in Objects
                                           /\ objects[LookupObject(table, h)].body = b}
Places == {"idle", "find", "create", "register", "add", "count", "attributes", "contain", "close",
           "unlink", "deref", "delete", "recount", "named", "unname", "construct", "return",
           "destroy"}

\* Types.
TypeOK ==
  /\ table \in [entry : [Handles -> [object : Objects \cup {NoObject}, refs : Nat]],
                handles : [Objects -> Seq(Handles)], refs : [Objects -> Nat],
                name : [Objects -> Names \cup {NoName}], names : [Names -> Handles \cup {NoHandle}]]
  /\ objects \in [Objects -> [kind : {"none", "standin", "wrapper", "plain"},
                              body : Bodies \cup {NoBody}]]
  /\ byBody \in [Bodies -> Objects \cup {NoObject}]
  /\ native \in [Bodies -> HostHandles \cup {NoHandle}]
  /\ header \in [Bodies -> [pointers : Nat, handles : Nat, contained : BOOLEAN,
                            state : {"none", "new", "live", "deleting", "freed"}]]
  /\ owned \in [GuestHandles -> Nat] /\ held \in [Bodies -> Nat]
  /\ \A a \in Threads : call[a].at \in Places /\ call[a].derefs \in 0..2

\* What the tables say of an object and what it says of itself agree, whatever slots were
\* freed and used again meanwhile.
TableConsistent ==
  \A o \in Objects : /\ Elems(table.handles[o]) = HandlesOf(table, o)
                     /\ Distinct(table.handles[o])

\* pointer_ref_count_ is one for each handle in the tables and one for each call that works
\* with the object, which is destroyed with the last and not before, also while another
\* thread finds it by its body.
RefsExact ==
  \A o \in Objects :
    /\ table.refs[o] = Cardinality(HandlesOf(table, o))
                       + Cardinality({a \in Threads : call[a].object = o})
                       + Cardinality({a \in Threads : call[a].outer = o /\ ~At(a, "destroy")})
    /\ table.refs[o] > 0 => objects[o].kind # "none"
    /\ objects[o].kind # "none" /\ table.refs[o] = 0 =>
         \E a \in Threads : At(a, "destroy") /\ call[a].outer = o

\* "The name moves to another of the object's guest handles and goes with its last": a name
\* finds a handle of a guest, and an object that goes by that name.
NamesLive ==
  \A n \in Names : table.names[n] # NoHandle =>
    /\ table.names[n] \in GuestHandles
    /\ LookupObject(table, table.names[n]) # NoObject
    /\ table.name[LookupObject(table, table.names[n])] = n

\* A handle the title was given is in the table as long as it has not closed it, with a
\* reference for each time it was given and, between calls, no other.
OwnedHandlesOpen ==
  \A h \in GuestHandles :
    /\ owned[h] > 0 => LookupObject(table, h) # NoObject
    /\ table.entry[h].refs >= owned[h]
    /\ Idling => table.entry[h].refs = owned[h]

\* Between calls the counts of a header are those of the handles, the references and the
\* directory. Close procedures get the first, and the last frees the object.
CountsExact ==
  Idling => \A b \in Bodies : header[b].state = "live" =>
    /\ header[b].handles = Cardinality(GuestHandlesOf(b))
    /\ header[b].pointers =
         header[b].handles + held[b] + (IF header[b].contained THEN 1 ELSE 0)

\* No call reads or writes the header of an object that is being deleted or freed.
NoUseAfterFree ==
  \A a \in Threads :
    \/ call[a].at \in {"contain", "count", "close", "unlink", "deref", "recount"}
    \/ At(a, "find") /\ call[a].body \in Dispatchers
    => header[call[a].body].state \in {"new", "live"}

\* An object that nobody has a handle of or a reference to is freed.
FreedAtLast ==
  Idling => \A b \in Bodies :
    header[b].state = "live" => held[b] > 0 \/ GuestHandlesOf(b) # {}

\* "The directory holds a reference until the last handle closes": as long as a name finds
\* the object.
DirectoryHoldsReference ==
  Idling => \A b \in Bodies : header[b].state = "live" =>
    ((\E n \in Names : table.names[n] \in GuestHandlesOf(b)) => header[b].contained)

\* "X_STATUS_SUCCESS means the name is free to create": the name then finds what was created.
CreatedIsFound ==
  Idling => \A h \in GuestHandles :
    LET o == LookupObject(table, h)
    IN owned[h] > 0 /\ o # NoObject /\ objects[o].kind = "plain" =>
         table.names[table.name[o]] \in HandlesOf(table, o)
=============================================================================
