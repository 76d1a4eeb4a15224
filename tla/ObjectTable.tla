------------------------------ MODULE ObjectTable ------------------------------
(***************************************************************************)
(* kernel/util/object_table.cc and the counts of kernel/xobject.cc: the    *)
(* handle tables, the handles each object has, its pointer references and  *)
(* the names. A table is a record                                          *)
(*   entry[h]    the object of a handle and the references to the handle   *)
(*   handles[o]  XObject::handles_, oldest first                           *)
(*   refs[o]     XObject::pointer_ref_count_                               *)
(*   name[o]     XObject::name_                                            *)
(*   names[n]    name_table_, a name to a handle                           *)
(* and an operation is a function of it. All of them run under the global  *)
(* critical region. GuestHandles and HostHandles are the slots the model   *)
(* has, numbered; slot 0 belongs to an object of the kernel, so that a     *)
(* free slot is the lowest one: the scan starts at last_free_entry_, which *)
(* is 1 from the first handle until the table grows.                       *)
(***************************************************************************)
EXTENDS Integers, IntrusiveList

CONSTANTS GuestHandles, HostHandles, Objects, Names, NoObject, NoHandle, NoName

\* What the constants have to be.
TableAssumption ==
  /\ GuestHandles \subseteq Nat /\ HostHandles \subseteq Nat
  /\ GuestHandles \cap HostHandles = {}
  /\ NoObject \notin Objects
  /\ NoName \notin Names
  /\ NoHandle \notin GuestHandles \cup HostHandles

Handles == GuestHandles \cup HostHandles
NoEntry == [object |-> NoObject, refs |-> 0]

NewTable ==
  [entry   |-> [h \in Handles |-> NoEntry],
   handles |-> [o \in Objects |-> <<>>],
   refs    |-> [o \in Objects |-> 0],
   name    |-> [o \in Objects |-> NoName],
   names   |-> [n \in Names |-> NoHandle]]

LookupObject(t, h) == t.entry[h].object
HandlesOf(t, o) == {h \in Handles : t.entry[h].object = o}

IsFreeSlot(t, slots, h) ==
  /\ h \in slots /\ t.entry[h].object = NoObject
  /\ \A g \in slots : t.entry[g].object = NoObject => h <= g

\* A bug: the handle does not count as a reference to its object.
AddHandleUnretained(t, o, h) ==
  [t EXCEPT !.entry[h] = [object |-> o, refs |-> 1], !.handles[o] = LinkTail(@, h)]
AddHandle(t, o, h) ==
  [t EXCEPT !.entry[h] = [object |-> o, refs |-> 1],
            !.handles[o] = LinkTail(@, h),
            !.refs[o] = @ + 1]

Retain(t, o) == [t EXCEPT !.refs[o] = @ + 1]
Release(t, o) == [t EXCEPT !.refs[o] = @ - 1]

\* XObject::RetainHandle takes the object's oldest handle.
RetainHandle(t, o) ==
  IF t.handles[o] = <<>> THEN t ELSE [t EXCEPT !.entry[Head(t.handles[o])].refs = @ + 1]

\* Where a name of o goes when o loses h: to the oldest guest handle left.
\* A bug: the name goes with the handle it was mapped to.
DropName(t, left) == NoHandle
NextNamed(t, left) ==
  IF \E i \in DOMAIN left : left[i] \in GuestHandles
  THEN left[CHOOSE i \in DOMAIN left : /\ left[i] \in GuestHandles
                                       /\ \A j \in 1..(i - 1) : left[j] \notin GuestHandles]
  ELSE NoHandle

\* A bug: the handle stays in the object's list.
RemoveHandleListed(t, h) ==
  LET o == t.entry[h].object
  IN [t EXCEPT !.entry[h] = NoEntry, !.refs[o] = @ - 1]
\* A bug: the name is left on the handle.
RemoveHandleOnly(t, h) ==
  LET o == t.entry[h].object
  IN [t EXCEPT !.entry[h] = NoEntry, !.handles[o] = Unlink(@, h), !.refs[o] = @ - 1]
RemoveHandle(t, h) ==
  LET o == t.entry[h].object
      n == t.name[o]
      left == Unlink(t.handles[o], h)
      moved == IF n # NoName /\ t.names[n] = h
               THEN [t.names EXCEPT ![n] = NextNamed(t, left)] ELSE t.names
  IN [t EXCEPT !.entry[h] = NoEntry, !.handles[o] = left, !.refs[o] = @ - 1, !.names = moved]

\* A bug: the entry goes with the first release.
ReleaseHandleAtOnce(t, h) == IF t.entry[h].refs <= 0 THEN t ELSE RemoveHandle(t, h)
ReleaseHandle(t, h) ==
  IF t.entry[h].refs <= 0 THEN t
  ELSE IF t.entry[h].refs > 1 THEN [t EXCEPT !.entry[h].refs = @ - 1]
  ELSE RemoveHandle(t, h)

\* A lookup by name refs a handle of the object: the oldest, which need not be the one it
\* returns.
GetObjectByName(t, n) ==
  IF LookupObject(t, t.names[n]) = NoObject THEN t
  ELSE RetainHandle(t, LookupObject(t, t.names[n]))

\* A host object's own handle never gets a name while it has a guest one. A name in use
\* stays where it is, and the object is told its name all the same.
SetAttributes(t, o, n) ==
  LET guest == NextNamed(t, t.handles[o])
      h == IF guest = NoHandle THEN Head(t.handles[o]) ELSE guest
  IN [t EXCEPT !.name[o] = n, !.names[n] = IF @ = NoHandle THEN h ELSE @]
=============================================================================
