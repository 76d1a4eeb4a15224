------------------------------- MODULE MCObjects ------------------------------
(***************************************************************************)
(* Waits with terminations on one primitive, or the object table and the   *)
(* handles of titles' objects in one of the settings: the initial state    *)
(* chooses.  The variables of the other model keep their initial values.   *)
(***************************************************************************)
EXTENDS WaitProperties, Integers, TLC

CONSTANTS
  a1, a2, a3, b1, b2, d1, none,
  Users, Slots, HostSlots, Hosts, Bodies, Dispatchers, ObjectNames, MaxHeld, MaxOpens,
  ObjectSettings

VARIABLES
  part,
  oTable, oObjects, oByBody, oNative, oHeader, oOwned, oHeld, oCall, oSetting

oVars == <<oTable, oObjects, oByBody, oNative, oHeader, oOwned, oHeld, oCall, oSetting>>

Given(ops, threads, bodies, objects, biases) ==
  [ops |-> ops, threads |-> threads, bodies |-> bodies, objects |-> objects, biases |-> biases]
Counted == {"create", "insert", "open", "duplicate", "close"}
\* One object of two host objects in its time, by handle; a dispatcher object and its
\* wrapper; two objects of one name; named events; opening by name, one thread.
FiveSettings ==
  {Given(Counted \cup {"reference", "replace"}, {a1, a2}, {b1}, 1..2, 0..1),
   Given(Counted \cup {"reference", "replace"}, {a1, a2}, {d1}, {1}, 0..1),
   Given(Counted, {a1, a2}, {b1, b2}, 1..3, {0}),
   Given({"create_named", "duplicate", "close"}, {a1, a2}, {}, 1..3, {}),
   Given({"create", "insert", "duplicate", "close", "open_named", "create_named"},
      {a3}, {b1}, 1..3, 0..1)}

Obj == INSTANCE ObjectManager WITH
         Names <- ObjectNames, NoObject <- none, NoName <- none, NoBody <- none,
         NoHandle <- -1, Threads <- Users, GuestHandles <- Slots, HostHandles <- HostSlots,
         Objects <- Hosts, Settings <- ObjectSettings,
         table <- oTable, objects <- oObjects, byBody <- oByBody, native <- oNative,
         header <- oHeader, owned <- oOwned, held <- oHeld, call <- oCall,
         setting <- oSetting

ASSUME ManagerOK == Obj!ManagerAssumption

ObjectsSym == Permutations(Cpus) \cup Permutations(Threads) \cup Permutations({a1, a2})

ObjectsInit ==
  /\ part \in {"waits", "objects"} /\ Init /\ Obj!Init
  /\ part = "waits" => oSetting = CHOOSE s \in ObjectSettings : TRUE
  /\ part = "objects" =>
       kind = "mutant" /\ cpu = [t \in Threads |-> CHOOSE c \in Cpus : TRUE]
ObjectsNext ==
  \/ part = "waits" /\ Next /\ UNCHANGED <<part, oVars>>
  \/ part = "objects" /\ Obj!Next /\ UNCHANGED <<part, vars>>
ObjectsSpec == ObjectsInit /\ [][ObjectsNext]_<<part, vars, oVars>>

Alone == \E a \in Users : oSetting.threads = {a}

\* Every reference of a host object is that of a handle or of a call, the handles the title
\* owns are open, the lists of handles agree with the entries, and a name finds an object
\* that goes by it, whatever calls overlap (util/object_table.cc; xboxkrnl_ob.cc).
ObjectsExact ==
  Obj!TableConsistent /\ Obj!RefsExact /\ Obj!OwnedHandlesOpen /\ Obj!NamesLive

\* The counts in a guest header agree with the handles, the calls and the references there
\* are; no call touches the header of an object that is deleted or freed, and an object is
\* freed once nobody has a handle of it or a reference to it; one thread finds what it
\* created by its name, and the directory holds a reference to it (xboxkrnl_ob.cc).
BodiesFreedOnce ==
  /\ Obj!TypeOK /\ Obj!CountsExact /\ Obj!NoUseAfterFree /\ Obj!FreedAtLast
  /\ Alone => Obj!CreatedIsFound
  /\ Alone /\ "replace" \notin oSetting.ops => Obj!DirectoryHoldsReference
===============================================================================
