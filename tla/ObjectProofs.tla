---------------------------- MODULE ObjectProofs ----------------------------
(***************************************************************************)
(* The objects of titles and their handles: every reference of a host      *)
(* object is that of a handle or of a call, the lists of handles agree     *)
(* with the entries, and a name finds an object that goes by it, for any   *)
(* threads, handles, host objects, bodies and names.                       *)
(*                                                                         *)
(* Every operation on the table is a lemma of its own (Sound), so is every *)
(* step of a call: first what it does to the call and the header (...Does, *)
(* ...Is), then that it keeps the invariant (...Keeps).                    *)
(***************************************************************************)
EXTENDS MCObjects, NaturalsInduction, FiniteSetTheorems, TLAPS

\* An element of a list is at one of its indices.
LEMMA ElemAt ==
  ASSUME NEW S, NEW s \in Seq(S), NEW i \in 1..Len(s)
  PROVE  s[i] \in Elems(s)
  BY DEF Elems

\* LinkTailLocked: appending keeps the type, adds one element and, when it was not there,
\* no duplicate.
LEMMA LinkTailElems ==
  ASSUME NEW S, NEW s \in Seq(S), NEW t \in S
  PROVE  /\ LinkTail(s, t) \in Seq(S)
         /\ Elems(LinkTail(s, t)) = Elems(s) \cup {t}
         /\ Distinct(s) /\ t \notin Elems(s) => Distinct(LinkTail(s, t))
<1> DEFINE h == Append(s, t)
<1>1. /\ h \in Seq(S) /\ Len(h) = Len(s) + 1 /\ h[Len(s) + 1] = t
      /\ \A i \in 1..Len(s) : h[i] = s[i]
  OBVIOUS
<1> HIDE DEF h
<1>2. Elems(h) = Elems(s) \cup {t}
  <2>1. \A x \in Elems(h) : x \in Elems(s) \cup {t}
    BY <1>1 DEF Elems
  <2>2. ASSUME NEW x \in Elems(s) PROVE x \in Elems(h)
    <3>1. PICK i \in 1..Len(s) : s[i] = x
      BY DEF Elems
    <3> QED BY <3>1, <1>1, ElemAt
  <2>3. t \in Elems(h)
    BY <1>1, ElemAt
  <2> QED BY <2>1, <2>2, <2>3
<1>3. ASSUME Distinct(s), t \notin Elems(s) PROVE Distinct(h)
  BY <1>1, <1>3 DEF Distinct, Elems
<1> QED BY <1>1, <1>2, <1>3 DEF LinkTail, h

\* UnlinkLocked closes the gap at the one place where t is linked.
LEMMA UnlinkAt ==
  ASSUME NEW S, NEW s \in Seq(S), NEW t \in Elems(s), Distinct(s)
  PROVE  \E k \in 1..Len(s) :
           /\ s[k] = t
           /\ Unlink(s, t) = [j \in 1..(Len(s) - 1) |-> IF j < k THEN s[j] ELSE s[j + 1]]
<1> DEFINE P(i) == s[i] = t /\ \A j \in DOMAIN s : j < i => s[j] # t
           k == CHOOSE i \in DOMAIN s : P(i)
<1>1. PICK i \in 1..Len(s) : s[i] = t
  BY DEF Elems
<1>2. P(i)
  BY <1>1 DEF Distinct
<1>3. k \in 1..Len(s) /\ s[k] = t
  BY <1>2
<1>4. Unlink(s, t) = [j \in 1..(Len(s) - 1) |-> IF j < k THEN s[j] ELSE s[j + 1]]
  BY DEF Unlink
<1> QED BY <1>3, <1>4

\* Exactly t leaves a duplicate-free list, whether it was linked or not.
LEMMA UnlinkElems ==
  ASSUME NEW S, NEW s \in Seq(S), NEW t, Distinct(s)
  PROVE  /\ Unlink(s, t) \in Seq(S)
         /\ Elems(Unlink(s, t)) = Elems(s) \ {t}
         /\ Distinct(Unlink(s, t))
<1>1. CASE t \notin Elems(s)
  BY <1>1 DEF Unlink
<1>2. CASE t \in Elems(s)
  <2>1. PICK k \in 1..Len(s) :
          /\ s[k] = t
          /\ Unlink(s, t) = [j \in 1..(Len(s) - 1) |-> IF j < k THEN s[j] ELSE s[j + 1]]
    BY <1>2, UnlinkAt
  <2> DEFINE u == [j \in 1..(Len(s) - 1) |-> IF j < k THEN s[j] ELSE s[j + 1]]
  <2>2. u \in Seq(S) /\ Len(u) = Len(s) - 1 /\ DOMAIN u = 1..(Len(s) - 1)
    OBVIOUS
  <2>3. \A x \in Elems(u) : x \in Elems(s) \ {t}
    BY <2>1, <2>2 DEF Elems, Distinct
  <2>4. ASSUME NEW x \in Elems(s) \ {t} PROVE x \in Elems(u)
    <3>1. PICK m \in 1..Len(s) : s[m] = x
      BY DEF Elems
    <3>2. m # k
      BY <3>1, <2>1
    <3>3. CASE m < k
      <4>1. m \in 1..(Len(s) - 1) /\ u[m] = x
        BY <3>3, <3>1
      <4> QED BY <4>1, <2>2, ElemAt
    <3>4. CASE m > k
      <4>1. m - 1 \in 1..(Len(s) - 1) /\ u[m - 1] = x
        BY <3>4, <3>1
      <4> QED BY <4>1, <2>2, ElemAt
    <3> QED BY <3>2, <3>3, <3>4
  <2>5. Distinct(u)
    BY <2>1, <2>2 DEF Distinct
  <2> QED BY <2>1, <2>2, <2>3, <2>4, <2>5
<1> QED BY <1>1, <1>2

\* A set of numbers has a least one.
LEMMA LeastNumber ==
  ASSUME NEW T \in SUBSET Nat, T # {}
  PROVE  \E i \in T : \A j \in T : ~(j < i)
<1> DEFINE R == OpToRel(<, Nat)
<1>1. IsWellFoundedOn(R, Nat)
  BY NatLessThanWellFounded, Zenon
<1>2. R = {ss \in Nat \X Nat : ss[1] < ss[2]}
  BY Zenon DEF OpToRel
<1> HIDE DEF R
<1>3. PICK i \in T : \A j \in T : ~(<<j, i>> \in R)
  BY <1>1, WFMin, Zenon
<1> QED
  BY <1>2, <1>3

-----------------------------------------------------------------------------
\* Lookups by name race with closes of the object that goes by the name, and they lose the
\* reference to a host handle: a setting that has them has no counted bodies, or one thread
\* and no dispatcher objects.
ByName == {"open_named", "create_named"}
Careful ==
  \A s \in ObjectSettings :
    \/ s.ops \cap ByName = {}
    \/ s.bodies = {}
    \/ (\E a \in Users : s.threads = {a}) /\ s.bodies \cap Dispatchers = {}

Num(p) == IF p THEN 1 ELSE 0
AllSlots == Slots \cup HostSlots
Entries == [object : Hosts \cup {none}, refs : Nat]
CallOps == {"none", "insert", "open", "deref", "duplicate", "replace", "close",
            "open_named", "create_named"}
CallRec ==
  [at : Obj!Places,
   op : CallOps,
   body : Bodies \cup {none}, handle : Slots \cup {-1}, object : Hosts \cup {none},
   outer : Hosts \cup {none}, name : ObjectNames \cup {none},
   bias : 0..(MaxHeld + 1), derefs : 0..2]

\* The places of a call: while it opens the object, and while it has references of a body.
Opening == {"find", "create", "register", "add", "count"}
Closing == {"close", "unlink", "deref", "delete", "recount"}

\* What a call counts for. It holds a handle that is not the title's (or not yet), one that
\* a lookup by name found among them; it has the only say in a handle the header does not
\* count; it closes one that has left the table; and it has references to a body.
HasHandle(c, h) == c.handle = h /\ c.at \notin {"find", "create", "add"}

nHandles(E, o) == Cardinality({h \in AllSlots : E[h].object = o})
nObject(C, o) == Cardinality({a \in Users : C[a].object = o})
nOuter(C, o) == Cardinality({a \in Users : C[a].outer = o /\ C[a].at # "destroy"})
nHolds(C, h) == Cardinality({a \in Users : HasHandle(C[a], h)})

\* The guest handles of a body, and those its header counts.
ObjectOf(h) == oTable.entry[h].object
BodyOf(h) == IF ObjectOf(h) = none THEN none ELSE oObjects[ObjectOf(h)].body

\* Types.
Tables == [entry : [AllSlots -> Entries], handles : [Hosts -> Seq(AllSlots)],
           refs : [Hosts -> Nat], name : [Hosts -> ObjectNames \cup {none}],
           names : [ObjectNames -> Slots \cup {-1}]]
Headers == [Bodies -> [pointers : Int, handles : Int, contained : BOOLEAN,
                       state : {"none", "new", "live", "deleting", "freed"}]]
Types ==
  /\ oObjects \in [Hosts -> [kind : {"none", "standin", "wrapper", "plain"},
                             body : Bodies \cup {none}]]
  /\ oByBody \in [Bodies -> Hosts \cup {none}]
  /\ oNative \in [Bodies -> HostSlots \cup {-1}]
  /\ oHeader \in Headers
  /\ oOwned \in [Slots -> Nat] /\ oHeld \in [Bodies -> Nat]
  /\ oCall \in [Users -> CallRec]
  /\ oSetting \in ObjectSettings

\* What a call has at each place.
Has(c) ==
  /\ c.at = "idle" => c = Obj!Idle
  /\ c.at \in Opening =>
       /\ c.op \in {"insert", "open", "duplicate", "open_named"} /\ c.body # none
       /\ c.outer = none <=> c.op \in {"insert", "open"}
       /\ c.op # "insert" => c.bias = 1
  /\ c.at \in {"find", "create", "add"} /\ c.op # "duplicate" => c.handle = -1
  /\ c.at \notin {"add", "register", "count"} => c.object = none
  /\ c.at \in {"add", "register", "count"} =>
       c.object # none /\ oObjects[c.object] \in [kind : {"standin", "wrapper"}, body : {c.body}]
  /\ c.at \in {"register", "count"} => c.handle # -1 /\ ObjectOf(c.handle) = c.object
  /\ c.at \in {"attributes", "contain"} =>
       /\ c.op \in {"insert", "create_named"} /\ (c.at = "contain" => c.op = "insert")
       /\ c.handle # -1 /\ c.outer # none /\ ObjectOf(c.handle) = c.outer /\ c.name # none
       /\ c.op = "insert" => c.body # none /\ oObjects[c.outer].body = c.body
       /\ c.op = "create_named" => c.body = none /\ oObjects[c.outer].kind = "plain"
  /\ c.at \in Closing =>
       /\ c.op \in {"close", "replace", "deref", "duplicate"} /\ c.body # none
       /\ c.at \in {"close", "unlink"} => c.op \in {"close", "replace"}
       /\ c.at = "deref" => c.derefs >= 1
       /\ c.at = "delete" => c.derefs <= 1
       /\ c.at = "recount" => c.op = "replace"
  /\ c.op = "replace" =>
       /\ c.at \in Closing /\ c.handle # -1
       /\ ObjectOf(c.handle) # none /\ oObjects[ObjectOf(c.handle)].body = c.body
  /\ c.op \in {"close", "deref"} => c.handle = -1
  /\ c.at \in {"named", "unname"} =>
       /\ c.op \in ByName /\ c.handle # -1 /\ c.name # none
       /\ c.op = "open_named" => c.bias = 1
       /\ IF c.at = "named" THEN c.outer = none /\ c.body = none
          ELSE /\ c.outer # none /\ ObjectOf(c.handle) = c.outer
               /\ oObjects[c.outer].body = c.body
       /\ c.at = "unname" /\ c.op = "open_named" => c.body # none
  /\ c.at = "construct" =>
       /\ c.op = "create_named" /\ c.outer = none /\ c.body = none
       /\ c.handle = -1 /\ c.name # none
  /\ c.at = "return" => c.op # "none" /\ (c.op \in {"insert", "open"} => c.body # none)
  /\ c.at = "destroy" => c.outer # none /\ c.handle = -1 /\ c.body = none
Places == \A a \in Users : Has(oCall[a])

\* The setting.
Within ==
  /\ \A a \in Users : oCall[a] # Obj!Idle => a \in oSetting.threads
  /\ \A a \in Users : oCall[a].op \in ByName \cup {"replace"} => oCall[a].op \in oSetting.ops
  /\ \A a \in Users : oCall[a].body \in oSetting.bodies \cup {none}
  /\ \A o \in Hosts : oObjects[o].body \in oSetting.bodies \cup {none}
  /\ \A b \in Bodies : oHeader[b].state # "none" \/ oHeld[b] > 0 => b \in oSetting.bodies

\* What an object is. Only a wrapper has a host handle.
ObjectKinds ==
  /\ \A o \in Hosts :
       /\ oObjects[o].kind \in {"none", "plain"} <=> oObjects[o].body = none
       /\ oObjects[o].kind = "none" => oTable.name[o] = none
       /\ oObjects[o].kind = "wrapper" => oObjects[o].body \in Dispatchers
  /\ \A h \in HostSlots : ObjectOf(h) # none => oObjects[ObjectOf(h)].kind = "wrapper"

\* The object a body is registered with is one of it.
Mapped ==
  \A b \in Bodies : oByBody[b] # none =>
    /\ oObjects[oByBody[b]].kind \in {"standin", "wrapper"} /\ oObjects[oByBody[b]].body = b

\* The table: the lists and the entries agree, and a name finds the first guest handle of an
\* object that goes by it.
First(s, h) ==
  \E i \in DOMAIN s : s[i] = h /\ \A j \in DOMAIN s : j < i => s[j] \notin Slots
Sound(t) ==
  /\ t \in Tables
  /\ \A o \in Hosts :
       /\ Distinct(t.handles[o])
       /\ \A h \in AllSlots : h \in Elems(t.handles[o]) <=> t.entry[h].object = o
  /\ \A h \in AllSlots : t.entry[h].object = none <=> t.entry[h].refs = 0
  /\ \A n \in ObjectNames : t.names[n] # -1 =>
       LET o == t.entry[t.names[n]].object
       IN o # none /\ t.name[o] = n /\ First(t.handles[o], t.names[n])

\* References to host objects.
Referred ==
  \A o \in Hosts :
    /\ oTable.refs[o] = nHandles(oTable.entry, o) + nObject(oCall, o) + nOuter(oCall, o)
    /\ oTable.refs[o] > 0 => oObjects[o].kind # "none"
    /\ oObjects[o].kind # "none" /\ oTable.refs[o] = 0 =>
         \E a \in Users : oCall[a].at = "destroy" /\ oCall[a].outer = o
Destroys ==
  /\ \A a \in Users : oCall[a].at = "destroy" =>
       oTable.refs[oCall[a].outer] = 0 /\ oObjects[oCall[a].outer].kind # "none"
  /\ \A a, x \in Users : oCall[a].at = "destroy" /\ oCall[x].at = "destroy"
                         /\ oCall[a].outer = oCall[x].outer => a = x

\* References to guest handles.
Handled == \A h \in Slots : oTable.entry[h].refs = oOwned[h] + nHolds(oCall, h)

\* Bodies are inserted once, before any other use.
Past(b) == oHeader[b].state \notin {"none", "new"}
Inserts(c, b) == c.op = "insert" /\ c.body = b /\ c.at \in Opening \cup {"attributes", "contain"}
Inserted ==
  /\ \A a \in Users, b \in Bodies : Inserts(oCall[a], b) => Past(b)
  /\ \A a \in Users : oCall[a].at \in Opening => Past(oCall[a].body)
  /\ \A o \in Hosts : oObjects[o].body # none => Past(oObjects[o].body)
  /\ \A a, x \in Users, b \in Bodies : Inserts(oCall[a], b) /\ Inserts(oCall[x], b) => a = x

\* Names are given once.
Naming(c, o) == c.at = "attributes" /\ c.outer = o
Named ==
  /\ \A a \in Users, o \in Hosts :
       \/ Naming(oCall[a], o)
       \/ Inserts(oCall[a], oObjects[o].body) /\ oCall[a].at # "contain"
            /\ oObjects[o].body # none
       => oTable.name[o] = none
  /\ \A a, x \in Users, o \in Hosts : Naming(oCall[a], o) /\ Naming(oCall[x], o) => a = x

\* The invariant.
Base ==
  /\ Types /\ Sound(oTable) /\ Places /\ Within /\ ObjectKinds /\ Mapped
  /\ Referred /\ Destroys /\ Handled /\ Inserted /\ Named

-----------------------------------------------------------------------------
\* How many there are of what a call may count for.
SameBut(S, f, g, y) == \A x \in S : x # y => g[x] = f[x]

LEMMA SameCardinality == \A S : Obj!Cardinality(S) = Cardinality(S)
  BY DEF Obj!Cardinality, Cardinality

LEMMA SlotsFinite == IsFiniteSet(Users) /\ IsFiniteSet(AllSlots) /\ IsFiniteSet(Slots)
<1>1. \A S : Obj!IsFiniteSet(S) <=> IsFiniteSet(S)
  BY DEF Obj!IsFiniteSet, IsFiniteSet
<1>2. IsFiniteSet(Users) /\ IsFiniteSet(AllSlots)
  BY <1>1, ManagerOK DEF Obj!ManagerAssumption, Obj!Handles, AllSlots
<1> QED
  BY <1>2, FS_Subset DEF AllSlots

\* A set that changes at most at x.
LEMMA CardinalityAt ==
  ASSUME NEW S, IsFiniteSet(S), NEW A \in SUBSET S, NEW B \in SUBSET S, NEW x,
         A \ {x} = B \ {x}
  PROVE  /\ Cardinality(A) \in Nat /\ Cardinality(B) \in Nat
         /\ Cardinality(B) + Num(x \in A) = Cardinality(A) + Num(x \in B)
<1>1. IsFiniteSet(A) /\ IsFiniteSet(B)
  BY FS_Subset
<1>2. Cardinality(A) \in Nat /\ Cardinality(B) \in Nat
  BY <1>1, FS_CardinalityType
<1>3. /\ Cardinality(A \ {x}) = IF x \in A THEN Cardinality(A) - 1 ELSE Cardinality(A)
      /\ Cardinality(B \ {x}) = IF x \in B THEN Cardinality(B) - 1 ELSE Cardinality(B)
  BY <1>1, FS_RemoveElement
<1> QED
  BY <1>2, <1>3 DEF Num

\* One element makes one, two make two, none make none.
LEMMA CardinalityFacts ==
  ASSUME NEW S, IsFiniteSet(S), NEW A \in SUBSET S
  PROVE  /\ Cardinality(A) \in Nat
         /\ \A x \in A : Cardinality(A) >= 1
         /\ \A x, y \in A : x # y => Cardinality(A) >= 2
         /\ A = {} <=> Cardinality(A) = 0
<1>1. IsFiniteSet(A) /\ Cardinality(A) \in Nat
  BY FS_Subset, FS_CardinalityType
<1>2. A = {} <=> Cardinality(A) = 0
  BY <1>1, FS_EmptySet
<1>3. ASSUME NEW x \in A, NEW y \in A, x # y PROVE Cardinality(A) >= 2
  <2>1. IsFiniteSet(A \ {x}) /\ Cardinality(A \ {x}) = Cardinality(A) - 1
    BY <1>1, FS_RemoveElement
  <2>2. Cardinality(A \ {x}) # 0
    BY <2>1, <1>3, FS_EmptySet
  <2> QED
    BY <2>1, <2>2, <1>1, FS_CardinalityType
<1> QED
  BY <1>1, <1>2, <1>3

\* The handles of an object, when one entry changes.
LEMMA HandleMoves ==
  ASSUME NEW E, NEW F, NEW h \in AllSlots, NEW o, SameBut(AllSlots, E, F, h)
  PROVE  /\ nHandles(E, o) \in Nat /\ nHandles(F, o) \in Nat
         /\ nHandles(F, o) + Num(E[h].object = o) = nHandles(E, o) + Num(F[h].object = o)
<1> DEFINE A == {x \in AllSlots : E[x].object = o}
           B == {x \in AllSlots : F[x].object = o}
<1>1. A \ {h} = B \ {h}
  BY DEF SameBut
<1>2. (h \in A <=> E[h].object = o) /\ (h \in B <=> F[h].object = o)
  OBVIOUS
<1>3. A \in SUBSET AllSlots /\ B \in SUBSET AllSlots
  OBVIOUS
<1> HIDE DEF A, B
<1>4. /\ Cardinality(A) \in Nat /\ Cardinality(B) \in Nat
      /\ Cardinality(B) + Num(h \in A) = Cardinality(A) + Num(h \in B)
  BY <1>1, <1>3, CardinalityAt, SlotsFinite
<1> QED
  BY <1>4, <1>2 DEF nHandles, A, B, Num

LEMMA HandleFacts ==
  ASSUME NEW E, NEW o
  PROVE  /\ nHandles(E, o) \in Nat
         /\ \A h \in AllSlots : E[h].object = o => nHandles(E, o) >= 1
         /\ (\A h \in AllSlots : E[h].object # o) <=> nHandles(E, o) = 0
<1> DEFINE A == {x \in AllSlots : E[x].object = o}
<1>1. A \in SUBSET AllSlots /\ \A h \in AllSlots : h \in A <=> E[h].object = o
  OBVIOUS
<1> HIDE DEF A
<1>2. Cardinality(A) \in Nat /\ (\A x \in A : Cardinality(A) >= 1)
        /\ (A = {} <=> Cardinality(A) = 0)
  BY <1>1, CardinalityFacts, SlotsFinite
<1>3. Cardinality(A) = nHandles(E, o)
  BY DEF A, nHandles
<1> QED
  BY <1>1, <1>2, <1>3

\* The counts, when one call changes.
LEMMA nObjectMoves ==
  ASSUME NEW C, NEW D, NEW a \in Users, NEW o, SameBut(Users, C, D, a)
  PROVE  /\ nObject(C, o) \in Nat /\ nObject(D, o) \in Nat
         /\ nObject(D, o) + Num(C[a].object = o) = nObject(C, o) + Num(D[a].object = o)
<1> DEFINE A == {x \in Users : C[x].object = o}
           B == {x \in Users : D[x].object = o}
<1>1. A \ {a} = B \ {a}
  BY DEF SameBut
<1>2. (a \in A <=> C[a].object = o) /\ (a \in B <=> D[a].object = o)
  OBVIOUS
<1>3. A \in SUBSET Users /\ B \in SUBSET Users
  OBVIOUS
<1> HIDE DEF A, B
<1>4. /\ Cardinality(A) \in Nat /\ Cardinality(B) \in Nat
      /\ Cardinality(B) + Num(a \in A) = Cardinality(A) + Num(a \in B)
  BY <1>1, <1>3, CardinalityAt, SlotsFinite
<1> QED
  BY <1>4, <1>2 DEF nObject, A, B, Num

LEMMA nObjectFacts ==
  ASSUME NEW C, NEW o
  PROVE  /\ nObject(C, o) \in Nat
         /\ \A x \in Users : C[x].object = o => nObject(C, o) >= 1
         /\ \A x, y \in Users : C[x].object = o /\ C[y].object = o /\ x # y => nObject(C, o) >= 2
         /\ (\A x \in Users : ~(C[x].object = o)) <=> nObject(C, o) = 0
<1> DEFINE A == {x \in Users : C[x].object = o}
<1>1. A \in SUBSET Users /\ \A x \in Users : x \in A <=> C[x].object = o
  OBVIOUS
<1>3. Cardinality(A) = nObject(C, o)
  BY DEF nObject
<1> HIDE DEF A
<1>2. /\ Cardinality(A) \in Nat /\ (\A x \in A : Cardinality(A) >= 1)
      /\ \A x, y \in A : x # y => Cardinality(A) >= 2
      /\ A = {} <=> Cardinality(A) = 0
  BY <1>1, CardinalityFacts, SlotsFinite
<1> QED
  BY <1>1, <1>2, <1>3

LEMMA nOuterMoves ==
  ASSUME NEW C, NEW D, NEW a \in Users, NEW o, SameBut(Users, C, D, a)
  PROVE  /\ nOuter(C, o) \in Nat /\ nOuter(D, o) \in Nat
         /\ nOuter(D, o) + Num(C[a].outer = o /\ C[a].at # "destroy") = nOuter(C, o)
              + Num(D[a].outer = o /\ D[a].at # "destroy")
<1> DEFINE A == {x \in Users : C[x].outer = o /\ C[x].at # "destroy"}
           B == {x \in Users : D[x].outer = o /\ D[x].at # "destroy"}
<1>1. A \ {a} = B \ {a}
  BY DEF SameBut
<1>2. (a \in A <=> C[a].outer = o /\ C[a].at # "destroy")
        /\ (a \in B <=> D[a].outer = o /\ D[a].at # "destroy")
  OBVIOUS
<1>3. A \in SUBSET Users /\ B \in SUBSET Users
  OBVIOUS
<1> HIDE DEF A, B
<1>4. /\ Cardinality(A) \in Nat /\ Cardinality(B) \in Nat
      /\ Cardinality(B) + Num(a \in A) = Cardinality(A) + Num(a \in B)
  BY <1>1, <1>3, CardinalityAt, SlotsFinite
<1> QED
  BY <1>4, <1>2 DEF nOuter, A, B, Num

LEMMA nOuterFacts ==
  ASSUME NEW C, NEW o
  PROVE  /\ nOuter(C, o) \in Nat
         /\ \A x \in Users : C[x].outer = o /\ C[x].at # "destroy" => nOuter(C, o) >= 1
         /\ \A x, y \in Users : C[x].outer = o /\ C[x].at # "destroy" /\ C[y].outer = o
              /\ C[y].at # "destroy" /\ x # y => nOuter(C, o) >= 2
         /\ (\A x \in Users : ~(C[x].outer = o /\ C[x].at # "destroy")) <=> nOuter(C, o) = 0
<1> DEFINE A == {x \in Users : C[x].outer = o /\ C[x].at # "destroy"}
<1>1. A \in SUBSET Users /\ \A x \in Users : x \in A <=> C[x].outer = o /\ C[x].at # "destroy"
  OBVIOUS
<1>3. Cardinality(A) = nOuter(C, o)
  BY DEF nOuter
<1> HIDE DEF A
<1>2. /\ Cardinality(A) \in Nat /\ (\A x \in A : Cardinality(A) >= 1)
      /\ \A x, y \in A : x # y => Cardinality(A) >= 2
      /\ A = {} <=> Cardinality(A) = 0
  BY <1>1, CardinalityFacts, SlotsFinite
<1> QED
  BY <1>1, <1>2, <1>3

LEMMA nHoldsMoves ==
  ASSUME NEW C, NEW D, NEW a \in Users, NEW o, SameBut(Users, C, D, a)
  PROVE  /\ nHolds(C, o) \in Nat /\ nHolds(D, o) \in Nat
         /\ nHolds(D, o) + Num(HasHandle(C[a], o)) = nHolds(C, o) + Num(HasHandle(D[a], o))
<1> DEFINE A == {x \in Users : HasHandle(C[x], o)}
           B == {x \in Users : HasHandle(D[x], o)}
<1>1. A \ {a} = B \ {a}
  BY DEF SameBut
<1>2. (a \in A <=> HasHandle(C[a], o)) /\ (a \in B <=> HasHandle(D[a], o))
  OBVIOUS
<1>3. A \in SUBSET Users /\ B \in SUBSET Users
  OBVIOUS
<1> HIDE DEF A, B
<1>4. /\ Cardinality(A) \in Nat /\ Cardinality(B) \in Nat
      /\ Cardinality(B) + Num(a \in A) = Cardinality(A) + Num(a \in B)
  BY <1>1, <1>3, CardinalityAt, SlotsFinite
<1> QED
  BY <1>4, <1>2 DEF nHolds, A, B, Num

LEMMA nHoldsFacts ==
  ASSUME NEW C, NEW o
  PROVE  /\ nHolds(C, o) \in Nat
         /\ \A x \in Users : HasHandle(C[x], o) => nHolds(C, o) >= 1
         /\ \A x, y \in Users : HasHandle(C[x], o) /\ HasHandle(C[y], o) /\ x # y
              => nHolds(C, o) >= 2
         /\ (\A x \in Users : ~(HasHandle(C[x], o))) <=> nHolds(C, o) = 0
<1> DEFINE A == {x \in Users : HasHandle(C[x], o)}
<1>1. A \in SUBSET Users /\ \A x \in Users : x \in A <=> HasHandle(C[x], o)
  OBVIOUS
<1>3. Cardinality(A) = nHolds(C, o)
  BY DEF nHolds
<1> HIDE DEF A
<1>2. /\ Cardinality(A) \in Nat /\ (\A x \in A : Cardinality(A) >= 1)
      /\ \A x, y \in A : x # y => Cardinality(A) >= 2
      /\ A = {} <=> Cardinality(A) = 0
  BY <1>1, CardinalityFacts, SlotsFinite
<1> QED
  BY <1>1, <1>2, <1>3

-----------------------------------------------------------------------------
\* Lists and names.
LEMMA SameLists ==
  /\ \A s : Obj!Elems(s) = Elems(s) /\ (Obj!Distinct(s) <=> Distinct(s))
  /\ \A s, x : Obj!LinkTail(s, x) = LinkTail(s, x) /\ Obj!Unlink(s, x) = Unlink(s, x)
<1>1. \A s : Obj!Elems(s) = Elems(s) /\ (Obj!Distinct(s) <=> Distinct(s))
  BY DEF Obj!Elems, Elems, Obj!Distinct, Distinct
<1>2. \A s, x : Obj!LinkTail(s, x) = LinkTail(s, x)
  BY DEF Obj!LinkTail, LinkTail
<1>3. \A s, x : Obj!Unlink(s, x) = Unlink(s, x)
  BY <1>1 DEF Obj!Unlink, Unlink
<1> QED
  BY <1>1, <1>2, <1>3

LEMMA ConstantFacts ==
  /\ Slots \subseteq Nat /\ HostSlots \subseteq Nat /\ Slots \cap HostSlots = {}
  /\ none \notin Hosts /\ none \notin ObjectNames /\ none \notin Bodies
  /\ Dispatchers \subseteq Bodies /\ -1 \notin Slots /\ -1 \notin HostSlots
  /\ MaxHeld \in Nat /\ Obj!Handles = AllSlots
  BY ManagerOK DEF Obj!ManagerAssumption, Obj!TableAssumption, Obj!Handles, AllSlots

\* The first guest handle of a list, if it has one.
LEMMA NextNamedIsFirst ==
  ASSUME NEW t, NEW s \in Seq(AllSlots)
  PROVE  /\ Obj!NextNamed(t, s) \in Slots \cup {-1}
         /\ Obj!NextNamed(t, s) = -1 => Elems(s) \cap Slots = {}
         /\ Obj!NextNamed(t, s) # -1 =>
              First(s, Obj!NextNamed(t, s)) /\ Obj!NextNamed(t, s) \in Elems(s) \cap Slots
<1>1. CASE \E i \in DOMAIN s : s[i] \in Slots
  <2> DEFINE Q(i) == s[i] \in Slots /\ \A j \in 1..(i - 1) : s[j] \notin Slots
             k == CHOOSE i \in DOMAIN s : Q(i)
             T == {i \in DOMAIN s : s[i] \in Slots}
  <2>1. T \in SUBSET Nat /\ T # {}
    BY <1>1
  <2> HIDE DEF T
  <2>2. PICK i \in T : \A j \in T : ~(j < i)
    BY <2>1, LeastNumber
  <2>3. i \in DOMAIN s /\ Q(i)
    BY <2>2 DEF T
  <2>4. k \in DOMAIN s /\ Q(k)
    BY <2>3
  <2>5. Obj!NextNamed(t, s) = s[k]
    BY <1>1 DEF Obj!NextNamed
  <2> HIDE DEF k
  <2>6. First(s, s[k])
    BY <2>4 DEF First
  <2> QED
    BY <2>4, <2>5, <2>6, ConstantFacts DEF Elems
<1>2. CASE ~\E i \in DOMAIN s : s[i] \in Slots
  BY <1>2 DEF Obj!NextNamed, Elems
<1> QED
  BY <1>1, <1>2

LEMMA FirstLinked ==
  ASSUME NEW s \in Seq(AllSlots), NEW g, First(s, g), NEW h \in AllSlots
  PROVE  First(LinkTail(s, h), g)
<1> DEFINE u == Append(s, h)
<1>1. u \in Seq(AllSlots) /\ Len(u) = Len(s) + 1 /\ \A i \in 1..Len(s) : u[i] = s[i]
  OBVIOUS
<1>2. DOMAIN s = 1..Len(s) /\ DOMAIN u = 1..Len(u)
  BY <1>1
<1> HIDE DEF u
<1>3. First(u, g)
  BY <1>1, <1>2 DEF First
<1> QED
  BY <1>3 DEF LinkTail, u

LEMMA FirstUnlinked ==
  ASSUME NEW s \in Seq(AllSlots), Distinct(s), NEW g, First(s, g), NEW h, g # h
  PROVE  First(Unlink(s, h), g)
<1>1. CASE h \notin Elems(s)
  BY <1>1 DEF Unlink
<1>2. CASE h \in Elems(s)
  <2>1. PICK k \in 1..Len(s) :
          /\ s[k] = h
          /\ Unlink(s, h) = [j \in 1..(Len(s) - 1) |-> IF j < k THEN s[j] ELSE s[j + 1]]
    BY <1>2, UnlinkAt
  <2> DEFINE u == [j \in 1..(Len(s) - 1) |-> IF j < k THEN s[j] ELSE s[j + 1]]
  <2>2. PICK i \in 1..Len(s) : s[i] = g /\ \A j \in 1..Len(s) : j < i => s[j] \notin Slots
    BY DEF First
  <2>3. CASE i < k
    <3>1. i \in DOMAIN u /\ u[i] = g /\ \A j \in DOMAIN u : j < i => u[j] \notin Slots
      BY <2>2, <2>3
    <3> QED
      BY <3>1, <2>1 DEF First
  <2>4. CASE i > k
    <3>1. i - 1 \in DOMAIN u /\ u[i - 1] = g
      BY <2>2, <2>4
    <3>2. \A j \in DOMAIN u : j < i - 1 => u[j] \notin Slots
      BY <2>2, <2>4
    <3> QED
      BY <3>1, <3>2, <2>1 DEF First
  <2> QED
    BY <2>1, <2>2, <2>3, <2>4
<1> QED
  BY <1>1, <1>2

\* The operations of the table, part by part.
LEMMA TableParts ==
  ASSUME NEW t \in Tables
  PROVE  /\ t.entry \in [AllSlots -> Entries] /\ t.handles \in [Hosts -> Seq(AllSlots)]
         /\ t.refs \in [Hosts -> Nat] /\ t.name \in [Hosts -> ObjectNames \cup {none}]
         /\ t.names \in [ObjectNames -> Slots \cup {-1}]
  BY DEF Tables

LEMMA AddHandleDoes ==
  ASSUME NEW t \in Tables, NEW o \in Hosts, NEW h \in AllSlots, NEW u, u = Obj!AddHandle(t, o, h)
  PROVE  /\ u \in Tables
         /\ u.entry = [t.entry EXCEPT ![h] = [object |-> o, refs |-> 1]]
         /\ u.handles = [t.handles EXCEPT ![o] = LinkTail(t.handles[o], h)]
         /\ u.refs = [t.refs EXCEPT ![o] = t.refs[o] + 1]
         /\ u.name = t.name /\ u.names = t.names
<1> DEFINE e == [t.entry EXCEPT ![h] = [object |-> o, refs |-> 1]]
           l == [t.handles EXCEPT ![o] = LinkTail(t.handles[o], h)]
           r == [t.refs EXCEPT ![o] = t.refs[o] + 1]
<1>1. t.handles[o] \in Seq(AllSlots)
  BY TableParts
<1>2. LinkTail(t.handles[o], h) \in Seq(AllSlots)
  BY <1>1 DEF LinkTail
<1>3. e \in [AllSlots -> Entries] /\ l \in [Hosts -> Seq(AllSlots)] /\ r \in [Hosts -> Nat]
  <2>1. [object |-> o, refs |-> 1] \in Entries
    BY DEF Entries
  <2> QED
    BY <1>2, <2>1, TableParts
<1>4. u = [t EXCEPT !.entry = e, !.handles = l, !.refs = r, !.name = t.name, !.names = t.names]
  BY SameLists DEF Obj!AddHandle, Tables
<1> HIDE DEF e, l, r
<1>5. /\ u \in Tables /\ u.entry = e /\ u.handles = l /\ u.refs = r /\ u.name = t.name
      /\ u.names = t.names
  BY <1>3, <1>4, TableParts DEF Tables
<1> QED
  BY <1>5 DEF e, l, r

LEMMA RetainDoes ==
  ASSUME NEW t \in Tables, NEW o \in Hosts, NEW u, u = Obj!Retain(t, o)
  PROVE  /\ u \in Tables /\ u.refs = [t.refs EXCEPT ![o] = t.refs[o] + 1]
         /\ u.entry = t.entry /\ u.handles = t.handles /\ u.name = t.name /\ u.names = t.names
<1> DEFINE r == [t.refs EXCEPT ![o] = t.refs[o] + 1]
<1>1. r \in [Hosts -> Nat]
  BY TableParts
<1>2. u = [t EXCEPT !.entry = t.entry, !.handles = t.handles, !.refs = r, !.name = t.name,
                    !.names = t.names]
  BY DEF Obj!Retain, Tables
<1> HIDE DEF r
<1>3. /\ u \in Tables /\ u.entry = t.entry /\ u.handles = t.handles /\ u.refs = r
      /\ u.name = t.name /\ u.names = t.names
  BY <1>1, <1>2, TableParts DEF Tables
<1> QED
  BY <1>3 DEF r

LEMMA ReleaseDoes ==
  ASSUME NEW t \in Tables, NEW o \in Hosts, t.refs[o] > 0, NEW u, u = Obj!Release(t, o)
  PROVE  /\ u \in Tables /\ u.refs = [t.refs EXCEPT ![o] = t.refs[o] - 1]
         /\ u.entry = t.entry /\ u.handles = t.handles /\ u.name = t.name /\ u.names = t.names
<1> DEFINE r == [t.refs EXCEPT ![o] = t.refs[o] - 1]
<1>1. r \in [Hosts -> Nat]
  BY TableParts
<1>2. u = [t EXCEPT !.entry = t.entry, !.handles = t.handles, !.refs = r, !.name = t.name,
                    !.names = t.names]
  BY DEF Obj!Release, Tables
<1> HIDE DEF r
<1>3. /\ u \in Tables /\ u.entry = t.entry /\ u.handles = t.handles /\ u.refs = r
      /\ u.name = t.name /\ u.names = t.names
  BY <1>1, <1>2, TableParts DEF Tables
<1> QED
  BY <1>3 DEF r

\* RetainHandle takes a handle of the list.
LEMMA RetainHandleDoes ==
  ASSUME NEW t \in Tables, NEW o \in Hosts, NEW h \in AllSlots,
         t.handles[o] # <<>>, Head(t.handles[o]) = h, NEW u, u = Obj!RetainHandle(t, o)
  PROVE  /\ u \in Tables
         /\ u.entry = [t.entry EXCEPT ![h] = [object |-> t.entry[h].object,
                                              refs |-> t.entry[h].refs + 1]]
         /\ u.refs = t.refs /\ u.handles = t.handles /\ u.name = t.name /\ u.names = t.names
<1> DEFINE e == [t.entry EXCEPT ![h] = [object |-> t.entry[h].object,
                                        refs |-> t.entry[h].refs + 1]]
<1>0. t.entry[h] \in Entries
  BY TableParts
<1>1. e \in [AllSlots -> Entries]
  BY <1>0, TableParts DEF Entries
<1>2. u = [t EXCEPT !.entry = e, !.handles = t.handles, !.refs = t.refs, !.name = t.name,
                    !.names = t.names]
  <2>1. u = [t EXCEPT !.entry = [t.entry EXCEPT ![h] = [t.entry[h] EXCEPT !.refs =
                                                         t.entry[h].refs + 1]]]
    BY DEF Obj!RetainHandle, Tables
  <2>2. [t.entry[h] EXCEPT !.refs = t.entry[h].refs + 1]
          = [object |-> t.entry[h].object, refs |-> t.entry[h].refs + 1]
    BY <1>0 DEF Entries
  <2> QED
    BY <2>1, <2>2 DEF Tables
<1> HIDE DEF e
<1>3. /\ u \in Tables /\ u.entry = e /\ u.handles = t.handles /\ u.refs = t.refs
      /\ u.name = t.name /\ u.names = t.names
  BY <1>1, <1>2, TableParts DEF Tables
<1> QED
  BY <1>3 DEF e

\* Removing a handle moves a name it had.
Left(t, h) == Unlink(t.handles[t.entry[h].object], h)

LEMMA RemoveHandleDoes ==
  ASSUME NEW t \in Tables, NEW h \in AllSlots, NEW o \in Hosts, t.entry[h].object = o,
         t.refs[o] > 0, Distinct(t.handles[o]), NEW u, u = Obj!RemoveHandle(t, h)
  PROVE  /\ u \in Tables
         /\ u.entry = [t.entry EXCEPT ![h] = [object |-> none, refs |-> 0]]
         /\ u.handles = [t.handles EXCEPT ![o] = Left(t, h)]
         /\ u.refs = [t.refs EXCEPT ![o] = t.refs[o] - 1]
         /\ u.name = t.name
         /\ u.names = IF t.name[o] # none /\ t.names[t.name[o]] = h
                      THEN [t.names EXCEPT ![t.name[o]] = Obj!NextNamed(t, Left(t, h))]
                      ELSE t.names
<1> DEFINE e == [t.entry EXCEPT ![h] = [object |-> none, refs |-> 0]]
           l == [t.handles EXCEPT ![o] = Left(t, h)]
           r == [t.refs EXCEPT ![o] = t.refs[o] - 1]
           m == IF t.name[o] # none /\ t.names[t.name[o]] = h
                THEN [t.names EXCEPT ![t.name[o]] = Obj!NextNamed(t, Left(t, h))]
                ELSE t.names
<1>1. t.handles[o] \in Seq(AllSlots)
  BY TableParts
<1>2. Left(t, h) \in Seq(AllSlots)
  BY <1>1, UnlinkElems DEF Left
<1>3. Obj!NextNamed(t, Left(t, h)) \in Slots \cup {-1}
  BY <1>2, NextNamedIsFirst
<1>4. e \in [AllSlots -> Entries] /\ l \in [Hosts -> Seq(AllSlots)] /\ r \in [Hosts -> Nat]
  <2>1. [object |-> none, refs |-> 0] \in Entries
    BY DEF Entries
  <2> HIDE DEF Left
  <2> QED
    BY <1>2, <2>1, TableParts
<1>5. m \in [ObjectNames -> Slots \cup {-1}]
  BY <1>3, TableParts
<1>6. u = [t EXCEPT !.entry = e, !.handles = l, !.refs = r, !.name = t.name, !.names = m]
  BY SameLists DEF Obj!RemoveHandle, Tables, Obj!NoEntry, Left
<1> HIDE DEF e, l, r, m
<1>7. /\ u \in Tables /\ u.entry = e /\ u.handles = l /\ u.refs = r /\ u.name = t.name
      /\ u.names = m
  BY <1>4, <1>5, <1>6, TableParts DEF Tables
<1> QED
  BY <1>7 DEF e, l, r, m

\* Releasing one that has more references.
LEMMA ReleaseHandleDoes ==
  ASSUME NEW t \in Tables, NEW h \in AllSlots, NEW u, u = Obj!ReleaseHandle(t, h)
  PROVE  /\ t.entry[h].refs = 1 => u = Obj!RemoveHandle(t, h)
         /\ t.entry[h].refs > 1 =>
              /\ u \in Tables
              /\ u.entry = [t.entry EXCEPT ![h] = [object |-> t.entry[h].object,
                                                   refs |-> t.entry[h].refs - 1]]
              /\ u.refs = t.refs /\ u.handles = t.handles /\ u.name = t.name
              /\ u.names = t.names
<1> DEFINE e == [t.entry EXCEPT ![h] = [object |-> t.entry[h].object,
                                        refs |-> t.entry[h].refs - 1]]
<1>0. t.entry[h] \in Entries /\ t.entry[h].refs \in Nat
  BY TableParts DEF Entries
<1>1. CASE t.entry[h].refs = 1
  BY <1>1 DEF Obj!ReleaseHandle
<1>2. CASE t.entry[h].refs > 1
  <2>1. e \in [AllSlots -> Entries]
    BY <1>0, <1>2, TableParts DEF Entries
  <2>2. u = [t EXCEPT !.entry = e, !.handles = t.handles, !.refs = t.refs, !.name = t.name,
                      !.names = t.names]
    <3>1. u = [t EXCEPT !.entry = [t.entry EXCEPT ![h] = [t.entry[h] EXCEPT !.refs =
                                                           t.entry[h].refs - 1]]]
      BY <1>2, <1>0 DEF Obj!ReleaseHandle, Tables
    <3>2. [t.entry[h] EXCEPT !.refs = t.entry[h].refs - 1]
            = [object |-> t.entry[h].object, refs |-> t.entry[h].refs - 1]
      BY <1>0 DEF Entries
    <3> QED
      BY <3>1, <3>2 DEF Tables
  <2> HIDE DEF e
  <2>3. /\ u \in Tables /\ u.entry = e /\ u.handles = t.handles /\ u.refs = t.refs
        /\ u.name = t.name /\ u.names = t.names
    BY <2>1, <2>2, TableParts DEF Tables
  <2> QED
    BY <2>3, <1>2 DEF e
<1>3. CASE t.entry[h].refs = 0
  BY <1>3
<1> QED
  BY <1>0, <1>1, <1>2, <1>3

\* SetAttributes of an object that has a guest handle.
LEMMA SetAttributesDoes ==
  ASSUME NEW t \in Tables, NEW o \in Hosts, NEW n \in ObjectNames, NEW g \in Slots,
         Obj!NextNamed(t, t.handles[o]) = g, NEW u, u = Obj!SetAttributes(t, o, n)
  PROVE  /\ u \in Tables
         /\ u.name = [t.name EXCEPT ![o] = n]
         /\ u.names = [t.names EXCEPT ![n] = IF t.names[n] = -1 THEN g ELSE t.names[n]]
         /\ u.entry = t.entry /\ u.handles = t.handles /\ u.refs = t.refs
<1> DEFINE w == [t.name EXCEPT ![o] = n]
           m == [t.names EXCEPT ![n] = IF t.names[n] = -1 THEN g ELSE t.names[n]]
<1>1. w \in [Hosts -> ObjectNames \cup {none}] /\ m \in [ObjectNames -> Slots \cup {-1}]
  BY TableParts
<1>2. g # -1
  BY ConstantFacts
<1>3. u = [t EXCEPT !.entry = t.entry, !.handles = t.handles, !.refs = t.refs, !.name = w,
                    !.names = m]
  BY <1>2 DEF Obj!SetAttributes, Tables
<1> HIDE DEF w, m
<1>4. /\ u \in Tables /\ u.entry = t.entry /\ u.handles = t.handles /\ u.refs = t.refs
      /\ u.name = w /\ u.names = m
  BY <1>1, <1>3, TableParts DEF Tables
<1> QED
  BY <1>4 DEF w, m

-----------------------------------------------------------------------------
\* The operations keep the table sound.
LEMMA SoundIs ==
  ASSUME NEW t, NEW u, Sound(t), u \in Tables, u.handles = t.handles, u.name = t.name,
         u.names = t.names, \A h \in AllSlots : u.entry[h].object = t.entry[h].object,
         \A h \in AllSlots : u.entry[h].object = none <=> u.entry[h].refs = 0
  PROVE  Sound(u)
<1>1. \A n \in ObjectNames : t.names[n] # -1 => t.names[n] \in AllSlots
  BY DEF Sound, Tables, AllSlots
<1> HIDE DEF First
<1> QED
  BY <1>1 DEF Sound

LEMMA RetainSound ==
  ASSUME NEW t, Sound(t), NEW o \in Hosts, NEW u, u = Obj!Retain(t, o)
  PROVE  /\ Sound(u) /\ u.refs = [t.refs EXCEPT ![o] = t.refs[o] + 1]
         /\ u.entry = t.entry /\ u.handles = t.handles /\ u.name = t.name /\ u.names = t.names
<1>1. t \in Tables
  BY DEF Sound
<1>2. /\ u \in Tables /\ u.refs = [t.refs EXCEPT ![o] = t.refs[o] + 1]
      /\ u.entry = t.entry /\ u.handles = t.handles /\ u.name = t.name /\ u.names = t.names
  BY <1>1, RetainDoes
<1>3. \A h \in AllSlots : t.entry[h].object = none <=> t.entry[h].refs = 0
  BY DEF Sound
<1>4. Sound(u)
  BY <1>2, <1>3, SoundIs
<1> QED
  BY <1>2, <1>4

LEMMA ReleaseSound ==
  ASSUME NEW t, Sound(t), NEW o \in Hosts, t.refs[o] > 0, NEW u, u = Obj!Release(t, o)
  PROVE  /\ Sound(u) /\ u.refs = [t.refs EXCEPT ![o] = t.refs[o] - 1]
         /\ u.entry = t.entry /\ u.handles = t.handles /\ u.name = t.name /\ u.names = t.names
<1>1. t \in Tables
  BY DEF Sound
<1>2. /\ u \in Tables /\ u.refs = [t.refs EXCEPT ![o] = t.refs[o] - 1]
      /\ u.entry = t.entry /\ u.handles = t.handles /\ u.name = t.name /\ u.names = t.names
  BY <1>1, ReleaseDoes
<1>3. \A h \in AllSlots : t.entry[h].object = none <=> t.entry[h].refs = 0
  BY DEF Sound
<1>4. Sound(u)
  BY <1>2, <1>3, SoundIs
<1> QED
  BY <1>2, <1>4

HandleCounts(t, h, n, u) ==
  /\ u.entry
       = [t.entry EXCEPT ![h] = [object |-> t.entry[h].object, refs |-> t.entry[h].refs + n]]
  /\ u.refs = t.refs /\ u.name = t.name /\ u.names = t.names

LEMMA RetainHandleSound ==
  ASSUME NEW t, Sound(t), NEW o \in Hosts, NEW h \in AllSlots,
         t.handles[o] # <<>>, Head(t.handles[o]) = h, NEW u, u = Obj!RetainHandle(t, o)
  PROVE  Sound(u) /\ t.entry[h].object = o /\ HandleCounts(t, h, 1, u)
<1>1. t \in Tables
  BY DEF Sound
<1>2. /\ u \in Tables
      /\ u.entry = [t.entry EXCEPT ![h] = [object |-> t.entry[h].object,
                                           refs |-> t.entry[h].refs + 1]]
      /\ u.refs = t.refs /\ u.handles = t.handles /\ u.name = t.name /\ u.names = t.names
  BY <1>1, RetainHandleDoes
<1>3. h \in Elems(t.handles[o])
  <2>1. t.handles[o] \in Seq(AllSlots)
    BY <1>1, TableParts
  <2>2. h = t.handles[o][1] /\ 1 \in 1..Len(t.handles[o])
    BY <2>1
  <2> QED
    BY <2>1, <2>2, ElemAt
<1>4. t.entry[h].object = o
  BY <1>3 DEF Sound
<1>5. t.entry \in [AllSlots -> Entries]
  BY <1>1, TableParts
<1>6. t.entry[h].refs \in Nat /\ o # none
  BY <1>5, ConstantFacts DEF Entries
<1>7. \A x \in AllSlots : t.entry[x].object = none <=> t.entry[x].refs = 0
  BY DEF Sound
<1>8. \A x \in AllSlots : u.entry[x].object = t.entry[x].object
  BY <1>2, <1>5
<1>9. \A x \in AllSlots : u.entry[x].object = none <=> u.entry[x].refs = 0
  BY <1>2, <1>5, <1>4, <1>6, <1>7
<1>10. Sound(u)
  BY <1>2, <1>8, <1>9, SoundIs
<1> QED
  BY <1>2, <1>4, <1>10 DEF HandleCounts

HandleAdded(t, o, h, u) ==
  /\ u.entry = [t.entry EXCEPT ![h] = [object |-> o, refs |-> 1]]
  /\ u.refs = [t.refs EXCEPT ![o] = t.refs[o] + 1]
  /\ u.name = t.name /\ u.names = t.names

LEMMA AddHandleSound ==
  ASSUME NEW t, Sound(t), NEW o \in Hosts, NEW h \in AllSlots, t.entry[h].object = none,
         NEW u, u = Obj!AddHandle(t, o, h)
  PROVE  Sound(u) /\ HandleAdded(t, o, h, u)
<1>1. t \in Tables
  BY DEF Sound
<1>2. /\ u \in Tables
      /\ u.entry = [t.entry EXCEPT ![h] = [object |-> o, refs |-> 1]]
      /\ u.handles = [t.handles EXCEPT ![o] = LinkTail(t.handles[o], h)]
      /\ u.refs = [t.refs EXCEPT ![o] = t.refs[o] + 1]
      /\ u.name = t.name /\ u.names = t.names
  BY <1>1, AddHandleDoes
<1>3. /\ t.entry \in [AllSlots -> Entries] /\ t.handles \in [Hosts -> Seq(AllSlots)]
      /\ t.names \in [ObjectNames -> Slots \cup {-1}] /\ o # none
  BY <1>1, TableParts, ConstantFacts
<1>4. h \notin Elems(t.handles[o]) /\ Distinct(t.handles[o])
  BY <1>3 DEF Sound
<1>5. /\ Elems(LinkTail(t.handles[o], h)) = Elems(t.handles[o]) \cup {h}
      /\ Distinct(LinkTail(t.handles[o], h))
  BY <1>3, <1>4, LinkTailElems
<1>10. \A p \in Hosts : u.handles[p] = IF p = o THEN LinkTail(t.handles[o], h) ELSE t.handles[p]
  BY <1>2, <1>3
<1>11. \A x \in AllSlots : u.entry[x].object = IF x = h THEN o ELSE t.entry[x].object
  BY <1>2, <1>3
<1>12. \A p \in Hosts : /\ Distinct(t.handles[p])
                       /\ \A x \in AllSlots : x \in Elems(t.handles[p]) <=> t.entry[x].object = p
  BY DEF Sound
<1>6. ASSUME NEW p \in Hosts
      PROVE  /\ Distinct(u.handles[p])
             /\ \A x \in AllSlots : x \in Elems(u.handles[p]) <=> u.entry[x].object = p
  <2>1. CASE p = o
    BY <2>1, <1>5, <1>10, <1>11, <1>12
  <2>2. CASE p # o
    <3>1. u.handles[p] = t.handles[p] /\ h \notin Elems(t.handles[p])
      BY <2>2, <1>10, <1>12, <1>3, ConstantFacts
    <3> QED
      BY <3>1, <2>2, <1>11, <1>12
  <2> QED
    BY <2>1, <2>2
<1>7. \A x \in AllSlots : u.entry[x].object = none <=> u.entry[x].refs = 0
  BY <1>2, <1>3 DEF Sound
<1>8. ASSUME NEW n \in ObjectNames, u.names[n] # -1
      PROVE  LET p == u.entry[u.names[n]].object
             IN p # none /\ u.name[p] = n /\ First(u.handles[p], u.names[n])
  <2> DEFINE g == t.names[n]
             p == t.entry[g].object
  <2>1. g \in AllSlots /\ p # none /\ t.name[p] = n /\ First(t.handles[p], g)
    BY <1>2, <1>3, <1>8 DEF Sound, AllSlots
  <2>2. p \in Hosts
    BY <2>1, <1>3 DEF Entries
  <2>3. u.entry[g] = t.entry[g]
    BY <1>2, <1>3, <2>1
  <2>4. First(LinkTail(t.handles[p], h), g)
    BY <2>1, <2>2, <1>3, FirstLinked
  <2> HIDE DEF g, p
  <2>5. First(u.handles[p], g)
    BY <2>1, <2>4, <2>2, <1>10
  <2>6. u.names[n] = g /\ u.entry[g].object = p
    BY <2>3, <1>2 DEF g, p
  <2> QED
    BY <2>1, <2>5, <2>6, <1>2
<1>9. Sound(u)
  BY <1>2, <1>6, <1>7, <1>8 DEF Sound
<1> QED
  BY <1>2, <1>9 DEF HandleAdded

HandleRemoved(t, o, h, u) ==
  /\ u.entry = [t.entry EXCEPT ![h] = [object |-> none, refs |-> 0]]
  /\ u.refs = [t.refs EXCEPT ![o] = t.refs[o] - 1]
  /\ u.name = t.name
  /\ \A n \in ObjectNames : n # t.name[o] \/ t.names[n] # h => u.names[n] = t.names[n]
  /\ \A n \in ObjectNames : n = t.name[o] /\ t.names[n] = h =>
       IF u.names[n] = -1 THEN \A x \in Slots : u.entry[x].object # o
       ELSE u.entry[u.names[n]].object = o

LEMMA RemoveHandleSound ==
  ASSUME NEW t, Sound(t), NEW h \in AllSlots, NEW o \in Hosts, t.entry[h].object = o,
         t.refs[o] > 0, NEW u, u = Obj!RemoveHandle(t, h)
  PROVE  Sound(u) /\ HandleRemoved(t, o, h, u)
<1>1. t \in Tables /\ Distinct(t.handles[o])
  BY DEF Sound
<1> DEFINE left == Left(t, h)
           g == Obj!NextNamed(t, left)
<1>2. /\ u \in Tables
      /\ u.entry = [t.entry EXCEPT ![h] = [object |-> none, refs |-> 0]]
      /\ u.handles = [t.handles EXCEPT ![o] = left]
      /\ u.refs = [t.refs EXCEPT ![o] = t.refs[o] - 1]
      /\ u.name = t.name
      /\ u.names = IF t.name[o] # none /\ t.names[t.name[o]] = h
                   THEN [t.names EXCEPT ![t.name[o]] = g] ELSE t.names
  BY <1>1, RemoveHandleDoes
<1>3. /\ t.entry \in [AllSlots -> Entries] /\ t.handles \in [Hosts -> Seq(AllSlots)]
      /\ t.names \in [ObjectNames -> Slots \cup {-1}]
           /\ t.name \in [Hosts -> ObjectNames \cup {none}]
      /\ o # none /\ none \notin ObjectNames
  BY <1>1, TableParts, ConstantFacts
<1>4. left \in Seq(AllSlots) /\ Elems(left) = Elems(t.handles[o]) \ {h} /\ Distinct(left)
  BY <1>1, <1>3, UnlinkElems DEF Left
<1>5. /\ g \in Slots \cup {-1}
      /\ g = -1 => Elems(left) \cap Slots = {}
      /\ g # -1 => First(left, g) /\ g \in Elems(left) \cap Slots
  BY <1>4, NextNamedIsFirst
<1> HIDE DEF left, g
<1>14. \A p \in Hosts : u.handles[p] = IF p = o THEN left ELSE t.handles[p]
  BY <1>2, <1>3
<1>15. \A x \in AllSlots : u.entry[x].object = IF x = h THEN none ELSE t.entry[x].object
  BY <1>2, <1>3
<1>16. \A p \in Hosts : /\ Distinct(t.handles[p])
                       /\ \A x \in AllSlots : x \in Elems(t.handles[p]) <=> t.entry[x].object = p
  BY DEF Sound
<1>7. ASSUME NEW p \in Hosts
      PROVE  /\ Distinct(u.handles[p])
             /\ \A x \in AllSlots : x \in Elems(u.handles[p]) <=> u.entry[x].object = p
  <2>1. CASE p = o
    BY <2>1, <1>4, <1>14, <1>15, <1>16, ConstantFacts
  <2>2. CASE p # o
    <3>1. u.handles[p] = t.handles[p] /\ h \notin Elems(t.handles[p]) /\ p # none
      BY <2>2, <1>14, <1>16, ConstantFacts
    <3> QED
      BY <3>1, <2>2, <1>15, <1>16
  <2> QED
    BY <2>1, <2>2
<1>8. \A x \in AllSlots : u.entry[x].object = none <=> u.entry[x].refs = 0
  BY <1>2, <1>3 DEF Sound
<1>9. \A x \in Slots : x \in AllSlots
  BY DEF AllSlots
<1>10. ASSUME NEW n \in ObjectNames, u.names[n] # -1
       PROVE  LET p == u.entry[u.names[n]].object
              IN p # none /\ u.name[p] = n /\ First(u.handles[p], u.names[n])
  <2>1. CASE n = t.name[o] /\ t.names[n] = h
    <3>1. u.names[n] = g /\ g # -1
      BY <2>1, <1>2, <1>3, <1>10
    <3>2. g \in AllSlots /\ g # h /\ t.entry[g].object = o /\ First(left, g)
      BY <3>1, <1>4, <1>5, <1>9 DEF Sound
    <3>3. u.entry[g].object = o /\ u.handles[o] = left
      BY <3>2, <1>2, <1>3
    <3> QED
      BY <3>1, <3>2, <3>3, <2>1, <1>2, <1>3
  <2>2. CASE ~(n = t.name[o] /\ t.names[n] = h)
    <3> DEFINE k == t.names[n]
               p == t.entry[k].object
    <3>1. u.names[n] = k
      BY <2>2, <1>2, <1>3
    <3>2. k \in AllSlots /\ p # none /\ t.name[p] = n /\ First(t.handles[p], k)
      BY <3>1, <1>3, <1>9, <1>10 DEF Sound
    <3>3. p \in Hosts /\ k # h
      BY <3>2, <2>2, <1>3 DEF Entries
    <3>4. u.entry[k] = t.entry[k]
      BY <3>2, <3>3, <1>2, <1>3
    <3>5. p = o => First(left, k)
      BY <3>2, <3>3, <1>1, <1>3, FirstUnlinked DEF left, Left
    <3> HIDE DEF k, p
    <3>6. First(u.handles[p], k)
      BY <3>2, <3>3, <3>5, <1>14
    <3>7. u.entry[k].object = p
      BY <3>4 DEF p
    <3> QED
      BY <3>1, <3>2, <3>6, <3>7, <1>2
  <2> QED
    BY <2>1, <2>2
<1> HIDE DEF First
<1>11. Sound(u)
  BY <1>2, <1>7, <1>8, <1>10, Zenon DEF Sound
<1>12. \A n \in ObjectNames : n # t.name[o] \/ t.names[n] # h => u.names[n] = t.names[n]
  BY <1>2, <1>3
<1>13. ASSUME NEW n \in ObjectNames, n = t.name[o], t.names[n] = h
       PROVE  IF u.names[n] = -1 THEN \A x \in Slots : u.entry[x].object # o
              ELSE u.entry[u.names[n]].object = o
  <2>1. u.names[n] = g
    BY <1>13, <1>2, <1>3
  <2>2. u.handles[o] = left
    BY <1>2, <1>3
  <2>3. \A x \in AllSlots : x \in Elems(left) <=> u.entry[x].object = o
    BY <1>7, <2>2
  <2> QED
    BY <2>1, <2>3, <1>5, <1>9
<1> QED
  BY <1>2, <1>11, <1>12, <1>13 DEF HandleRemoved

LEMMA ReleaseMoreSound ==
  ASSUME NEW t, Sound(t), NEW h \in AllSlots, t.entry[h].refs > 1, NEW u,
         u = Obj!ReleaseHandle(t, h)
  PROVE  Sound(u) /\ HandleCounts(t, h, -1, u)
<1>1. t \in Tables
  BY DEF Sound
<1>2. /\ u \in Tables
      /\ u.entry = [t.entry EXCEPT ![h] = [object |-> t.entry[h].object,
                                           refs |-> t.entry[h].refs - 1]]
      /\ u.refs = t.refs /\ u.handles = t.handles /\ u.name = t.name /\ u.names = t.names
  BY <1>1, ReleaseHandleDoes
<1>3. t.entry \in [AllSlots -> Entries] /\ t.entry[h].refs \in Nat
  BY <1>1, TableParts DEF Entries
<1>4. \A x \in AllSlots : t.entry[x].object = none <=> t.entry[x].refs = 0
  BY DEF Sound
<1>5. \A x \in AllSlots : u.entry[x].object = t.entry[x].object
  BY <1>2, <1>3
<1>6. \A x \in AllSlots : u.entry[x].object = none <=> u.entry[x].refs = 0
  BY <1>2, <1>3, <1>4
<1>7. Sound(u)
  BY <1>2, <1>5, <1>6, SoundIs
<1>8. t.entry[h].refs - 1 = t.entry[h].refs + (-1)
  BY <1>3
<1> QED
  BY <1>2, <1>7, <1>8 DEF HandleCounts

ObjectNamed(t, o, n, u) ==
  /\ u.name = [t.name EXCEPT ![o] = n]
  /\ u.entry = t.entry /\ u.refs = t.refs
  /\ \A m \in ObjectNames : u.names[m] = t.names[m] \/ m = n
  /\ IF t.names[n] = -1 THEN u.names[n] # -1 /\ t.entry[u.names[n]].object = o
     ELSE u.names[n] = t.names[n]

LEMMA SetAttributesSound ==
  ASSUME NEW t, Sound(t), NEW o \in Hosts, NEW n \in ObjectNames, t.name[o] = none,
         NEW h \in Slots, t.entry[h].object = o, NEW u, u = Obj!SetAttributes(t, o, n)
  PROVE  Sound(u) /\ ObjectNamed(t, o, n, u)
<1>1. t \in Tables
  BY DEF Sound
<1> DEFINE g == Obj!NextNamed(t, t.handles[o])
<1>2. /\ t.entry \in [AllSlots -> Entries] /\ t.handles \in [Hosts -> Seq(AllSlots)]
      /\ t.names \in [ObjectNames -> Slots \cup {-1}]
           /\ t.name \in [Hosts -> ObjectNames \cup {none}]
      /\ o # none /\ none \notin ObjectNames
  BY <1>1, TableParts, ConstantFacts
<1>3. \A x \in Slots : x \in AllSlots /\ x # -1
  BY ConstantFacts DEF AllSlots
<1>4. h \in Elems(t.handles[o]) \cap Slots
  BY <1>3 DEF Sound
<1>5. t.handles[o] \in Seq(AllSlots)
  BY <1>2
<1>6. /\ g \in Slots \cup {-1}
      /\ g = -1 => Elems(t.handles[o]) \cap Slots = {}
      /\ g # -1 => First(t.handles[o], g) /\ g \in Elems(t.handles[o]) \cap Slots
  BY <1>5, NextNamedIsFirst
<1>7. g \in Slots /\ First(t.handles[o], g) /\ g \in Elems(t.handles[o])
  BY <1>4, <1>6
<1>8. t.entry[g].object = o
  BY <1>3, <1>7 DEF Sound
<1>9. /\ u \in Tables
      /\ u.name = [t.name EXCEPT ![o] = n]
      /\ u.names = [t.names EXCEPT ![n] = IF t.names[n] = -1 THEN g ELSE t.names[n]]
      /\ u.entry = t.entry /\ u.handles = t.handles /\ u.refs = t.refs
  BY <1>1, <1>7, SetAttributesDoes
<1> HIDE DEF g
<1>10. ASSUME NEW m \in ObjectNames, u.names[m] # -1
       PROVE  LET p == u.entry[u.names[m]].object
              IN p # none /\ u.name[p] = m /\ First(u.handles[p], u.names[m])
  <2>1. CASE m = n /\ t.names[n] = -1
    BY <2>1, <1>7, <1>8, <1>9, <1>2
  <2>2. CASE ~(m = n /\ t.names[n] = -1)
    <3> DEFINE k == t.names[m]
               p == t.entry[k].object
    <3>1. u.names[m] = k
      BY <2>2, <1>9, <1>2
    <3>2. k \in AllSlots /\ p # none /\ t.name[p] = m /\ First(t.handles[p], k)
      BY <3>1, <1>2, <1>3, <1>10 DEF Sound
    <3>3. p # o /\ p \in Hosts
      BY <3>2, <1>2 DEF Entries
    <3>4. u.name[p] = m
      BY <3>2, <3>3, <1>9, <1>2
    <3> QED
      BY <3>1, <3>2, <3>4, <1>9
  <2> QED
    BY <2>1, <2>2
<1>11. Sound(u)
  <2>1. \A p \in Hosts : /\ Distinct(u.handles[p])
                         /\ \A x \in AllSlots : x \in Elems(u.handles[p]) <=> u.entry[x].object
                              = p
    BY <1>9 DEF Sound
  <2>2. \A x \in AllSlots : u.entry[x].object = none <=> u.entry[x].refs = 0
    BY <1>9 DEF Sound
  <2> QED
    BY <1>9, <1>10, <2>1, <2>2, Zenon DEF Sound
<1>12. /\ \A m \in ObjectNames : u.names[m] = t.names[m] \/ m = n
       /\ IF t.names[n] = -1 THEN u.names[n] # -1 /\ t.entry[u.names[n]].object = o
          ELSE u.names[n] = t.names[n]
  BY <1>9, <1>2, <1>3, <1>7, <1>8
<1> QED
  BY <1>9, <1>11, <1>12 DEF ObjectNamed

ObjectUnnamed(t, o, u) ==
  /\ u.name = [t.name EXCEPT ![o] = none]
  /\ u.entry = t.entry /\ u.refs = t.refs /\ u.names = t.names
HasNoHandle(t, o) == \A h \in AllSlots : t.entry[h].object # o

LEMMA UnnameSound ==
  ASSUME NEW t, Sound(t), NEW o \in Hosts, HasNoHandle(t, o),
         NEW u, u = [t EXCEPT !.name[o] = none]
  PROVE  Sound(u) /\ ObjectUnnamed(t, o, u)
<1> DEFINE w == [t.name EXCEPT ![o] = none]
<1>1. /\ t \in Tables /\ t.entry \in [AllSlots -> Entries]
      /\ t.names \in [ObjectNames -> Slots \cup {-1}]
           /\ t.name \in [Hosts -> ObjectNames \cup {none}]
  BY TableParts DEF Sound
<1>2. w \in [Hosts -> ObjectNames \cup {none}]
  BY <1>1
<1>3. u = [t EXCEPT !.name = w]
  BY <1>1 DEF Tables
<1> HIDE DEF w
<1>4. /\ u \in Tables /\ u.name = w
      /\ u.entry = t.entry /\ u.handles = t.handles /\ u.refs = t.refs /\ u.names = t.names
  BY <1>1, <1>2, <1>3 DEF Tables
<1>5. ASSUME NEW n \in ObjectNames, u.names[n] # -1
      PROVE  LET p == u.entry[u.names[n]].object
             IN p # none /\ u.name[p] = n /\ First(u.handles[p], u.names[n])
  <2> DEFINE k == t.names[n]
             p == t.entry[k].object
  <2>1. k \in AllSlots /\ p # none /\ t.name[p] = n /\ First(t.handles[p], k)
    BY <1>4, <1>1, <1>5 DEF Sound, AllSlots
  <2>2. p # o /\ p \in Hosts
    BY <2>1, <1>1 DEF Entries, HasNoHandle
  <2>3. u.name[p] = n
    BY <2>1, <2>2, <1>4, <1>1 DEF w
  <2> QED
    BY <2>1, <2>3, <1>4
<1>6. Sound(u)
  BY <1>4, <1>5 DEF Sound
<1> QED
  BY <1>4, <1>6 DEF w, ObjectUnnamed

-----------------------------------------------------------------------------
\* What a call does to the counts. The references of one call to a host object, and those
\* of a handle to it.
Mine(c, o) == Num(c.object = o) + Num(c.outer = o /\ c.at # "destroy")
Slot(E, h, o) == Num(h \in AllSlots /\ E[h].object = o)

LEMMA NumType == \A p : Num(p) \in 0..1
  BY DEF Num

LEMMA MineType == \A c, o : Mine(c, o) \in 0..2
  BY NumType DEF Mine

LEMMA SlotMoves ==
  ASSUME NEW E, NEW F, NEW o, NEW h, SameBut(AllSlots, E, F, h)
  PROVE  /\ nHandles(E, o) \in Nat /\ nHandles(F, o) \in Nat
         /\ nHandles(F, o) + Slot(E, h, o) = nHandles(E, o) + Slot(F, h, o)
<1>1. CASE h \in AllSlots
  <2>1. /\ nHandles(E, o) \in Nat /\ nHandles(F, o) \in Nat
        /\ nHandles(F, o) + Num(E[h].object = o) = nHandles(E, o) + Num(F[h].object = o)
    BY <1>1, HandleMoves
  <2>2. Slot(E, h, o) = Num(E[h].object = o) /\ Slot(F, h, o) = Num(F[h].object = o)
    BY <1>1 DEF Slot, Num
  <2> QED
    BY <2>1, <2>2
<1>2. CASE h \notin AllSlots
  <2>1. {x \in AllSlots : F[x].object = o} = {x \in AllSlots : E[x].object = o}
    BY <1>2 DEF SameBut
  <2>2. nHandles(F, o) = nHandles(E, o)
    BY <2>1 DEF nHandles
  <2>3. nHandles(E, o) \in Nat
    BY HandleFacts
  <2>4. Slot(E, h, o) = 0 /\ Slot(F, h, o) = 0
    BY <1>2 DEF Slot, Num
  <2> QED
    BY <2>2, <2>3, <2>4
<1> QED
  BY <1>1, <1>2

\* The references to a host object move with what a call has of them, and with a handle.
LEMMA ReferredMoves ==
  ASSUME NEW E, NEW F, NEW C, NEW D, NEW o, NEW a \in Users, NEW h,
         SameBut(Users, C, D, a), SameBut(AllSlots, E, F, h)
  PROVE  \A r, s \in Nat :
           /\ r = nHandles(E, o) + nObject(C, o) + nOuter(C, o)
           /\ s + Slot(E, h, o) + Mine(C[a], o) = r + Slot(F, h, o) + Mine(D[a], o)
           => s = nHandles(F, o) + nObject(D, o) + nOuter(D, o)
<1>1. nHandles(F, o) + Slot(E, h, o) = nHandles(E, o) + Slot(F, h, o)
  BY SlotMoves
<1>5. nHandles(E, o) \in Nat /\ nHandles(F, o) \in Nat
  BY HandleFacts
<1>2. /\ nObject(C, o) \in Nat /\ nObject(D, o) \in Nat
      /\ nObject(D, o) + Num(C[a].object = o) = nObject(C, o) + Num(D[a].object = o)
  BY nObjectMoves
<1>3. /\ nOuter(C, o) \in Nat /\ nOuter(D, o) \in Nat
      /\ nOuter(D, o) + Num(C[a].outer = o /\ C[a].at # "destroy")
           = nOuter(C, o) + Num(D[a].outer = o /\ D[a].at # "destroy")
  BY nOuterMoves
<1>4. Slot(E, h, o) \in 0..1 /\ Slot(F, h, o) \in 0..1
  BY NumType DEF Slot
<1> QED
  BY <1>1, <1>2, <1>3, <1>4, <1>5, NumType DEF Mine

LEMMA HandledMoves ==
  ASSUME NEW C, NEW D, NEW h, NEW a \in Users, SameBut(Users, C, D, a)
  PROVE  \A r, s, m, n \in Nat :
           /\ r = m + nHolds(C, h)
           /\ s + m + Num(HasHandle(C[a], h)) = r + n + Num(HasHandle(D[a], h))
           => s = n + nHolds(D, h)
<1>1. /\ nHolds(C, h) \in Nat /\ nHolds(D, h) \in Nat
      /\ nHolds(D, h) + Num(HasHandle(C[a], h)) = nHolds(C, h) + Num(HasHandle(D[a], h))
  BY nHoldsMoves
<1> QED
  BY <1>1, NumType

\* What the counts say.
LEMMA RefFacts ==
  ASSUME Base
  PROVE  /\ \A o \in Hosts : oTable.refs[o] \in Nat
         /\ \A h \in AllSlots, o \in Hosts : ObjectOf(h) = o =>
              /\ oTable.refs[o] >= 1 /\ oObjects[o].kind # "none"
              /\ \A a \in Users : oTable.refs[o] >= 1 + Mine(oCall[a], o)
         /\ \A a \in Users, o \in Hosts : oTable.refs[o] >= Mine(oCall[a], o)
         /\ \A a, x \in Users, o \in Hosts :
              a # x => oTable.refs[o] >= Mine(oCall[a], o) + Mine(oCall[x], o)
<1>1. \A o \in Hosts : oTable.refs[o] \in Nat
  BY TableParts DEF Base, Sound
<1>2. ASSUME NEW a \in Users, NEW o
      PROVE  nObject(oCall, o) + nOuter(oCall, o) >= Mine(oCall[a], o)
  BY nObjectFacts, nOuterFacts DEF Mine, Num
<1>3. ASSUME NEW a \in Users, NEW x \in Users, a # x, NEW o
      PROVE  nObject(oCall, o) + nOuter(oCall, o) >= Mine(oCall[a], o) + Mine(oCall[x], o)
  <2>1. nObject(oCall, o) >= Num(oCall[a].object = o) + Num(oCall[x].object = o)
    BY <1>3, nObjectFacts DEF Num
  <2>2. nOuter(oCall, o) >= Num(oCall[a].outer = o /\ oCall[a].at # "destroy")
                            + Num(oCall[x].outer = o /\ oCall[x].at # "destroy")
    BY <1>3, nOuterFacts DEF Num
  <2> QED
    BY <2>1, <2>2, nObjectFacts, nOuterFacts, NumType DEF Mine
<1>4. ASSUME NEW h \in AllSlots, NEW o \in Hosts, ObjectOf(h) = o
               PROVE nHandles(oTable.entry, o) >= 1
  BY <1>4, HandleFacts DEF ObjectOf
<1>5. \A o \in Hosts :
        /\ oTable.refs[o] = nHandles(oTable.entry, o) + nObject(oCall, o) + nOuter(oCall, o)
        /\ nHandles(oTable.entry, o) \in Nat /\ nObject(oCall, o) \in Nat
             /\ nOuter(oCall, o) \in Nat
        /\ oTable.refs[o] > 0 => oObjects[o].kind # "none"
  BY HandleFacts, nObjectFacts, nOuterFacts DEF Base, Referred
<1>6. ASSUME NEW h \in AllSlots, NEW o \in Hosts, ObjectOf(h) = o
      PROVE  /\ oTable.refs[o] >= 1 /\ oObjects[o].kind # "none"
             /\ \A a \in Users : oTable.refs[o] >= 1 + Mine(oCall[a], o)
  BY <1>2, <1>4, <1>5, <1>6, MineType
<1> QED
  BY <1>1, <1>2, <1>3, <1>5, <1>6, MineType

LEMMA HoldFacts ==
  ASSUME Base
  PROVE  \A h \in Slots :
           /\ oTable.entry[h].refs \in Nat /\ oOwned[h] \in Nat
           /\ ObjectOf(h) \in Hosts \cup {none}
           /\ oTable.entry[h].refs > 0 => ObjectOf(h) \in Hosts
           /\ oOwned[h] > 0 => ObjectOf(h) \in Hosts
           /\ \A a \in Users :
                /\ oTable.entry[h].refs >= oOwned[h] + Num(HasHandle(oCall[a], h))
                /\ HasHandle(oCall[a], h) => ObjectOf(h) \in Hosts
                /\ \A x \in Users : x # a =>
                     oTable.entry[h].refs >= oOwned[h] + Num(HasHandle(oCall[a], h))
                                             + Num(HasHandle(oCall[x], h))
<1> SUFFICES ASSUME NEW h \in Slots
    PROVE  /\ oTable.entry[h].refs \in Nat /\ oOwned[h] \in Nat
           /\ ObjectOf(h) \in Hosts \cup {none}
           /\ oTable.entry[h].refs > 0 => ObjectOf(h) \in Hosts
           /\ oOwned[h] > 0 => ObjectOf(h) \in Hosts
           /\ \A a \in Users :
                /\ oTable.entry[h].refs >= oOwned[h] + Num(HasHandle(oCall[a], h))
                /\ HasHandle(oCall[a], h) => ObjectOf(h) \in Hosts
                /\ \A x \in Users : x # a =>
                     oTable.entry[h].refs >= oOwned[h] + Num(HasHandle(oCall[a], h))
                                             + Num(HasHandle(oCall[x], h))
  OBVIOUS
<1>1. oTable.entry \in [AllSlots -> Entries] /\ h \in AllSlots
  BY TableParts DEF Base, Sound, AllSlots
<1>2. /\ oTable.entry[h].refs \in Nat /\ oOwned[h] \in Nat
      /\ ObjectOf(h) \in Hosts \cup {none}
  BY <1>1 DEF Base, Types, Entries, ObjectOf
<1>3. oTable.entry[h].refs > 0 => ObjectOf(h) \in Hosts
  BY <1>1, <1>2 DEF Base, Sound, ObjectOf
<1>4. oTable.entry[h].refs = oOwned[h] + nHolds(oCall, h) /\ nHolds(oCall, h) \in Nat
  BY nHoldsFacts DEF Base, Handled
<1>5. ASSUME NEW a \in Users
      PROVE  /\ nHolds(oCall, h) >= Num(HasHandle(oCall[a], h))
             /\ HasHandle(oCall[a], h) => nHolds(oCall, h) >= 1
             /\ \A x \in Users : x # a =>
                  nHolds(oCall, h) >= Num(HasHandle(oCall[a], h)) + Num(HasHandle(oCall[x], h))
  BY nHoldsFacts DEF Num
<1> QED
  BY <1>2, <1>3, <1>4, <1>5, NumType

\* What a call knows stays so, when its objects and its handle stay what they are.
LEMMA HasStays ==
  ASSUME NEW c \in CallRec, Has(c),
         c.object # none => oObjects'[c.object] = oObjects[c.object],
         c.outer # none /\ c.at # "destroy" => oObjects'[c.outer] = oObjects[c.outer],
         HasHandle(c, c.handle) /\ c.handle # -1 =>
           /\ ObjectOf(c.handle)' = ObjectOf(c.handle)
           /\ ObjectOf(c.handle) # none =>
                oObjects'[ObjectOf(c.handle)] = oObjects[ObjectOf(c.handle)]
  PROVE  Has(c)'
  BY DEF Has, HasHandle, Opening, Closing

\* The other calls, when no object or handle changes that they have a reference to.
LEMMA OthersStay ==
  ASSUME Base, NEW a \in Users, SameBut(Users, oCall, oCall', a),
         \A o \in Hosts : oObjects[o].kind # "none" /\ oTable.refs[o] > Mine(oCall[a], o) =>
           oObjects'[o] = oObjects[o],
         \A h \in Slots :
           ObjectOf(h) # none /\ oTable.entry[h].refs > oOwned[h] + Num(HasHandle(oCall[a], h)) =>
             ObjectOf(h)' = ObjectOf(h)
  PROVE  \A x \in Users : x # a => Has(oCall[x])'
<1> SUFFICES ASSUME NEW x \in Users, x # a PROVE Has(oCall[x])'
  OBVIOUS
<1>1. PICK c \in CallRec : c = oCall[x]
  BY DEF Base, Types
<1>2. oCall'[x] = c /\ Has(c)
  BY <1>1 DEF Base, Places, SameBut
<1>3. ASSUME NEW o \in Hosts, Mine(c, o) >= 1 PROVE oObjects'[o] = oObjects[o]
  <2>1. oTable.refs[o] >= Mine(oCall[a], o) + Mine(c, o) /\ oTable.refs[o] \in Nat
    BY <1>1, RefFacts
  <2>2. oObjects[o].kind # "none"
    BY <2>1, <1>3, MineType DEF Base, Referred
  <2> QED
    BY <2>1, <2>2, <1>3, MineType
<1>4. c.object \in Hosts \cup {none} /\ c.outer \in Hosts \cup {none} /\ c.handle \in Slots
        \cup {-1}
  BY DEF CallRec
<1>5. c.object # none => oObjects'[c.object] = oObjects[c.object]
  BY <1>3, <1>4 DEF Mine, Num
<1>6. c.outer # none /\ c.at # "destroy" => oObjects'[c.outer] = oObjects[c.outer]
  BY <1>3, <1>4 DEF Mine, Num
<1>7. ASSUME HasHandle(c, c.handle), c.handle # -1
      PROVE  /\ ObjectOf(c.handle)' = ObjectOf(c.handle)
             /\ ObjectOf(c.handle) # none =>
                  oObjects'[ObjectOf(c.handle)] = oObjects[ObjectOf(c.handle)]
  <2>1. c.handle \in Slots /\ c.handle \in AllSlots
    BY <1>7, <1>4 DEF AllSlots
  <2>2. /\ ObjectOf(c.handle) \in Hosts /\ oTable.entry[c.handle].refs \in Nat
        /\ oTable.entry[c.handle].refs > oOwned[c.handle] + Num(HasHandle(oCall[a], c.handle))
    <3>1. /\ ObjectOf(c.handle) \in Hosts /\ oOwned[c.handle] \in Nat
          /\ oTable.entry[c.handle].refs \in Nat
          /\ oTable.entry[c.handle].refs >= oOwned[c.handle] + Num(HasHandle(oCall[a], c.handle))
                                             + Num(HasHandle(c, c.handle))
      BY <1>1, <1>7, <2>1, HoldFacts
    <3> QED
      BY <3>1, <1>7, NumType DEF Num
  <2>3. ObjectOf(c.handle)' = ObjectOf(c.handle)
    BY <2>1, <2>2, ConstantFacts
  <2>4. oObjects[ObjectOf(c.handle)].kind # "none"
        /\ oTable.refs[ObjectOf(c.handle)] > Mine(oCall[a], ObjectOf(c.handle))
    BY <2>1, <2>2, RefFacts, MineType
  <2> QED
    BY <2>2, <2>3, <2>4
<1>8. Has(c)'
  BY <1>2, <1>5, <1>6, <1>7, HasStays
<1> QED
  BY <1>2, <1>8

-----------------------------------------------------------------------------
\* A step of one call keeps the invariant, when what it does to its own references is right.
Moved(a) == oCall' \in [Users -> CallRec] /\ SameBut(Users, oCall, oCall', a)
Destroying(c, o) == c.at = "destroy" /\ c.outer = o
KeepsOthers(a) ==
  /\ \A o \in Hosts : oObjects[o].kind # "none" /\ oTable.refs[o] > Mine(oCall[a], o) =>
       oObjects'[o] = oObjects[o]
  /\ \A h \in Slots :
       ObjectOf(h) # none /\ oTable.entry[h].refs > oOwned[h] + Num(HasHandle(oCall[a], h)) =>
         ObjectOf(h)' = ObjectOf(h)
MovesRefs(a, h) ==
  /\ SameBut(AllSlots, oTable.entry, oTable'.entry, h)
  /\ \A o \in Hosts :
       /\ oTable'.refs[o] + Slot(oTable.entry, h, o) + Mine(oCall[a], o)
            = oTable.refs[o] + Slot(oTable'.entry, h, o) + Mine(oCall'[a], o)
       /\ oTable'.refs[o] > 0 => oObjects'[o].kind # "none"
       /\ oTable.refs[o] = 0 /\ oObjects[o].kind # "none" /\ ~Destroying(oCall[a], o) =>
            oTable'.refs[o] = 0 /\ oObjects'[o].kind # "none"
       /\ oTable'.refs[o] = 0 /\ oObjects'[o].kind # "none" =>
            \/ Destroying(oCall'[a], o)
            \/ oTable.refs[o] = 0 /\ oObjects[o].kind # "none" /\ ~Destroying(oCall[a], o)
       /\ Destroying(oCall'[a], o) =>
            oTable.refs[o] > 0 /\ oTable'.refs[o] = 0 /\ oObjects'[o].kind # "none"
  /\ oCall'[a].at = "destroy" => oCall'[a].outer \in Hosts
MovesHandles(a) ==
  \A h \in Slots :
    oTable'.entry[h].refs + oOwned[h] + Num(HasHandle(oCall[a], h))
      = oTable.entry[h].refs + oOwned'[h] + Num(HasHandle(oCall'[a], h))
KeepsPast(a) ==
  /\ \A b \in Bodies : /\ Past(b) => Past(b)'
                       /\ Inserts(oCall'[a], b) =>
                            Past(b)' /\ (Inserts(oCall[a], b) \/ ~Past(b))
  /\ (oCall[a].at \in Opening => Past(oCall[a].body))'
  /\ \A o \in Hosts : (oObjects[o].body # none => Past(oObjects[o].body))'
KeepsNames(a) ==
  \A o \in Hosts :
    /\ oTable'.name[o] # none => oTable.name[o] # none \/ Naming(oCall[a], o)
    /\ oTable'.name[o] # none => oObjects'[o] = oObjects[o]
    /\ Naming(oCall'[a], o) =>
         oTable'.name[o] = none /\ \A x \in Users : x # a => ~Naming(oCall[x], o)
    /\ Inserts(oCall'[a], oObjects'[o].body) /\ oCall'[a].at # "contain"
         /\ oObjects'[o].body # none =>
         oTable'.name[o] = none

LEMMA StepReferred ==
  ASSUME Base, NEW a \in Users, NEW h, Moved(a), MovesRefs(a, h), Sound(oTable)'
  PROVE  Referred' /\ Destroys'
<1>1. /\ SameBut(Users, oCall, oCall', a) /\ SameBut(AllSlots, oTable.entry, oTable'.entry, h)
      /\ \A o \in Hosts : oTable.refs[o] \in Nat /\ oTable'.refs[o] \in Nat
  BY TableParts DEF Base, Sound, Moved, MovesRefs
<1>2. ASSUME NEW o \in Hosts
      PROVE  oTable'.refs[o] = nHandles(oTable'.entry, o) + nObject(oCall', o) + nOuter(oCall', o)
  <2>1. oTable.refs[o] = nHandles(oTable.entry, o) + nObject(oCall, o) + nOuter(oCall, o)
    BY DEF Base, Referred
  <2>2. oTable'.refs[o] + Slot(oTable.entry, h, o) + Mine(oCall[a], o)
          = oTable.refs[o] + Slot(oTable'.entry, h, o) + Mine(oCall'[a], o)
    BY DEF MovesRefs
  <2>3. \A r, s \in Nat :
           /\ r = nHandles(oTable.entry, o) + nObject(oCall, o) + nOuter(oCall, o)
           /\ s + Slot(oTable.entry, h, o) + Mine(oCall[a], o) = r + Slot(oTable'.entry, h, o)
                + Mine(oCall'[a], o)
           => s = nHandles(oTable'.entry, o) + nObject(oCall', o) + nOuter(oCall', o)
    BY <1>1, ReferredMoves
  <2> QED
    BY <1>1, <2>1, <2>2, <2>3
<1>3. \A x \in Users : x # a => oCall'[x] = oCall[x]
  BY <1>1 DEF SameBut
<1>4. ASSUME NEW o \in Hosts, oObjects'[o].kind # "none", oTable'.refs[o] = 0
      PROVE  \E x \in Users : oCall'[x].at = "destroy" /\ oCall'[x].outer = o
  <2>1. CASE Destroying(oCall'[a], o)
    BY <2>1 DEF Destroying
  <2>2. CASE ~Destroying(oCall'[a], o)
    <3>1. oTable.refs[o] = 0 /\ oObjects[o].kind # "none" /\ ~Destroying(oCall[a], o)
      BY <2>2, <1>4 DEF MovesRefs
    <3>2. PICK x \in Users : oCall[x].at = "destroy" /\ oCall[x].outer = o
      BY <3>1 DEF Base, Referred
    <3>3. x # a
      BY <3>1, <3>2 DEF Destroying
    <3> QED
      BY <3>2, <3>3, <1>3
  <2> QED
    BY <2>1, <2>2
<1>5. Referred'
  BY <1>2, <1>4 DEF Referred, MovesRefs
<1>6. ASSUME NEW x \in Users, oCall'[x].at = "destroy"
      PROVE  /\ oTable'.refs[oCall'[x].outer] = 0 /\ oObjects'[oCall'[x].outer].kind # "none"
             /\ oCall'[x].outer \in Hosts
             /\ IF x = a THEN oTable.refs[oCall'[x].outer] > 0
                ELSE oTable.refs[oCall'[x].outer] = 0 /\ oCall'[x] = oCall[x]
  <2>1. CASE x = a
    <3>1. oCall'[a].outer \in Hosts
      BY <2>1, <1>6 DEF MovesRefs
    <3> QED
      BY <2>1, <3>1, <1>6 DEF MovesRefs, Destroying
  <2>2. CASE x # a
    <3> DEFINE o == oCall[x].outer
    <3>1. oCall'[x] = oCall[x] /\ oCall[x].at = "destroy"
      BY <2>2, <1>3, <1>6
    <3>2. o \in Hosts
      BY <3>1 DEF Base, Places, Has, Types, CallRec, Opening, Closing
    <3>3. oTable.refs[o] = 0 /\ oObjects[o].kind # "none" /\ ~Destroying(oCall[a], o)
      BY <3>1, <2>2 DEF Base, Destroys, Destroying
    <3>4. oTable'.refs[o] = 0 /\ oObjects'[o].kind # "none"
      BY <3>2, <3>3 DEF MovesRefs
    <3> QED
      BY <2>2, <3>1, <3>2, <3>3, <3>4
  <2> QED
    BY <2>1, <2>2
<1>7. ASSUME NEW x \in Users, NEW y \in Users, oCall'[x].at = "destroy", oCall'[y].at = "destroy",
             oCall'[x].outer = oCall'[y].outer
      PROVE  x = y
  BY <1>6, <1>7 DEF Base, Destroys
<1>8. Destroys'
  BY <1>6, <1>7 DEF Destroys
<1> QED
  BY <1>5, <1>8

LEMMA StepHandled ==
  ASSUME Base, NEW a \in Users, Moved(a), MovesHandles(a), Sound(oTable)',
           oOwned' \in [Slots -> Nat]
  PROVE  Handled'
<1> SUFFICES ASSUME NEW h \in Slots
    PROVE  oTable'.entry[h].refs = oOwned'[h] + nHolds(oCall', h)
  BY DEF Handled
<1>1. /\ oTable.entry[h].refs \in Nat /\ oTable'.entry[h].refs \in Nat
      /\ oOwned[h] \in Nat /\ oOwned'[h] \in Nat
  BY TableParts DEF Base, Sound, AllSlots, Entries, Types
<1>2. SameBut(Users, oCall, oCall', a)
  BY DEF Moved
<1>3. \A r, s, m, n \in Nat :
           /\ r = m + nHolds(oCall, h)
           /\ s + m + Num(HasHandle(oCall[a], h)) = r + n + Num(HasHandle(oCall'[a], h))
           => s = n + nHolds(oCall', h)
  BY <1>2, HandledMoves
<1>4. oTable.entry[h].refs = oOwned[h] + nHolds(oCall, h)
  BY DEF Base, Handled
<1>5. oTable'.entry[h].refs + oOwned[h] + Num(HasHandle(oCall[a], h))
        = oTable.entry[h].refs + oOwned'[h] + Num(HasHandle(oCall'[a], h))
  BY DEF MovesHandles
<1> QED
  BY <1>1, <1>3, <1>4, <1>5

LEMMA StepPlaces ==
  ASSUME Base, NEW a \in Users, Moved(a), KeepsOthers(a), Has(oCall[a])'
  PROVE  Places'
<1>1. SameBut(Users, oCall, oCall', a)
  BY DEF Moved
<1>2. \A x \in Users : x # a => Has(oCall[x])'
  BY <1>1, OthersStay DEF KeepsOthers
<1> QED
  BY <1>2 DEF Places

LEMMA StepInserted ==
  ASSUME Base, NEW a \in Users, Moved(a), KeepsPast(a)
  PROVE  Inserted'
<1>1. \A x \in Users : x # a => oCall'[x] = oCall[x]
  BY DEF Moved, SameBut
<1>2. \A x \in Users : /\ oCall[x].body \in Bodies \cup {none}
                       /\ oCall'[x].body \in Bodies \cup {none}
                       /\ oCall[x].at \in Opening => oCall[x].body # none
  BY DEF Base, Types, CallRec, Moved, Places, Has
<1>3. \A b \in Bodies : Past(b) => Past(b)'
  BY DEF KeepsPast
<1>4. ASSUME NEW x \in Users, NEW b \in Bodies, Inserts(oCall'[x], b) PROVE Past(b)'
  BY <1>1, <1>3, <1>4 DEF Base, Inserted, KeepsPast
<1>5. ASSUME NEW x \in Users PROVE (oCall[x].at \in Opening => Past(oCall[x].body))'
  <2>1. CASE x = a
    BY <2>1 DEF KeepsPast
  <2>2. CASE x # a
    <3>1. oCall'[x] = oCall[x]
      BY <2>2, <1>1
    <3>2. PICK b : b = oCall[x].body
      OBVIOUS
    <3>3. oCall[x].at \in Opening => b \in Bodies /\ Past(b)
      BY <3>2, <1>2 DEF Base, Inserted
    <3>4. oCall[x].at \in Opening => Past(b)'
      BY <3>3, <1>3
    <3> QED
      BY <3>1, <3>2, <3>4
  <2> QED
    BY <2>1, <2>2
<1>6. ASSUME NEW x \in Users, NEW y \in Users, NEW b \in Bodies,
             Inserts(oCall'[x], b), Inserts(oCall'[y], b)
      PROVE  x = y
  BY <1>1, <1>6 DEF Base, Inserted, KeepsPast
<1>7. \A o \in Hosts : (oObjects[o].body # none => Past(oObjects[o].body))'
  BY DEF KeepsPast
<1> QED
  BY <1>4, <1>5, <1>6, <1>7 DEF Inserted

LEMMA StepNamed ==
  ASSUME Base, NEW a \in Users, Moved(a), KeepsNames(a)
  PROVE  Named'
<1>1. \A x \in Users : x # a => oCall'[x] = oCall[x]
  BY DEF Moved, SameBut
<1>2. ASSUME NEW x \in Users, NEW o \in Hosts, x # a,
             \/ Naming(oCall[x], o)
             \/ Inserts(oCall[x], oObjects'[o].body) /\ oCall[x].at # "contain"
                  /\ oObjects'[o].body # none
      PROVE  oTable'.name[o] = none
  <2> SUFFICES ASSUME oTable'.name[o] # none PROVE FALSE
    OBVIOUS
  <2>1. oObjects'[o] = oObjects[o]
    BY DEF KeepsNames
  <2>2. oTable.name[o] = none
    BY <1>2, <2>1 DEF Base, Named
  <2>3. Naming(oCall[a], o)
    BY <2>2 DEF KeepsNames
  <2>4. ~Naming(oCall[x], o)
    BY <2>3, <1>2 DEF Base, Named
  <2>5. Inserts(oCall[x], oObjects[o].body) /\ oObjects[o].body # none
    BY <2>4, <2>1, <1>2
  <2>6. \/ oCall[a].op = "insert" /\ oCall[a].body = oObjects[o].body
        \/ oObjects[o].kind = "plain"
    BY <2>3 DEF Naming, Base, Places, Has
  <2>7. oObjects[o].kind # "plain" /\ oObjects[o].body \in Bodies
    BY <2>5 DEF Base, ObjectKinds, Types
  <2>8. Inserts(oCall[a], oObjects[o].body)
    BY <2>3, <2>6, <2>7 DEF Inserts, Naming
  <2> QED
    BY <2>5, <2>7, <2>8, <1>2 DEF Base, Inserted
<1>3. ASSUME NEW o \in Hosts,
             \/ Naming(oCall'[a], o)
             \/ Inserts(oCall'[a], oObjects'[o].body) /\ oCall'[a].at # "contain"
                  /\ oObjects'[o].body # none
      PROVE  oTable'.name[o] = none
  BY <1>3 DEF KeepsNames
<1>4. ASSUME NEW x \in Users, NEW y \in Users, NEW o \in Hosts,
             Naming(oCall'[x], o), Naming(oCall'[y], o)
      PROVE  x = y
  BY <1>1, <1>4 DEF Base, Named, KeepsNames
<1> QED
  BY <1>1, <1>2, <1>3, <1>4 DEF Named

LEMMA CallStep ==
  ASSUME Base, NEW a \in Users, NEW h, Types', Sound(oTable)', Within', ObjectKinds', Mapped',
         Moved(a), KeepsOthers(a), Has(oCall[a])', MovesRefs(a, h), MovesHandles(a),
         KeepsPast(a), KeepsNames(a)
  PROVE  Base'
<1>1. Referred' /\ Destroys'
  BY StepReferred
<1>2. oOwned' \in [Slots -> Nat]
  BY DEF Types
<1>3. Handled'
  BY <1>2, StepHandled
<1>4. Places' /\ Inserted' /\ Named'
  BY StepPlaces, StepInserted, StepNamed
<1> QED
  BY <1>1, <1>3, <1>4 DEF Base

\* A step that leaves the table and the objects alone, and the call with what it has of them.
LEMMA QuietStep ==
  ASSUME Base, NEW a \in Users, Types', Within', Mapped', Moved(a), Has(oCall[a])', KeepsPast(a),
         UNCHANGED <<oTable, oObjects, oOwned>>,
         \A o \in Hosts : Mine(oCall'[a], o) = Mine(oCall[a], o),
         \A h \in Slots : HasHandle(oCall'[a], h) <=> HasHandle(oCall[a], h),
         oCall[a].at # "destroy", oCall'[a].at # "destroy",
         \A o \in Hosts : ~Naming(oCall'[a], o),
         \A b \in Bodies : Inserts(oCall'[a], b) /\ oCall'[a].at # "contain" =>
           \/ Inserts(oCall[a], b) /\ oCall[a].at # "contain"
           \/ \A o \in Hosts : oObjects[o].body # b
  PROVE  Base'
<1>1. Sound(oTable)' /\ ObjectKinds'
  BY DEF Base, Sound, Tables, First, ObjectKinds, ObjectOf
<1>2. KeepsOthers(a)
  BY DEF KeepsOthers, ObjectOf
<1>3. MovesRefs(a, 0)
  <2>1. SameBut(AllSlots, oTable.entry, oTable'.entry, 0)
    BY DEF SameBut
  <2>2. \A o \in Hosts : ~Destroying(oCall[a], o) /\ ~Destroying(oCall'[a], o)
    BY DEF Destroying
  <2>3. \A o \in Hosts : oTable'.refs[o] > 0 => oObjects'[o].kind # "none"
    BY DEF Base, Referred
  <2> QED
    BY <2>1, <2>2, <2>3 DEF MovesRefs
<1>4. MovesHandles(a)
  BY DEF MovesHandles, Num
<1>5. KeepsNames(a)
  BY DEF KeepsNames, Base, Named, Types
<1> QED
  BY <1>1, <1>2, <1>3, <1>4, <1>5, CallStep

-----------------------------------------------------------------------------
\* The steps of a call, and the calls of one step, one by one.
LEMMA UserIs ==
  ASSUME Base
  PROVE  /\ oSetting.threads \subseteq Users
         /\ \A a \in Users : oCall[a] \in CallRec /\ Has(oCall[a])
         /\ oSetting \in ObjectSettings
  BY ManagerOK DEF Base, Types, Places, Obj!ManagerAssumption

\* The body of the object of a handle.
LEMMA CountedBodyIs ==
  \A h : Obj!CountedBody(Obj!LookupObject(oTable, h)) = BodyOf(h)
         /\ Obj!LookupObject(oTable, h) = ObjectOf(h)
  BY DEF Obj!CountedBody, Obj!LookupObject, BodyOf, ObjectOf

\* What a call that opens nothing new leaves of the bodies in use.
LEMMA PastStays ==
  ASSUME Base, NEW a \in Users, UNCHANGED oObjects, \A b \in Bodies : Past(b) => Past(b)',
         \A b \in Bodies : Inserts(oCall'[a], b) => Inserts(oCall[a], b),
         oCall'[a].at \in Opening => /\ oCall'[a].body \in Bodies
                                     /\ oHeader[oCall'[a].body].state \notin {"none", "new"}
  PROVE  KeepsPast(a)
<1>1. \A b \in Bodies : Inserts(oCall[a], b) => Past(b)
  BY DEF Base, Inserted
<1>2. \A b \in Bodies : Past(b) => oHeader'[b].state \notin {"none", "new"}
  BY DEF Past
<1>3. \A o \in Hosts : oObjects[o].body # none => oObjects[o].body \in Bodies
        /\ Past(oObjects[o].body)
  BY DEF Base, Inserted, Types
<1> QED
  BY <1>1, <1>2, <1>3 DEF KeepsPast, Past

\* The fields of a call.
LEMMA FieldTypes ==
  ASSUME NEW c \in CallRec
  PROVE  /\ \A x \in Obj!Places : [c EXCEPT !.at = x] \in CallRec
         /\ \A x \in CallOps : [c EXCEPT !.op = x] \in CallRec
         /\ \A x \in Bodies \cup {none} : [c EXCEPT !.body = x] \in CallRec
         /\ \A x \in Slots \cup {-1} : [c EXCEPT !.handle = x] \in CallRec
         /\ \A x \in Hosts \cup {none} : [c EXCEPT !.object = x] \in CallRec
         /\ \A x \in Hosts \cup {none} : [c EXCEPT !.outer = x] \in CallRec
         /\ \A x \in ObjectNames \cup {none} : [c EXCEPT !.name = x] \in CallRec
         /\ \A x \in 0..(MaxHeld + 1) : [c EXCEPT !.bias = x] \in CallRec
         /\ \A x \in 0..2 : [c EXCEPT !.derefs = x] \in CallRec
  BY DEF CallRec

LEMMA IdleType == Obj!Idle \in CallRec
  BY ConstantFacts DEF Obj!Idle, CallRec, CallOps, Obj!Places

LEMMA PlaceTypes ==
  /\ \A x \in {"idle", "find", "create", "register", "add", "count", "attributes", "contain",
               "close", "unlink", "deref", "delete", "recount", "named", "unname", "construct",
               "return", "destroy"} : x \in Obj!Places
  /\ \A x \in {"none", "insert", "open", "deref", "duplicate", "replace", "close",
               "open_named", "create_named"} : x \in CallOps
  /\ 0 \in 0..2 /\ 1 \in 0..2 /\ 2 \in 0..2 /\ \A c : Obj!AfterDeref(c) \in Obj!Places
  /\ 0 \in 0..(MaxHeld + 1) /\ 1 \in 0..(MaxHeld + 1) /\ \A n \in 0..MaxHeld :
       n \in 0..(MaxHeld + 1)
  BY ConstantFacts DEF Obj!Places, CallOps, Obj!AfterDeref

\* What a step makes of its call and of a header.
Fields(d, at, op, body, handle, object, outer, name, bias, derefs) ==
  /\ d.at = at /\ d.op = op /\ d.body = body /\ d.handle = handle /\ d.object = object
  /\ d.outer = outer /\ d.name = name /\ d.bias = bias /\ d.derefs = derefs
Becomes(b, pointers, handles, contained, state) ==
  /\ oHeader' \in Headers /\ SameBut(Bodies, oHeader, oHeader', b)
  /\ oHeader'[b].pointers = pointers /\ oHeader'[b].handles = handles
  /\ (oHeader'[b].contained <=> contained) /\ oHeader'[b].state = state
Calling(a, at) == a \in Users /\ oCall[a] \in CallRec /\ Has(oCall[a]) /\ oCall[a].at = at

HeaderRec == [pointers : Int, handles : Int, contained : BOOLEAN,
              state : {"none", "new", "live", "deleting", "freed"}]

LEMMA BecomesIs ==
  ASSUME Base, NEW b \in Bodies, NEW r \in HeaderRec, oHeader' = [oHeader EXCEPT ![b] = r]
  PROVE  Becomes(b, r.pointers, r.handles, r.contained, r.state)
  BY DEF Becomes, SameBut, Base, Types, Headers, HeaderRec

LEMMA HeaderIs ==
  ASSUME Base, NEW b \in Bodies
  PROVE  oHeader[b] \in HeaderRec /\ oHeader \in Headers
  BY DEF Base, Types, Headers, HeaderRec

LEMMA HeaderTypes ==
  ASSUME NEW h \in HeaderRec
  PROVE  /\ \A x \in Int : [h EXCEPT !.pointers = x] \in HeaderRec
         /\ \A x \in Int : [h EXCEPT !.handles = x] \in HeaderRec
         /\ \A x \in BOOLEAN : [h EXCEPT !.contained = x] \in HeaderRec
         /\ \A x \in {"none", "new", "live", "deleting", "freed"} :
              [h EXCEPT !.state = x] \in HeaderRec
         /\ h.pointers + 1 \in Int /\ h.pointers - 1 \in Int
         /\ h.handles + 1 \in Int /\ h.handles - 1 \in Int
         /\ h.state \in {"none", "new", "live", "deleting", "freed"}
         /\ TRUE \in BOOLEAN
  BY DEF HeaderRec

LEMMA InsertDoes ==
  ASSUME Base, NEW a \in oSetting.threads, NEW b \in Bodies, NEW n \in ObjectNames \cup {none},
         NEW bias \in oSetting.biases, Obj!Insert(a, b, n, bias), UNCHANGED oSetting
  PROVE  /\ Calling(a, "idle") /\ Moved(a)
         /\ Fields(oCall'[a], "find", "insert", b, -1, none, none, n, bias, 0)
         /\ Becomes(b, oHeader[b].pointers, oHeader[b].handles, oHeader[b].contained, "live")
         /\ oHeader[b].state = "new" /\ oHeld[b] = 1 /\ oHeld' = [oHeld EXCEPT ![b] = 0]
              /\ bias \in 0..MaxHeld
         /\ UNCHANGED <<oTable, oObjects, oByBody, oNative, oOwned>>
<1> DEFINE c == oCall[a]
           d == [Obj!Idle EXCEPT !.at = "find", !.op = "insert", !.body = b, !.name = n,
             !.bias = bias]
<1>1. /\ Calling(a, "idle") /\ c \in CallRec /\ Has(c) /\ oCall \in [Users -> CallRec]
      /\ c.at = "idle" /\ a \in Users
  BY UserIs DEF Obj!Insert, Obj!At, Calling, Base, Types
<1>2. bias \in 0..MaxHeld
  BY UserIs, ManagerOK DEF Obj!ManagerAssumption
<1>3. oCall' = [oCall EXCEPT ![a] = d]
  BY <1>1 DEF Obj!Insert, Obj!Goto, Obj!At, CallRec
<1>4. Fields(d, "find", "insert", b, -1, none, none, n, bias, 0)
  BY <1>1 DEF Fields, CallRec, Obj!Idle
<1>5. d \in CallRec
  BY <1>1, <1>2, IdleType, FieldTypes, PlaceTypes, ConstantFacts
<1> HIDE DEF d
<1>6. oCall'[a] = d /\ Moved(a)
  BY <1>1, <1>3, <1>5 DEF Moved, SameBut
<1>7. Becomes(b, oHeader[b].pointers, oHeader[b].handles, oHeader[b].contained, "live")
  <2> DEFINE r == [oHeader[b] EXCEPT !.state = "live"]
  <2>1. oHeader[b] \in HeaderRec /\ oHeader \in Headers
    BY <1>1, <1>2, HeaderIs
  <2>2. r \in HeaderRec
    BY <2>1, HeaderTypes
  <2>3. r.pointers = oHeader[b].pointers /\ r.handles = oHeader[b].handles
        /\ (r.contained <=> oHeader[b].contained) /\ r.state = "live"
    BY <2>1 DEF HeaderRec, Num
  <2>4. oHeader' = [oHeader EXCEPT ![b] = r]
    BY <2>1 DEF Obj!Insert, Obj!At, Headers, HeaderRec
  <2> HIDE DEF r
  <2>5. Becomes(b, r.pointers, r.handles, r.contained, r.state)
    BY <1>1, <1>2, <2>2, <2>4, BecomesIs
  <2> QED
    BY <2>3, <2>5 DEF Becomes
<1>8. /\ oHeader[b].state = "new" /\ oHeld[b] = 1 /\ oHeld' = [oHeld EXCEPT ![b] = 0]
           /\ bias \in 0..MaxHeld
      /\ UNCHANGED <<oTable, oObjects, oByBody, oNative, oOwned>>
  BY <1>1, <1>2 DEF Obj!Insert, Obj!At
<1> QED
  BY <1>1, <1>4, <1>6, <1>7, <1>8

LEMMA OpenByPointerDoes ==
  ASSUME Base, NEW a \in oSetting.threads, NEW b \in Bodies, Obj!OpenByPointer(a, b),
           UNCHANGED oSetting
  PROVE  /\ Calling(a, "idle") /\ Moved(a)
         /\ Fields(oCall'[a], "find", "open", b, -1, none, none, none, 1, 0)
         /\ oHeader[b].state = "live" /\ oHeld[b] > 0
              /\ oHeld' = [oHeld EXCEPT ![b] = oHeld[b] - 1]
         /\ UNCHANGED <<oTable, oObjects, oByBody, oNative, oHeader, oOwned>>
<1> DEFINE c == oCall[a]
           d == [Obj!Idle EXCEPT !.at = "find", !.op = "open", !.body = b, !.bias = 1]
<1>1. /\ Calling(a, "idle") /\ c \in CallRec /\ Has(c) /\ oCall \in [Users -> CallRec]
      /\ c.at = "idle" /\ a \in Users
  BY UserIs DEF Obj!OpenByPointer, Obj!At, Calling, Base, Types
<1>2. oCall' = [oCall EXCEPT ![a] = d]
  BY <1>1 DEF Obj!OpenByPointer, Obj!Goto, Obj!At, CallRec
<1>3. Fields(d, "find", "open", b, -1, none, none, none, 1, 0)
  BY <1>1 DEF Fields, CallRec, Obj!Idle
<1>4. d \in CallRec
  BY <1>1, IdleType, FieldTypes, PlaceTypes, ConstantFacts
<1> HIDE DEF d
<1>5. oCall'[a] = d /\ Moved(a)
  BY <1>1, <1>2, <1>4 DEF Moved, SameBut
<1>6. /\ oHeader[b].state = "live" /\ oHeld[b] > 0 /\ oHeld' = [oHeld EXCEPT ![b] = oHeld[b] - 1]
      /\ UNCHANGED <<oTable, oObjects, oByBody, oNative, oHeader, oOwned>>
  BY <1>1 DEF Obj!OpenByPointer, Obj!At
<1> QED
  BY <1>1, <1>3, <1>5, <1>6

LEMMA DereferenceDoes ==
  ASSUME Base, NEW a \in oSetting.threads, NEW b \in Bodies, Obj!Dereference(a, b),
           UNCHANGED oSetting
  PROVE  /\ Calling(a, "idle") /\ Moved(a)
         /\ Fields(oCall'[a], "deref", "deref", b, -1, none, none, none, 0, 1)
         /\ oHeld[b] > 0 /\ oHeld' = [oHeld EXCEPT ![b] = oHeld[b] - 1]
         /\ UNCHANGED <<oTable, oObjects, oByBody, oNative, oHeader, oOwned>>
<1> DEFINE c == oCall[a]
           d == [Obj!Idle EXCEPT !.at = "deref", !.op = "deref", !.body = b, !.derefs = 1]
<1>1. /\ Calling(a, "idle") /\ c \in CallRec /\ Has(c) /\ oCall \in [Users -> CallRec]
      /\ c.at = "idle" /\ a \in Users
  BY UserIs DEF Obj!Dereference, Obj!At, Calling, Base, Types
<1>2. oCall' = [oCall EXCEPT ![a] = d]
  BY <1>1 DEF Obj!Dereference, Obj!Goto, Obj!At, CallRec
<1>3. Fields(d, "deref", "deref", b, -1, none, none, none, 0, 1)
  BY <1>1 DEF Fields, CallRec, Obj!Idle
<1>4. d \in CallRec
  BY <1>1, IdleType, FieldTypes, PlaceTypes, ConstantFacts
<1> HIDE DEF d
<1>5. oCall'[a] = d /\ Moved(a)
  BY <1>1, <1>2, <1>4 DEF Moved, SameBut
<1>6. /\ oHeld[b] > 0 /\ oHeld' = [oHeld EXCEPT ![b] = oHeld[b] - 1]
      /\ UNCHANGED <<oTable, oObjects, oByBody, oNative, oHeader, oOwned>>
  BY <1>1 DEF Obj!Dereference, Obj!At
<1> QED
  BY <1>1, <1>3, <1>5, <1>6

LEMMA RegisterDoes ==
  ASSUME Base, NEW a \in oSetting.threads, Obj!Register(a), UNCHANGED oSetting
  PROVE  /\ Calling(a, "register") /\ Moved(a)
         /\ Fields(oCall'[a], "count", oCall[a].op, oCall[a].body, oCall[a].handle,
              oCall[a].object, oCall[a].outer, oCall[a].name, oCall[a].bias, oCall[a].derefs)
         /\ oByBody' = [oByBody EXCEPT ![oCall[a].body] = oCall[a].object]
         /\ UNCHANGED <<oTable, oObjects, oNative, oHeader, oOwned, oHeld>>
<1> DEFINE c == oCall[a]
           d == [c EXCEPT !.at = "count"]
<1>1. /\ Calling(a, "register") /\ c \in CallRec /\ Has(c) /\ oCall \in [Users -> CallRec]
      /\ c.at = "register" /\ a \in Users
  BY UserIs DEF Obj!Register, Obj!At, Calling, Base, Types
<1>2. oCall' = [oCall EXCEPT ![a] = d]
  BY <1>1 DEF Obj!Register, Obj!Goto, Obj!At, CallRec
<1>3. Fields(d, "count", c.op, c.body, c.handle, c.object, c.outer, c.name, c.bias, c.derefs)
  BY <1>1 DEF Fields, CallRec
<1>4. d \in CallRec
  BY <1>1, IdleType, FieldTypes, PlaceTypes, ConstantFacts
<1> HIDE DEF d
<1>5. oCall'[a] = d /\ Moved(a)
  BY <1>1, <1>2, <1>4 DEF Moved, SameBut
<1>6. /\ oByBody' = [oByBody EXCEPT ![oCall[a].body] = oCall[a].object]
      /\ UNCHANGED <<oTable, oObjects, oNative, oHeader, oOwned, oHeld>>
  BY <1>1 DEF Obj!Register, Obj!At
<1> QED
  BY <1>1, <1>3, <1>5, <1>6

LEMMA ContainDoes ==
  ASSUME Base, NEW a \in oSetting.threads, Obj!Contain(a), UNCHANGED oSetting
  PROVE  /\ Calling(a, "contain") /\ Moved(a)
         /\ Fields(oCall'[a], "return", oCall[a].op, oCall[a].body, oCall[a].handle,
              oCall[a].object, oCall[a].outer, oCall[a].name, oCall[a].bias, oCall[a].derefs)
         /\ Becomes(oCall[a].body,
                    oHeader[oCall[a].body].pointers
                      + Num(oTable.names[oCall[a].name] = oCall[a].handle),
                    oHeader[oCall[a].body].handles,
                    oTable.names[oCall[a].name] = oCall[a].handle
                      \/ oHeader[oCall[a].body].contained,
                    oHeader[oCall[a].body].state)
         /\ oCall[a].body \in Bodies
         /\ UNCHANGED <<oTable, oObjects, oByBody, oNative, oOwned, oHeld>>
<1> DEFINE c == oCall[a]
           d == [c EXCEPT !.at = "return"]
<1>1. /\ Calling(a, "contain") /\ c \in CallRec /\ Has(c) /\ oCall \in [Users -> CallRec]
      /\ c.at = "contain" /\ a \in Users
  BY UserIs DEF Obj!Contain, Obj!At, Calling, Base, Types
<1>2. c.body \in Bodies
  BY <1>1, ConstantFacts DEF Has, Opening, Closing, CallRec
<1>3. oCall' = [oCall EXCEPT ![a] = d]
  BY <1>1 DEF Obj!Contain, Obj!Goto, Obj!At, CallRec
<1>4. Fields(d, "return", c.op, c.body, c.handle, c.object, c.outer, c.name, c.bias, c.derefs)
  BY <1>1 DEF Fields, CallRec
<1>5. d \in CallRec
  BY <1>1, <1>2, IdleType, FieldTypes, PlaceTypes, ConstantFacts
<1> HIDE DEF d
<1>6. oCall'[a] = d /\ Moved(a)
  BY <1>1, <1>3, <1>5 DEF Moved, SameBut
<1>7. Becomes(oCall[a].body,
                    oHeader[oCall[a].body].pointers
                      + Num(oTable.names[oCall[a].name] = oCall[a].handle),
                    oHeader[oCall[a].body].handles,
                    oTable.names[oCall[a].name] = oCall[a].handle
                      \/ oHeader[oCall[a].body].contained,
                    oHeader[oCall[a].body].state)
  <2> DEFINE r == IF oTable.names[c.name] = c.handle
                THEN [oHeader[c.body] EXCEPT !.pointers = oHeader[c.body].pointers + 1,
                  !.contained = TRUE]
                ELSE oHeader[c.body]
  <2>1. oHeader[c.body] \in HeaderRec /\ oHeader \in Headers
    BY <1>1, <1>2, HeaderIs
  <2>2. r \in HeaderRec
    BY <2>1, HeaderTypes
  <2>3. /\ r.pointers = (oHeader[c.body].pointers + Num(oTable.names[c.name] = c.handle))
             /\ r.handles = oHeader[c.body].handles
        /\ (r.contained <=> (oTable.names[c.name] = c.handle \/ oHeader[c.body].contained))
        /\ r.state = (oHeader[c.body].state)
    BY <2>1 DEF HeaderRec, Num
  <2>4. oHeader' = [oHeader EXCEPT ![c.body] = r]
    BY <2>1 DEF Obj!Contain, Obj!At, Headers, HeaderRec, Obj!Referenced
  <2> HIDE DEF r
  <2>5. Becomes(c.body, r.pointers, r.handles, r.contained, r.state)
    BY <1>1, <1>2, <2>2, <2>4, BecomesIs
  <2> QED
    BY <2>3, <2>5 DEF Becomes
<1>8. /\ oCall[a].body \in Bodies
      /\ UNCHANGED <<oTable, oObjects, oByBody, oNative, oOwned, oHeld>>
  BY <1>1, <1>2 DEF Obj!Contain, Obj!At
<1> QED
  BY <1>1, <1>4, <1>6, <1>7, <1>8

LEMMA CloseHandleDoes ==
  ASSUME Base, NEW a \in oSetting.threads, Obj!CloseHandle(a), UNCHANGED oSetting
  PROVE  /\ Calling(a, "close") /\ Moved(a)
         /\ Fields(oCall'[a], "unlink", oCall[a].op, oCall[a].body, oCall[a].handle,
              oCall[a].object, oCall[a].outer, oCall[a].name, oCall[a].bias, oCall[a].derefs)
         /\ Becomes(oCall[a].body,
                    oHeader[oCall[a].body].pointers,
                    oHeader[oCall[a].body].handles - 1,
                    oHeader[oCall[a].body].contained,
                    oHeader[oCall[a].body].state)
         /\ oCall[a].body \in Bodies
         /\ UNCHANGED <<oTable, oObjects, oByBody, oNative, oOwned, oHeld>>
<1> DEFINE c == oCall[a]
           d == [c EXCEPT !.at = "unlink"]
<1>1. /\ Calling(a, "close") /\ c \in CallRec /\ Has(c) /\ oCall \in [Users -> CallRec]
      /\ c.at = "close" /\ a \in Users
  BY UserIs DEF Obj!CloseHandle, Obj!At, Calling, Base, Types
<1>2. c.body \in Bodies
  BY <1>1, ConstantFacts DEF Has, Opening, Closing, CallRec
<1>3. oCall' = [oCall EXCEPT ![a] = d]
  BY <1>1 DEF Obj!CloseHandle, Obj!Goto, Obj!At, CallRec
<1>4. Fields(d, "unlink", c.op, c.body, c.handle, c.object, c.outer, c.name, c.bias, c.derefs)
  BY <1>1 DEF Fields, CallRec
<1>5. d \in CallRec
  BY <1>1, <1>2, IdleType, FieldTypes, PlaceTypes, ConstantFacts
<1> HIDE DEF d
<1>6. oCall'[a] = d /\ Moved(a)
  BY <1>1, <1>3, <1>5 DEF Moved, SameBut
<1>7. Becomes(oCall[a].body,
                    oHeader[oCall[a].body].pointers,
                    oHeader[oCall[a].body].handles - 1,
                    oHeader[oCall[a].body].contained,
                    oHeader[oCall[a].body].state)
  <2> DEFINE r == [oHeader[c.body] EXCEPT !.handles = oHeader[c.body].handles - 1]
  <2>1. oHeader[c.body] \in HeaderRec /\ oHeader \in Headers
    BY <1>1, <1>2, HeaderIs
  <2>2. r \in HeaderRec
    BY <2>1, HeaderTypes
  <2>3. /\ r.pointers = (oHeader[c.body].pointers) /\ r.handles = oHeader[c.body].handles - 1
        /\ (r.contained <=> (oHeader[c.body].contained))
        /\ r.state = (oHeader[c.body].state)
    BY <2>1 DEF HeaderRec, Num
  <2>4. oHeader' = [oHeader EXCEPT ![c.body] = r]
    BY <2>1 DEF Obj!CloseHandle, Obj!At, Headers, HeaderRec
  <2> HIDE DEF r
  <2>5. Becomes(c.body, r.pointers, r.handles, r.contained, r.state)
    BY <1>1, <1>2, <2>2, <2>4, BecomesIs
  <2> QED
    BY <2>3, <2>5 DEF Becomes
<1>8. /\ oCall[a].body \in Bodies
      /\ UNCHANGED <<oTable, oObjects, oByBody, oNative, oOwned, oHeld>>
  BY <1>1, <1>2 DEF Obj!CloseHandle, Obj!At
<1> QED
  BY <1>1, <1>4, <1>6, <1>7, <1>8

LEMMA UnlinkFromDirectoryDoes ==
  ASSUME Base, NEW a \in oSetting.threads, Obj!UnlinkFromDirectory(a), UNCHANGED oSetting
  PROVE  /\ Calling(a, "unlink") /\ Moved(a)
         /\ Fields(oCall'[a], "deref", oCall[a].op, oCall[a].body, oCall[a].handle,
              oCall[a].object, oCall[a].outer, oCall[a].name, oCall[a].bias,
                   IF oHeader[oCall[a].body].handles = 0 /\ oHeader[oCall[a].body].contained
                   THEN 2 ELSE 1)
         /\ Becomes(oCall[a].body,
                    oHeader[oCall[a].body].pointers,
                    oHeader[oCall[a].body].handles,
                    oHeader[oCall[a].body].contained /\ oHeader[oCall[a].body].handles # 0,
                    oHeader[oCall[a].body].state)
         /\ oCall[a].body \in Bodies
         /\ UNCHANGED <<oTable, oObjects, oByBody, oNative, oOwned, oHeld>>
<1> DEFINE c == oCall[a]
           d == [c EXCEPT !.at = "deref",
                         !.derefs = IF oHeader[c.body].handles = 0 /\ oHeader[c.body].contained
                                    THEN 2 ELSE 1]
<1>1. /\ Calling(a, "unlink") /\ c \in CallRec /\ Has(c) /\ oCall \in [Users -> CallRec]
      /\ c.at = "unlink" /\ a \in Users
  BY UserIs DEF Obj!UnlinkFromDirectory, Obj!At, Calling, Base, Types
<1>2. c.body \in Bodies
  BY <1>1, ConstantFacts DEF Has, Opening, Closing, CallRec
<1>3. oCall' = [oCall EXCEPT ![a] = d]
  BY <1>1 DEF Obj!UnlinkFromDirectory, Obj!Goto, Obj!At, CallRec
<1>4. Fields(d, "deref", c.op, c.body, c.handle, c.object, c.outer, c.name, c.bias,
                   IF oHeader[c.body].handles = 0 /\ oHeader[c.body].contained
                   THEN 2 ELSE 1)
  BY <1>1 DEF Fields, CallRec
<1>5. (IF oHeader[c.body].handles = 0 /\ oHeader[c.body].contained THEN 2 ELSE 1) \in 0..2
  BY PlaceTypes
<1>6. d \in CallRec
  BY <1>1, <1>2, <1>5, IdleType, FieldTypes, PlaceTypes, ConstantFacts
<1> HIDE DEF d
<1>7. oCall'[a] = d /\ Moved(a)
  BY <1>1, <1>3, <1>6 DEF Moved, SameBut
<1>8. Becomes(oCall[a].body,
                    oHeader[oCall[a].body].pointers,
                    oHeader[oCall[a].body].handles,
                    oHeader[oCall[a].body].contained /\ oHeader[oCall[a].body].handles # 0,
                    oHeader[oCall[a].body].state)
  <2> DEFINE r == IF oHeader[c.body].handles = 0 /\ oHeader[c.body].contained
                THEN [oHeader[c.body] EXCEPT !.contained = FALSE] ELSE oHeader[c.body]
  <2>1. oHeader[c.body] \in HeaderRec /\ oHeader \in Headers
    BY <1>1, <1>2, <1>5, HeaderIs
  <2>2. r \in HeaderRec
    BY <2>1, HeaderTypes
  <2>3. /\ r.pointers = (oHeader[c.body].pointers) /\ r.handles = oHeader[c.body].handles
        /\ (r.contained <=> (oHeader[c.body].contained /\ oHeader[c.body].handles # 0))
        /\ r.state = (oHeader[c.body].state)
    BY <2>1 DEF HeaderRec, Num
  <2>4. oHeader' = [oHeader EXCEPT ![c.body] = r]
    BY <2>1 DEF Obj!UnlinkFromDirectory, Obj!At, Headers, HeaderRec
  <2> HIDE DEF r
  <2>5. Becomes(c.body, r.pointers, r.handles, r.contained, r.state)
    BY <1>1, <1>2, <1>5, <2>2, <2>4, BecomesIs
  <2> QED
    BY <2>3, <2>5 DEF Becomes
<1>9. /\ oCall[a].body \in Bodies
      /\ UNCHANGED <<oTable, oObjects, oByBody, oNative, oOwned, oHeld>>
  BY <1>1, <1>2, <1>5 DEF Obj!UnlinkFromDirectory, Obj!At
<1> QED
  BY <1>1, <1>4, <1>7, <1>8, <1>9

LEMMA DereferenceCountedDoes ==
  ASSUME Base, NEW a \in oSetting.threads, Obj!DereferenceCounted(a), UNCHANGED oSetting
  PROVE  /\ Calling(a, "deref") /\ Moved(a)
         /\ Fields(oCall'[a],
                   IF oHeader[oCall[a].body].pointers = 1 THEN "delete"
                     ELSE Obj!AfterDeref(oCall[a]), oCall[a].op, oCall[a].body, oCall[a].handle,
                     oCall[a].object, oCall[a].outer, oCall[a].name, oCall[a].bias,
                     oCall[a].derefs - 1)
         /\ Becomes(oCall[a].body,
                    oHeader[oCall[a].body].pointers - 1,
                    oHeader[oCall[a].body].handles,
                    oHeader[oCall[a].body].contained,
                    IF oHeader[oCall[a].body].pointers = 1 THEN "deleting"
                      ELSE oHeader[oCall[a].body].state)
         /\ oCall[a].body \in Bodies /\ oCall[a].derefs \in 1..2
         /\ UNCHANGED <<oTable, oObjects, oByBody, oNative, oOwned, oHeld>>
<1> DEFINE c == oCall[a]
           d == [c EXCEPT !.at = IF oHeader[c.body].pointers = 1 THEN "delete"
             ELSE Obj!AfterDeref(c),
                         !.derefs = c.derefs - 1]
<1>1. /\ Calling(a, "deref") /\ c \in CallRec /\ Has(c) /\ oCall \in [Users -> CallRec]
      /\ c.at = "deref" /\ a \in Users
  BY UserIs DEF Obj!DereferenceCounted, Obj!At, Calling, Base, Types
<1>2. c.body \in Bodies /\ c.derefs \in 1..2 /\ c.derefs - 1 \in 0..2
  BY <1>1, ConstantFacts DEF Has, Opening, Closing, CallRec
<1>3. oCall' = [oCall EXCEPT ![a] = d]
  BY <1>1 DEF Obj!DereferenceCounted, Obj!Goto, Obj!At, CallRec
<1>4. Fields(d,
                   IF oHeader[c.body].pointers = 1 THEN "delete" ELSE Obj!AfterDeref(c), c.op,
                     c.body, c.handle, c.object, c.outer, c.name, c.bias, c.derefs - 1)
  BY <1>1 DEF Fields, CallRec
<1>5. (IF oHeader[c.body].pointers = 1 THEN "delete" ELSE Obj!AfterDeref(c)) \in Obj!Places
  BY PlaceTypes
<1>6. d \in CallRec
  BY <1>1, <1>2, <1>5, IdleType, FieldTypes, PlaceTypes, ConstantFacts
<1> HIDE DEF d
<1>7. oCall'[a] = d /\ Moved(a)
  BY <1>1, <1>3, <1>6 DEF Moved, SameBut
<1>8. Becomes(oCall[a].body,
                    oHeader[oCall[a].body].pointers - 1,
                    oHeader[oCall[a].body].handles,
                    oHeader[oCall[a].body].contained,
                    IF oHeader[oCall[a].body].pointers = 1 THEN "deleting"
                      ELSE oHeader[oCall[a].body].state)
  <2> DEFINE r == [oHeader[c.body] EXCEPT !.pointers = oHeader[c.body].pointers - 1,
                                       !.state = IF oHeader[c.body].pointers = 1 THEN "deleting"
                                                 ELSE oHeader[c.body].state]
  <2>1. oHeader[c.body] \in HeaderRec /\ oHeader \in Headers
    BY <1>1, <1>2, <1>5, HeaderIs
  <2>2. r \in HeaderRec
    BY <2>1, HeaderTypes
  <2>3. /\ r.pointers = (oHeader[c.body].pointers - 1) /\ r.handles = oHeader[c.body].handles
        /\ (r.contained <=> (oHeader[c.body].contained))
        /\ r.state = (IF oHeader[c.body].pointers = 1 THEN "deleting" ELSE oHeader[c.body].state)
    BY <2>1 DEF HeaderRec, Num
  <2>4. oHeader' = [oHeader EXCEPT ![c.body] = r]
    BY <2>1 DEF Obj!DereferenceCounted, Obj!At, Headers, HeaderRec
  <2> HIDE DEF r
  <2>5. Becomes(c.body, r.pointers, r.handles, r.contained, r.state)
    BY <1>1, <1>2, <1>5, <2>2, <2>4, BecomesIs
  <2> QED
    BY <2>3, <2>5 DEF Becomes
<1>9. /\ oCall[a].body \in Bodies /\ oCall[a].derefs \in 1..2
      /\ UNCHANGED <<oTable, oObjects, oByBody, oNative, oOwned, oHeld>>
  BY <1>1, <1>2, <1>5 DEF Obj!DereferenceCounted, Obj!At
<1> QED
  BY <1>1, <1>4, <1>7, <1>8, <1>9

LEMMA DeleteBodyDoes ==
  ASSUME Base, NEW a \in oSetting.threads, Obj!DeleteBody(a), UNCHANGED oSetting
  PROVE  /\ Calling(a, "delete") /\ Moved(a)
         /\ Fields(oCall'[a],
                   Obj!AfterDeref([oCall[a] EXCEPT !.derefs = oCall[a].derefs + 1]), oCall[a].op,
                     oCall[a].body, oCall[a].handle, oCall[a].object, oCall[a].outer,
                     oCall[a].name, oCall[a].bias, oCall[a].derefs)
         /\ Becomes(oCall[a].body,
                    oHeader[oCall[a].body].pointers,
                    oHeader[oCall[a].body].handles,
                    oHeader[oCall[a].body].contained,
                    "freed")
         /\ oCall[a].body \in Bodies
         /\ UNCHANGED <<oTable, oObjects, oByBody, oNative, oOwned, oHeld>>
<1> DEFINE c == oCall[a]
           d == [c EXCEPT !.at = Obj!AfterDeref([c EXCEPT !.derefs = c.derefs + 1])]
<1>1. /\ Calling(a, "delete") /\ c \in CallRec /\ Has(c) /\ oCall \in [Users -> CallRec]
      /\ c.at = "delete" /\ a \in Users
  BY UserIs DEF Obj!DeleteBody, Obj!At, Calling, Base, Types
<1>2. c.body \in Bodies
  BY <1>1, ConstantFacts DEF Has, Opening, Closing, CallRec
<1>3. oCall' = [oCall EXCEPT ![a] = d]
  BY <1>1 DEF Obj!DeleteBody, Obj!Goto, Obj!At, CallRec
<1>4. Fields(d,
                   Obj!AfterDeref([c EXCEPT !.derefs = c.derefs + 1]), c.op, c.body, c.handle,
                     c.object, c.outer, c.name, c.bias, c.derefs)
  BY <1>1 DEF Fields, CallRec
<1>5. d \in CallRec
  BY <1>1, <1>2, IdleType, FieldTypes, PlaceTypes, ConstantFacts
<1> HIDE DEF d
<1>6. oCall'[a] = d /\ Moved(a)
  BY <1>1, <1>3, <1>5 DEF Moved, SameBut
<1>7. Becomes(oCall[a].body,
                    oHeader[oCall[a].body].pointers,
                    oHeader[oCall[a].body].handles,
                    oHeader[oCall[a].body].contained,
                    "freed")
  <2> DEFINE r == [oHeader[c.body] EXCEPT !.state = "freed"]
  <2>1. oHeader[c.body] \in HeaderRec /\ oHeader \in Headers
    BY <1>1, <1>2, HeaderIs
  <2>2. r \in HeaderRec
    BY <2>1, HeaderTypes
  <2>3. /\ r.pointers = (oHeader[c.body].pointers) /\ r.handles = oHeader[c.body].handles
        /\ (r.contained <=> (oHeader[c.body].contained))
        /\ r.state = ("freed")
    BY <2>1 DEF HeaderRec, Num
  <2>4. oHeader' = [oHeader EXCEPT ![c.body] = r]
    BY <2>1 DEF Obj!DeleteBody, Obj!At, Headers, HeaderRec
  <2> HIDE DEF r
  <2>5. Becomes(c.body, r.pointers, r.handles, r.contained, r.state)
    BY <1>1, <1>2, <2>2, <2>4, BecomesIs
  <2> QED
    BY <2>3, <2>5 DEF Becomes
<1>8. /\ oCall[a].body \in Bodies
      /\ UNCHANGED <<oTable, oObjects, oByBody, oNative, oOwned, oHeld>>
  BY <1>1, <1>2 DEF Obj!DeleteBody, Obj!At
<1> QED
  BY <1>1, <1>4, <1>6, <1>7, <1>8

LEMMA RecountDoes ==
  ASSUME Base, NEW a \in oSetting.threads, Obj!Recount(a), UNCHANGED oSetting
  PROVE  /\ Calling(a, "recount") /\ Moved(a)
         /\ Fields(oCall'[a], "deref", "duplicate", oCall[a].body, oCall[a].handle,
              oCall[a].object, oCall[a].outer, oCall[a].name, oCall[a].bias, 1)
         /\ Becomes(oCall[a].body,
                    oHeader[oCall[a].body].pointers + 1,
                    oHeader[oCall[a].body].handles + 1,
                    oHeader[oCall[a].body].contained,
                    oHeader[oCall[a].body].state)
         /\ oCall[a].body \in Bodies
         /\ UNCHANGED <<oTable, oObjects, oByBody, oNative, oOwned, oHeld>>
<1> DEFINE c == oCall[a]
           d == [c EXCEPT !.op = "duplicate", !.at = "deref", !.derefs = 1]
<1>1. /\ Calling(a, "recount") /\ c \in CallRec /\ Has(c) /\ oCall \in [Users -> CallRec]
      /\ c.at = "recount" /\ a \in Users
  BY UserIs DEF Obj!Recount, Obj!At, Calling, Base, Types
<1>2. c.body \in Bodies
  BY <1>1, ConstantFacts DEF Has, Opening, Closing, CallRec
<1>3. oCall' = [oCall EXCEPT ![a] = d]
  BY <1>1 DEF Obj!Recount, Obj!Goto, Obj!At, CallRec
<1>4. Fields(d, "deref", "duplicate", c.body, c.handle, c.object, c.outer, c.name, c.bias, 1)
  BY <1>1 DEF Fields, CallRec
<1>5. d \in CallRec
  BY <1>1, <1>2, IdleType, FieldTypes, PlaceTypes, ConstantFacts
<1> HIDE DEF d
<1>6. oCall'[a] = d /\ Moved(a)
  BY <1>1, <1>3, <1>5 DEF Moved, SameBut
<1>7. Becomes(oCall[a].body,
                    oHeader[oCall[a].body].pointers + 1,
                    oHeader[oCall[a].body].handles + 1,
                    oHeader[oCall[a].body].contained,
                    oHeader[oCall[a].body].state)
  <2> DEFINE r == [oHeader[c.body] EXCEPT !.pointers = oHeader[c.body].pointers + 1,
                                       !.handles = oHeader[c.body].handles + 1]
  <2>1. oHeader[c.body] \in HeaderRec /\ oHeader \in Headers
    BY <1>1, <1>2, HeaderIs
  <2>2. r \in HeaderRec
    BY <2>1, HeaderTypes
  <2>3. /\ r.pointers = (oHeader[c.body].pointers + 1) /\ r.handles = oHeader[c.body].handles + 1
        /\ (r.contained <=> (oHeader[c.body].contained))
        /\ r.state = (oHeader[c.body].state)
    BY <2>1 DEF HeaderRec, Num
  <2>4. oHeader' = [oHeader EXCEPT ![c.body] = r]
    BY <2>1 DEF Obj!Recount, Obj!At, Headers, HeaderRec, Obj!Opened
  <2> HIDE DEF r
  <2>5. Becomes(c.body, r.pointers, r.handles, r.contained, r.state)
    BY <1>1, <1>2, <2>2, <2>4, BecomesIs
  <2> QED
    BY <2>3, <2>5 DEF Becomes
<1>8. /\ oCall[a].body \in Bodies
      /\ UNCHANGED <<oTable, oObjects, oByBody, oNative, oOwned, oHeld>>
  BY <1>1, <1>2 DEF Obj!Recount, Obj!At
<1> QED
  BY <1>1, <1>4, <1>6, <1>7, <1>8

LEMMA OpenByPointerKeeps ==
  ASSUME Base, NEW a \in oSetting.threads, NEW b \in Bodies, Obj!OpenByPointer(a, b),
           UNCHANGED oSetting
  PROVE  Base'
<1>1. /\ Calling(a, "idle") /\ Moved(a)
      /\ Fields(oCall'[a], "find", "open", b, -1, none, none, none, 1, 0)
      /\ oHeader[b].state = "live" /\ oHeld[b] > 0 /\ oHeld' = [oHeld EXCEPT ![b] = oHeld[b] - 1]
      /\ UNCHANGED <<oTable, oObjects, oByBody, oNative, oHeader, oOwned>>
  BY OpenByPointerDoes
<1>2. a \in Users /\ oCall[a] \in CallRec /\ Has(oCall[a]) /\ oSetting.threads \subseteq Users
  BY <1>1, UserIs DEF Calling
<1>3. Types'
  BY <1>1, <1>2 DEF Base, Types, Moved, CallRec
<1>4. Within'
  BY <1>1, <1>2, ConstantFacts DEF Base, Within, Moved, SameBut, Fields, Calling, ByName, Types
<1>5. Has(oCall[a])'
  BY <1>1, <1>2, ConstantFacts DEF Has, Opening, Closing, ByName, Fields, Calling, ObjectOf
<1>11. Mapped'
  BY <1>1, <1>2 DEF Base, Mapped, Types, Has, Calling, CallRec
<1>6. KeepsPast(a)
  <2>1. \A x \in Bodies : Past(x) => Past(x)'
    BY <1>1, <1>2 DEF Past
  <2>2. \A x \in Bodies : Inserts(oCall'[a], x) => Inserts(oCall[a], x)
    BY <1>1, <1>2 DEF Inserts, Fields, Calling, Opening, Has
  <2>3. oCall'[a].at \in Opening => /\ oCall'[a].body \in Bodies
                                    /\ oHeader[oCall'[a].body].state \notin {"none", "new"}
    BY <1>1, <1>2 DEF Fields, Opening, Calling, CallRec, Has, Base, Inserted, Past
  <2> QED
    BY <1>1, <1>2, <2>1, <2>2, <2>3, PastStays
<1>7. /\ \A o \in Hosts : Mine(oCall'[a], o) = Mine(oCall[a], o)
      /\ \A h \in Slots : HasHandle(oCall'[a], h) <=> HasHandle(oCall[a], h)
      /\ oCall[a].at # "destroy" /\ oCall'[a].at # "destroy"
      /\ \A o \in Hosts : ~Naming(oCall'[a], o)
  BY <1>1, <1>2, ConstantFacts DEF Mine, HasHandle, Naming, Fields, Calling, Has, Num, Obj!Idle
<1>8. \A x \in Bodies : Inserts(oCall'[a], x) /\ oCall'[a].at # "contain" =>
        \/ Inserts(oCall[a], x) /\ oCall[a].at # "contain"
        \/ \A o \in Hosts : oObjects[o].body # x
  BY <1>1, <1>2 DEF Inserts, Fields, Calling, Opening, Closing, Has
<1> QED
  BY <1>1, <1>2, <1>3, <1>4, <1>5, <1>6, <1>7, <1>8, <1>11, QuietStep

LEMMA DereferenceKeeps ==
  ASSUME Base, NEW a \in oSetting.threads, NEW b \in Bodies, Obj!Dereference(a, b),
           UNCHANGED oSetting
  PROVE  Base'
<1>1. /\ Calling(a, "idle") /\ Moved(a)
      /\ Fields(oCall'[a], "deref", "deref", b, -1, none, none, none, 0, 1)
      /\ oHeld[b] > 0 /\ oHeld' = [oHeld EXCEPT ![b] = oHeld[b] - 1]
      /\ UNCHANGED <<oTable, oObjects, oByBody, oNative, oHeader, oOwned>>
  BY DereferenceDoes
<1>2. a \in Users /\ oCall[a] \in CallRec /\ Has(oCall[a]) /\ oSetting.threads \subseteq Users
  BY <1>1, UserIs DEF Calling
<1>3. Types'
  BY <1>1, <1>2 DEF Base, Types, Moved, CallRec
<1>4. Within'
  BY <1>1, <1>2, ConstantFacts DEF Base, Within, Moved, SameBut, Fields, Calling, ByName, Types
<1>5. Has(oCall[a])'
  BY <1>1, <1>2, ConstantFacts DEF Has, Opening, Closing, ByName, Fields, Calling, ObjectOf
<1>11. Mapped'
  BY <1>1, <1>2 DEF Base, Mapped, Types, Has, Calling, CallRec
<1>6. KeepsPast(a)
  <2>1. \A x \in Bodies : Past(x) => Past(x)'
    BY <1>1, <1>2 DEF Past
  <2>2. \A x \in Bodies : Inserts(oCall'[a], x) => Inserts(oCall[a], x)
    BY <1>1, <1>2 DEF Inserts, Fields, Calling, Opening, Has
  <2>3. oCall'[a].at \in Opening => /\ oCall'[a].body \in Bodies
                                    /\ oHeader[oCall'[a].body].state \notin {"none", "new"}
    BY <1>1, <1>2 DEF Fields, Opening, Calling, CallRec, Has, Base, Inserted, Past
  <2> QED
    BY <1>1, <1>2, <2>1, <2>2, <2>3, PastStays
<1>7. /\ \A o \in Hosts : Mine(oCall'[a], o) = Mine(oCall[a], o)
      /\ \A h \in Slots : HasHandle(oCall'[a], h) <=> HasHandle(oCall[a], h)
      /\ oCall[a].at # "destroy" /\ oCall'[a].at # "destroy"
      /\ \A o \in Hosts : ~Naming(oCall'[a], o)
  BY <1>1, <1>2, ConstantFacts DEF Mine, HasHandle, Naming, Fields, Calling, Has, Num, Obj!Idle
<1>8. \A x \in Bodies : Inserts(oCall'[a], x) /\ oCall'[a].at # "contain" =>
        \/ Inserts(oCall[a], x) /\ oCall[a].at # "contain"
        \/ \A o \in Hosts : oObjects[o].body # x
  BY <1>1, <1>2 DEF Inserts, Fields, Calling, Opening, Closing, Has
<1> QED
  BY <1>1, <1>2, <1>3, <1>4, <1>5, <1>6, <1>7, <1>8, <1>11, QuietStep

LEMMA RegisterKeeps ==
  ASSUME Base, NEW a \in oSetting.threads, Obj!Register(a), UNCHANGED oSetting
  PROVE  Base'
<1>1. /\ Calling(a, "register") /\ Moved(a)
      /\ Fields(oCall'[a], "count", oCall[a].op, oCall[a].body, oCall[a].handle, oCall[a].object,
           oCall[a].outer, oCall[a].name, oCall[a].bias, oCall[a].derefs)
      /\ oByBody' = [oByBody EXCEPT ![oCall[a].body] = oCall[a].object]
      /\ UNCHANGED <<oTable, oObjects, oNative, oHeader, oOwned, oHeld>>
  BY RegisterDoes
<1>2. a \in Users /\ oCall[a] \in CallRec /\ Has(oCall[a]) /\ oSetting.threads \subseteq Users
  BY <1>1, UserIs DEF Calling
<1>3. Types'
  BY <1>1, <1>2 DEF Base, Types, Moved, CallRec
<1>4. Within'
  BY <1>1, <1>2, ConstantFacts DEF Base, Within, Moved, SameBut, Fields, Calling, ByName, Types
<1>5. Has(oCall[a])'
  BY <1>1, <1>2, ConstantFacts DEF Has, Opening, Closing, ByName, Fields, Calling, ObjectOf
<1>11. Mapped'
  BY <1>1, <1>2 DEF Base, Mapped, Types, Has, Calling, CallRec
<1>6. KeepsPast(a)
  <2>1. \A x \in Bodies : Past(x) => Past(x)'
    BY <1>1, <1>2 DEF Past
  <2>2. \A x \in Bodies : Inserts(oCall'[a], x) => Inserts(oCall[a], x)
    BY <1>1, <1>2 DEF Inserts, Fields, Calling, Opening, Has
  <2>3. oCall'[a].at \in Opening => /\ oCall'[a].body \in Bodies
                                    /\ oHeader[oCall'[a].body].state \notin {"none", "new"}
    BY <1>1, <1>2 DEF Fields, Opening, Calling, CallRec, Has, Base, Inserted, Past
  <2> QED
    BY <1>1, <1>2, <2>1, <2>2, <2>3, PastStays
<1>7. /\ \A o \in Hosts : Mine(oCall'[a], o) = Mine(oCall[a], o)
      /\ \A h \in Slots : HasHandle(oCall'[a], h) <=> HasHandle(oCall[a], h)
      /\ oCall[a].at # "destroy" /\ oCall'[a].at # "destroy"
      /\ \A o \in Hosts : ~Naming(oCall'[a], o)
  BY <1>1, <1>2, ConstantFacts DEF Mine, HasHandle, Naming, Fields, Calling, Has, Num, Obj!Idle
<1>8. \A x \in Bodies : Inserts(oCall'[a], x) /\ oCall'[a].at # "contain" =>
        \/ Inserts(oCall[a], x) /\ oCall[a].at # "contain"
        \/ \A o \in Hosts : oObjects[o].body # x
  BY <1>1, <1>2 DEF Inserts, Fields, Calling, Opening, Closing, Has
<1> QED
  BY <1>1, <1>2, <1>3, <1>4, <1>5, <1>6, <1>7, <1>8, <1>11, QuietStep

LEMMA ContainKeeps ==
  ASSUME Base, NEW a \in oSetting.threads, Obj!Contain(a), UNCHANGED oSetting
  PROVE  Base'
<1>1. /\ Calling(a, "contain") /\ Moved(a)
      /\ Fields(oCall'[a], "return", oCall[a].op, oCall[a].body, oCall[a].handle, oCall[a].object,
           oCall[a].outer, oCall[a].name, oCall[a].bias, oCall[a].derefs)
      /\ Becomes(oCall[a].body,
                 oHeader[oCall[a].body].pointers
                   + Num(oTable.names[oCall[a].name] = oCall[a].handle),
                 oHeader[oCall[a].body].handles,
                 oTable.names[oCall[a].name] = oCall[a].handle
                   \/ oHeader[oCall[a].body].contained,
                 oHeader[oCall[a].body].state)
      /\ oCall[a].body \in Bodies
      /\ UNCHANGED <<oTable, oObjects, oByBody, oNative, oOwned, oHeld>>
  BY ContainDoes
<1>2. a \in Users /\ oCall[a] \in CallRec /\ Has(oCall[a]) /\ oSetting.threads \subseteq Users
  BY <1>1, UserIs DEF Calling
<1>3. Types'
  BY <1>1, <1>2 DEF Base, Types, Moved, CallRec, Becomes
<1>4. Within'
  BY <1>1, <1>2, ConstantFacts DEF Base, Within, Moved, SameBut, Fields, Calling, ByName, Types,
     Becomes
<1>5. Has(oCall[a])'
  BY <1>1, <1>2, ConstantFacts DEF Has, Opening, Closing, ByName, Fields, Calling, ObjectOf
<1>11. Mapped'
  BY <1>1, <1>2 DEF Base, Mapped, Types, Has, Calling, CallRec
<1>6. KeepsPast(a)
  <2>1. \A x \in Bodies : Past(x) => Past(x)'
    BY <1>1, <1>2 DEF Past, Becomes, SameBut
  <2>2. \A x \in Bodies : Inserts(oCall'[a], x) => Inserts(oCall[a], x)
    BY <1>1, <1>2 DEF Inserts, Fields, Calling, Opening, Has
  <2>3. oCall'[a].at \in Opening => /\ oCall'[a].body \in Bodies
                                    /\ oHeader[oCall'[a].body].state \notin {"none", "new"}
    BY <1>1, <1>2 DEF Fields, Opening, Calling, CallRec, Has, Base, Inserted, Past
  <2> QED
    BY <1>1, <1>2, <2>1, <2>2, <2>3, PastStays
<1>7. /\ \A o \in Hosts : Mine(oCall'[a], o) = Mine(oCall[a], o)
      /\ \A h \in Slots : HasHandle(oCall'[a], h) <=> HasHandle(oCall[a], h)
      /\ oCall[a].at # "destroy" /\ oCall'[a].at # "destroy"
      /\ \A o \in Hosts : ~Naming(oCall'[a], o)
  BY <1>1, <1>2, ConstantFacts DEF Mine, HasHandle, Naming, Fields, Calling, Has, Num, Obj!Idle
<1>8. \A x \in Bodies : Inserts(oCall'[a], x) /\ oCall'[a].at # "contain" =>
        \/ Inserts(oCall[a], x) /\ oCall[a].at # "contain"
        \/ \A o \in Hosts : oObjects[o].body # x
  BY <1>1, <1>2 DEF Inserts, Fields, Calling, Opening, Closing, Has
<1> QED
  BY <1>1, <1>2, <1>3, <1>4, <1>5, <1>6, <1>7, <1>8, <1>11, QuietStep

LEMMA CloseHandleKeeps ==
  ASSUME Base, NEW a \in oSetting.threads, Obj!CloseHandle(a), UNCHANGED oSetting
  PROVE  Base'
<1>1. /\ Calling(a, "close") /\ Moved(a)
      /\ Fields(oCall'[a], "unlink", oCall[a].op, oCall[a].body, oCall[a].handle, oCall[a].object,
           oCall[a].outer, oCall[a].name, oCall[a].bias, oCall[a].derefs)
      /\ Becomes(oCall[a].body,
                 oHeader[oCall[a].body].pointers,
                 oHeader[oCall[a].body].handles - 1,
                 oHeader[oCall[a].body].contained,
                 oHeader[oCall[a].body].state)
      /\ oCall[a].body \in Bodies
      /\ UNCHANGED <<oTable, oObjects, oByBody, oNative, oOwned, oHeld>>
  BY CloseHandleDoes
<1>2. a \in Users /\ oCall[a] \in CallRec /\ Has(oCall[a]) /\ oSetting.threads \subseteq Users
  BY <1>1, UserIs DEF Calling
<1>3. Types'
  BY <1>1, <1>2 DEF Base, Types, Moved, CallRec, Becomes
<1>4. Within'
  BY <1>1, <1>2, ConstantFacts DEF Base, Within, Moved, SameBut, Fields, Calling, ByName, Types,
     Becomes
<1>5. Has(oCall[a])'
  BY <1>1, <1>2, ConstantFacts DEF Has, Opening, Closing, ByName, Fields, Calling, ObjectOf
<1>11. Mapped'
  BY <1>1, <1>2 DEF Base, Mapped, Types, Has, Calling, CallRec
<1>6. KeepsPast(a)
  <2>1. \A x \in Bodies : Past(x) => Past(x)'
    BY <1>1, <1>2 DEF Past, Becomes, SameBut
  <2>2. \A x \in Bodies : Inserts(oCall'[a], x) => Inserts(oCall[a], x)
    BY <1>1, <1>2 DEF Inserts, Fields, Calling, Opening, Has
  <2>3. oCall'[a].at \in Opening => /\ oCall'[a].body \in Bodies
                                    /\ oHeader[oCall'[a].body].state \notin {"none", "new"}
    BY <1>1, <1>2 DEF Fields, Opening, Calling, CallRec, Has, Base, Inserted, Past
  <2> QED
    BY <1>1, <1>2, <2>1, <2>2, <2>3, PastStays
<1>7. /\ \A o \in Hosts : Mine(oCall'[a], o) = Mine(oCall[a], o)
      /\ \A h \in Slots : HasHandle(oCall'[a], h) <=> HasHandle(oCall[a], h)
      /\ oCall[a].at # "destroy" /\ oCall'[a].at # "destroy"
      /\ \A o \in Hosts : ~Naming(oCall'[a], o)
  BY <1>1, <1>2, ConstantFacts DEF Mine, HasHandle, Naming, Fields, Calling, Has, Num, Obj!Idle
<1>8. \A x \in Bodies : Inserts(oCall'[a], x) /\ oCall'[a].at # "contain" =>
        \/ Inserts(oCall[a], x) /\ oCall[a].at # "contain"
        \/ \A o \in Hosts : oObjects[o].body # x
  BY <1>1, <1>2 DEF Inserts, Fields, Calling, Opening, Closing, Has
<1> QED
  BY <1>1, <1>2, <1>3, <1>4, <1>5, <1>6, <1>7, <1>8, <1>11, QuietStep

LEMMA UnlinkFromDirectoryKeeps ==
  ASSUME Base, NEW a \in oSetting.threads, Obj!UnlinkFromDirectory(a), UNCHANGED oSetting
  PROVE  Base'
<1>1. /\ Calling(a, "unlink") /\ Moved(a)
      /\ Fields(oCall'[a], "deref", oCall[a].op, oCall[a].body, oCall[a].handle, oCall[a].object,
           oCall[a].outer, oCall[a].name, oCall[a].bias,
                IF oHeader[oCall[a].body].handles = 0 /\ oHeader[oCall[a].body].contained
                THEN 2 ELSE 1)
      /\ Becomes(oCall[a].body,
                 oHeader[oCall[a].body].pointers,
                 oHeader[oCall[a].body].handles,
                 oHeader[oCall[a].body].contained /\ oHeader[oCall[a].body].handles # 0,
                 oHeader[oCall[a].body].state)
      /\ oCall[a].body \in Bodies
      /\ UNCHANGED <<oTable, oObjects, oByBody, oNative, oOwned, oHeld>>
  BY UnlinkFromDirectoryDoes
<1>2. a \in Users /\ oCall[a] \in CallRec /\ Has(oCall[a]) /\ oSetting.threads \subseteq Users
  BY <1>1, UserIs DEF Calling
<1>3. Types'
  BY <1>1, <1>2 DEF Base, Types, Moved, CallRec, Becomes
<1>4. Within'
  BY <1>1, <1>2, ConstantFacts DEF Base, Within, Moved, SameBut, Fields, Calling, ByName, Types,
     Becomes
<1>5. Has(oCall[a])'
  BY <1>1, <1>2, ConstantFacts DEF Has, Opening, Closing, ByName, Fields, Calling, ObjectOf
<1>11. Mapped'
  BY <1>1, <1>2 DEF Base, Mapped, Types, Has, Calling, CallRec
<1>6. KeepsPast(a)
  <2>1. \A x \in Bodies : Past(x) => Past(x)'
    BY <1>1, <1>2 DEF Past, Becomes, SameBut
  <2>2. \A x \in Bodies : Inserts(oCall'[a], x) => Inserts(oCall[a], x)
    BY <1>1, <1>2 DEF Inserts, Fields, Calling, Opening, Has
  <2>3. oCall'[a].at \in Opening => /\ oCall'[a].body \in Bodies
                                    /\ oHeader[oCall'[a].body].state \notin {"none", "new"}
    BY <1>1, <1>2 DEF Fields, Opening, Calling, CallRec, Has, Base, Inserted, Past
  <2> QED
    BY <1>1, <1>2, <2>1, <2>2, <2>3, PastStays
<1>7. /\ \A o \in Hosts : Mine(oCall'[a], o) = Mine(oCall[a], o)
      /\ \A h \in Slots : HasHandle(oCall'[a], h) <=> HasHandle(oCall[a], h)
      /\ oCall[a].at # "destroy" /\ oCall'[a].at # "destroy"
      /\ \A o \in Hosts : ~Naming(oCall'[a], o)
  BY <1>1, <1>2, ConstantFacts DEF Mine, HasHandle, Naming, Fields, Calling, Has, Num, Obj!Idle
<1>8. \A x \in Bodies : Inserts(oCall'[a], x) /\ oCall'[a].at # "contain" =>
        \/ Inserts(oCall[a], x) /\ oCall[a].at # "contain"
        \/ \A o \in Hosts : oObjects[o].body # x
  BY <1>1, <1>2 DEF Inserts, Fields, Calling, Opening, Closing, Has
<1> QED
  BY <1>1, <1>2, <1>3, <1>4, <1>5, <1>6, <1>7, <1>8, <1>11, QuietStep

LEMMA DereferenceCountedKeeps ==
  ASSUME Base, NEW a \in oSetting.threads, Obj!DereferenceCounted(a), UNCHANGED oSetting
  PROVE  Base'
<1>1. /\ Calling(a, "deref") /\ Moved(a)
      /\ Fields(oCall'[a],
                IF oHeader[oCall[a].body].pointers = 1 THEN "delete"
                  ELSE Obj!AfterDeref(oCall[a]), oCall[a].op, oCall[a].body, oCall[a].handle,
                  oCall[a].object, oCall[a].outer, oCall[a].name, oCall[a].bias,
                  oCall[a].derefs - 1)
      /\ Becomes(oCall[a].body,
                 oHeader[oCall[a].body].pointers - 1,
                 oHeader[oCall[a].body].handles,
                 oHeader[oCall[a].body].contained,
                 IF oHeader[oCall[a].body].pointers = 1 THEN "deleting"
                   ELSE oHeader[oCall[a].body].state)
      /\ oCall[a].body \in Bodies /\ oCall[a].derefs \in 1..2
      /\ UNCHANGED <<oTable, oObjects, oByBody, oNative, oOwned, oHeld>>
  BY DereferenceCountedDoes
<1>2. a \in Users /\ oCall[a] \in CallRec /\ Has(oCall[a]) /\ oSetting.threads \subseteq Users
  BY <1>1, UserIs DEF Calling
<1>3. Types'
  BY <1>1, <1>2 DEF Base, Types, Moved, CallRec, Becomes
<1>4. Within'
  BY <1>1, <1>2, ConstantFacts DEF Base, Within, Moved, SameBut, Fields, Calling, ByName, Types,
     Becomes
<1>10. oCall[a].derefs = 1 \/ oCall[a].derefs = 2
  BY <1>1
<1>9. \/ oCall'[a].at = "delete" /\ oCall'[a].derefs \in 0..1
      \/ oCall'[a].at = "deref" /\ oCall'[a].derefs = 1
      \/ oCall'[a].at = "recount" /\ oCall[a].op = "replace"
      \/ oCall'[a].at = "return" /\ oCall[a].op # "replace"
  BY <1>1, <1>10 DEF Obj!AfterDeref, Fields
<1>5. Has(oCall[a])'
  <2>1. CASE oCall'[a].at = "delete"
    BY <2>1, <1>1, <1>2, <1>9, ConstantFacts
       DEF Has, Opening, Closing, ByName, Fields, Calling, ObjectOf
  <2>2. CASE oCall'[a].at = "deref"
    BY <2>2, <1>1, <1>2, <1>9, ConstantFacts
       DEF Has, Opening, Closing, ByName, Fields, Calling, ObjectOf
  <2>3. CASE oCall'[a].at = "recount"
    BY <2>3, <1>1, <1>2, <1>9, ConstantFacts
       DEF Has, Opening, Closing, ByName, Fields, Calling, ObjectOf
  <2>4. CASE oCall'[a].at = "return"
    BY <2>4, <1>1, <1>2, <1>9, ConstantFacts
       DEF Has, Opening, Closing, ByName, Fields, Calling, ObjectOf
  <2> QED
    BY <1>9, <2>1, <2>2, <2>3, <2>4
<1>11. Mapped'
  BY <1>1, <1>2 DEF Base, Mapped, Types, Has, Calling, CallRec
<1>6. KeepsPast(a)
  <2>1. \A x \in Bodies : Past(x) => Past(x)'
    BY <1>1, <1>2 DEF Past, Becomes, SameBut
  <2>2. \A x \in Bodies : Inserts(oCall'[a], x) => Inserts(oCall[a], x)
    BY <1>1, <1>2 DEF Inserts, Fields, Calling, Opening, Has, Obj!AfterDeref
  <2>3. oCall'[a].at \in Opening => /\ oCall'[a].body \in Bodies
                                    /\ oHeader[oCall'[a].body].state \notin {"none", "new"}
    BY <1>1, <1>2 DEF Fields, Opening, Calling, Obj!AfterDeref, CallRec, Has, Base, Inserted, Past
  <2> QED
    BY <1>1, <1>2, <2>1, <2>2, <2>3, PastStays
<1>7. /\ \A o \in Hosts : Mine(oCall'[a], o) = Mine(oCall[a], o)
      /\ \A h \in Slots : HasHandle(oCall'[a], h) <=> HasHandle(oCall[a], h)
      /\ oCall[a].at # "destroy" /\ oCall'[a].at # "destroy"
      /\ \A o \in Hosts : ~Naming(oCall'[a], o)
  BY <1>1, <1>2, ConstantFacts DEF Mine, HasHandle, Naming, Fields, Calling, Has, Num, Obj!Idle,
     Obj!AfterDeref
<1>8. \A x \in Bodies : Inserts(oCall'[a], x) /\ oCall'[a].at # "contain" =>
        \/ Inserts(oCall[a], x) /\ oCall[a].at # "contain"
        \/ \A o \in Hosts : oObjects[o].body # x
  BY <1>1, <1>2 DEF Inserts, Fields, Calling, Opening, Closing, Has, Obj!AfterDeref
<1> QED
  BY <1>1, <1>2, <1>3, <1>4, <1>5, <1>6, <1>7, <1>8, <1>11, QuietStep

LEMMA DeleteBodyKeeps ==
  ASSUME Base, NEW a \in oSetting.threads, Obj!DeleteBody(a), UNCHANGED oSetting
  PROVE  Base'
<1>1. /\ Calling(a, "delete") /\ Moved(a)
      /\ Fields(oCall'[a],
                Obj!AfterDeref([oCall[a] EXCEPT !.derefs = oCall[a].derefs + 1]), oCall[a].op,
                  oCall[a].body, oCall[a].handle, oCall[a].object, oCall[a].outer, oCall[a].name,
                  oCall[a].bias, oCall[a].derefs)
      /\ Becomes(oCall[a].body,
                 oHeader[oCall[a].body].pointers,
                 oHeader[oCall[a].body].handles,
                 oHeader[oCall[a].body].contained,
                 "freed")
      /\ oCall[a].body \in Bodies
      /\ UNCHANGED <<oTable, oObjects, oByBody, oNative, oOwned, oHeld>>
  BY DeleteBodyDoes
<1>2. a \in Users /\ oCall[a] \in CallRec /\ Has(oCall[a]) /\ oSetting.threads \subseteq Users
  BY <1>1, UserIs DEF Calling
<1>3. Types'
  BY <1>1, <1>2 DEF Base, Types, Moved, CallRec, Becomes
<1>4. Within'
  BY <1>1, <1>2, ConstantFacts DEF Base, Within, Moved, SameBut, Fields, Calling, ByName, Types,
     Becomes
<1>9. \/ oCall'[a].at = "deref" /\ oCall'[a].derefs >= 1
      \/ oCall'[a].at = "recount" /\ oCall[a].op = "replace"
      \/ oCall'[a].at = "return" /\ oCall[a].op # "replace"
  BY <1>1, <1>2 DEF Obj!AfterDeref, Fields, Calling, CallRec, Has
<1>5. Has(oCall[a])'
  <2>1. CASE oCall'[a].at = "delete"
    BY <2>1, <1>1, <1>2, <1>9, ConstantFacts
       DEF Has, Opening, Closing, ByName, Fields, Calling, ObjectOf
  <2>2. CASE oCall'[a].at = "deref"
    BY <2>2, <1>1, <1>2, <1>9, ConstantFacts
       DEF Has, Opening, Closing, ByName, Fields, Calling, ObjectOf
  <2>3. CASE oCall'[a].at = "recount"
    BY <2>3, <1>1, <1>2, <1>9, ConstantFacts
       DEF Has, Opening, Closing, ByName, Fields, Calling, ObjectOf
  <2>4. CASE oCall'[a].at = "return"
    BY <2>4, <1>1, <1>2, <1>9, ConstantFacts
       DEF Has, Opening, Closing, ByName, Fields, Calling, ObjectOf
  <2> QED
    BY <1>9, <2>1, <2>2, <2>3, <2>4
<1>11. Mapped'
  BY <1>1, <1>2 DEF Base, Mapped, Types, Has, Calling, CallRec
<1>6. KeepsPast(a)
  <2>1. \A x \in Bodies : Past(x) => Past(x)'
    BY <1>1, <1>2 DEF Past, Becomes, SameBut
  <2>2. \A x \in Bodies : Inserts(oCall'[a], x) => Inserts(oCall[a], x)
    BY <1>1, <1>2 DEF Inserts, Fields, Calling, Opening, Has, Obj!AfterDeref
  <2>3. oCall'[a].at \in Opening => /\ oCall'[a].body \in Bodies
                                    /\ oHeader[oCall'[a].body].state \notin {"none", "new"}
    BY <1>1, <1>2 DEF Fields, Opening, Calling, Obj!AfterDeref, CallRec, Has, Base, Inserted, Past
  <2> QED
    BY <1>1, <1>2, <2>1, <2>2, <2>3, PastStays
<1>7. /\ \A o \in Hosts : Mine(oCall'[a], o) = Mine(oCall[a], o)
      /\ \A h \in Slots : HasHandle(oCall'[a], h) <=> HasHandle(oCall[a], h)
      /\ oCall[a].at # "destroy" /\ oCall'[a].at # "destroy"
      /\ \A o \in Hosts : ~Naming(oCall'[a], o)
  BY <1>1, <1>2, ConstantFacts DEF Mine, HasHandle, Naming, Fields, Calling, Has, Num, Obj!Idle,
     Obj!AfterDeref
<1>8. \A x \in Bodies : Inserts(oCall'[a], x) /\ oCall'[a].at # "contain" =>
        \/ Inserts(oCall[a], x) /\ oCall[a].at # "contain"
        \/ \A o \in Hosts : oObjects[o].body # x
  BY <1>1, <1>2 DEF Inserts, Fields, Calling, Opening, Closing, Has, Obj!AfterDeref
<1> QED
  BY <1>1, <1>2, <1>3, <1>4, <1>5, <1>6, <1>7, <1>8, <1>11, QuietStep

LEMMA RecountKeeps ==
  ASSUME Base, NEW a \in oSetting.threads, Obj!Recount(a), UNCHANGED oSetting
  PROVE  Base'
<1>1. /\ Calling(a, "recount") /\ Moved(a)
      /\ Fields(oCall'[a], "deref", "duplicate", oCall[a].body, oCall[a].handle, oCall[a].object,
           oCall[a].outer, oCall[a].name, oCall[a].bias, 1)
      /\ Becomes(oCall[a].body,
                 oHeader[oCall[a].body].pointers + 1,
                 oHeader[oCall[a].body].handles + 1,
                 oHeader[oCall[a].body].contained,
                 oHeader[oCall[a].body].state)
      /\ oCall[a].body \in Bodies
      /\ UNCHANGED <<oTable, oObjects, oByBody, oNative, oOwned, oHeld>>
  BY RecountDoes
<1>2. a \in Users /\ oCall[a] \in CallRec /\ Has(oCall[a]) /\ oSetting.threads \subseteq Users
  BY <1>1, UserIs DEF Calling
<1>3. Types'
  BY <1>1, <1>2 DEF Base, Types, Moved, CallRec, Becomes
<1>4. Within'
  BY <1>1, <1>2, ConstantFacts DEF Base, Within, Moved, SameBut, Fields, Calling, ByName, Types,
     Becomes
<1>5. Has(oCall[a])'
  BY <1>1, <1>2, ConstantFacts DEF Has, Opening, Closing, ByName, Fields, Calling, ObjectOf
<1>11. Mapped'
  BY <1>1, <1>2 DEF Base, Mapped, Types, Has, Calling, CallRec
<1>6. KeepsPast(a)
  <2>1. \A x \in Bodies : Past(x) => Past(x)'
    BY <1>1, <1>2 DEF Past, Becomes, SameBut
  <2>2. \A x \in Bodies : Inserts(oCall'[a], x) => Inserts(oCall[a], x)
    BY <1>1, <1>2 DEF Inserts, Fields, Calling, Opening, Has
  <2>3. oCall'[a].at \in Opening => /\ oCall'[a].body \in Bodies
                                    /\ oHeader[oCall'[a].body].state \notin {"none", "new"}
    BY <1>1, <1>2 DEF Fields, Opening, Calling, CallRec, Has, Base, Inserted, Past
  <2> QED
    BY <1>1, <1>2, <2>1, <2>2, <2>3, PastStays
<1>7. /\ \A o \in Hosts : Mine(oCall'[a], o) = Mine(oCall[a], o)
      /\ \A h \in Slots : HasHandle(oCall'[a], h) <=> HasHandle(oCall[a], h)
      /\ oCall[a].at # "destroy" /\ oCall'[a].at # "destroy"
      /\ \A o \in Hosts : ~Naming(oCall'[a], o)
  BY <1>1, <1>2, ConstantFacts DEF Mine, HasHandle, Naming, Fields, Calling, Has, Num, Obj!Idle
<1>8. \A x \in Bodies : Inserts(oCall'[a], x) /\ oCall'[a].at # "contain" =>
        \/ Inserts(oCall[a], x) /\ oCall[a].at # "contain"
        \/ \A o \in Hosts : oObjects[o].body # x
  BY <1>1, <1>2 DEF Inserts, Fields, Calling, Opening, Closing, Has
<1> QED
  BY <1>1, <1>2, <1>3, <1>4, <1>5, <1>6, <1>7, <1>8, <1>11, QuietStep

\* What a step makes of the table: an object gains or loses references, or a handle as well.
Refers(o, n) ==
  /\ Sound(oTable)' /\ oTable'.refs = [oTable.refs EXCEPT ![o] = oTable.refs[o] + n]
  /\ oTable'.entry = oTable.entry /\ oTable'.name = oTable.name /\ oTable'.names = oTable.names
Adds(o, h, n) ==
  /\ Sound(oTable)' /\ oTable'.refs = [oTable.refs EXCEPT ![o] = oTable.refs[o] + n]
  /\ oTable'.entry = [oTable.entry EXCEPT ![h] = [object |-> o, refs |-> 1]]
  /\ oTable'.name = oTable.name /\ oTable'.names = oTable.names

LEMMA Retains ==
  ASSUME Base, NEW o \in Hosts, oTable' = Obj!Retain(oTable, o)
  PROVE  Refers(o, 1)
<1>1. Sound(oTable)
  BY DEF Base
<1>2. PICK u : u = oTable'
  OBVIOUS
<1>3. /\ Sound(u) /\ u.refs = [oTable.refs EXCEPT ![o] = oTable.refs[o] + 1]
      /\ u.entry = oTable.entry /\ u.name = oTable.name /\ u.names = oTable.names
  BY <1>1, <1>2, RetainSound
<1>4. Sound(oTable)'
  BY <1>2, <1>3
<1> QED
  BY <1>2, <1>3, <1>4 DEF Refers

LEMMA Releases ==
  ASSUME Base, NEW o \in Hosts, oTable.refs[o] > 0, oTable' = Obj!Release(oTable, o)
  PROVE  Refers(o, -1)
<1>1. Sound(oTable)
  BY DEF Base
<1>2. PICK u : u = oTable'
  OBVIOUS
<1>3. /\ Sound(u) /\ u.refs = [oTable.refs EXCEPT ![o] = oTable.refs[o] - 1]
      /\ u.entry = oTable.entry /\ u.name = oTable.name /\ u.names = oTable.names
  BY <1>1, <1>2, ReleaseSound
<1>4. Sound(oTable)'
  BY <1>2, <1>3
<1>5. oTable.refs[o] - 1 = oTable.refs[o] + (-1)
  BY RefFacts
<1> QED
  BY <1>2, <1>3, <1>4, <1>5 DEF Refers

LEMMA AddsHandle ==
  ASSUME Base, NEW o \in Hosts, NEW h \in AllSlots, ObjectOf(h) = none,
         oTable' = Obj!AddHandle(oTable, o, h)
  PROVE  Adds(o, h, 1)
<1>1. Sound(oTable) /\ oTable.entry[h].object = none
  BY DEF Base, ObjectOf
<1>2. PICK u : u = oTable'
  OBVIOUS
<1>8. u = Obj!AddHandle(oTable, o, h)
  BY <1>2
<1>3. /\ Sound(u) /\ u.refs = [oTable.refs EXCEPT ![o] = oTable.refs[o] + 1]
      /\ u.entry = [oTable.entry EXCEPT ![h] = [object |-> o, refs |-> 1]]
      /\ u.name = oTable.name /\ u.names = oTable.names
  <2>1. Sound(u) /\ HandleAdded(oTable, o, h, u)
    BY <1>1, <1>8, AddHandleSound
  <2> QED
    BY <2>1 DEF HandleAdded
<1>4. Sound(oTable)'
  BY <1>2, <1>3
<1> QED
  BY <1>2, <1>3, <1>4 DEF Adds

LEMMA AddsRetained ==
  ASSUME Base, NEW o \in Hosts, NEW h \in AllSlots, ObjectOf(h) = none,
         oTable' = Obj!Retain(Obj!AddHandle(oTable, o, h), o)
  PROVE  Adds(o, h, 2)
<1>1. Sound(oTable) /\ oTable.entry[h].object = none /\ oTable.refs \in [Hosts -> Nat]
  BY TableParts DEF Base, ObjectOf, Sound
<1>2. PICK u : u = oTable'
  OBVIOUS
<1>5. PICK t : t = Obj!AddHandle(oTable, o, h)
  OBVIOUS
<1>3. /\ Sound(t) /\ t.refs = [oTable.refs EXCEPT ![o] = oTable.refs[o] + 1]
      /\ t.entry = [oTable.entry EXCEPT ![h] = [object |-> o, refs |-> 1]]
      /\ t.name = oTable.name /\ t.names = oTable.names
  <2>1. Sound(t) /\ HandleAdded(oTable, o, h, t)
    BY <1>1, <1>5, AddHandleSound
  <2> QED
    BY <2>1 DEF HandleAdded
<1>6. /\ Sound(u) /\ u.refs = [t.refs EXCEPT ![o] = t.refs[o] + 1]
      /\ u.entry = t.entry /\ u.name = t.name /\ u.names = t.names
  BY <1>2, <1>3, <1>5, RetainSound
<1>4. Sound(oTable)'
  BY <1>2, <1>6
<1>7. u.refs = [oTable.refs EXCEPT ![o] = oTable.refs[o] + 2]
  BY <1>1, <1>3, <1>6
<1> QED
  BY <1>2, <1>3, <1>4, <1>6, <1>7 DEF Adds

\* A new object has no handle, no name and no call.
LEMMA NewObjectIs ==
  ASSUME Base, NEW o \in Hosts, Obj!IsNewObject(o)
  PROVE  /\ oObjects[o].kind = "none" /\ oTable.refs[o] = 0 /\ oTable.name[o] = none
         /\ \A h \in AllSlots : ObjectOf(h) # o
         /\ \A a \in Users : oCall[a].object # o
              /\ (oCall[a].outer = o => oCall[a].at = "destroy")
<1>1. oObjects[o].kind = "none"
  BY DEF Obj!IsNewObject
<1>2. oTable.refs[o] \in Nat
  BY RefFacts
<1>3. oTable.refs[o] = 0 /\ oTable.name[o] = none
  BY <1>1, <1>2 DEF Base, Referred, ObjectKinds
<1>4. \A h \in AllSlots : ObjectOf(h) # o
  BY <1>1, RefFacts
<1>5. \A a \in Users : Mine(oCall[a], o) = 0
  BY <1>3, RefFacts, MineType
<1> QED
  BY <1>1, <1>3, <1>4, <1>5 DEF Mine, Num

LEMMA FindStandInNotDoes ==
  ASSUME Base, NEW a \in oSetting.threads, Obj!FindStandIn(a), UNCHANGED oSetting,
         ~(oByBody[oCall[a].body] # none /\ oTable.refs[oByBody[oCall[a].body]] > 0)
  PROVE  /\ Calling(a, "find") /\ Moved(a)
         /\ Fields(oCall'[a], "create", oCall[a].op, oCall[a].body, oCall[a].handle,
              oCall[a].object, oCall[a].outer, oCall[a].name, oCall[a].bias, oCall[a].derefs)
         /\ UNCHANGED <<oTable, oObjects, oByBody, oNative, oHeader, oOwned, oHeld>>
<1> DEFINE c == oCall[a]
           d == [c EXCEPT !.at = "create"]
<1>1. /\ Calling(a, "find") /\ c \in CallRec /\ Has(c) /\ oCall \in [Users -> CallRec]
      /\ c.at = "find" /\ a \in Users
  BY UserIs DEF Obj!FindStandIn, Obj!At, Calling, Base, Types
<1>2. oCall' = [oCall EXCEPT ![a] = d]
  BY <1>1 DEF Obj!FindStandIn, Obj!Goto, Obj!At, CallRec
<1>3. Fields(d, "create", c.op, c.body, c.handle, c.object, c.outer, c.name, c.bias, c.derefs)
  BY <1>1 DEF Fields, CallRec
<1>4. d \in CallRec
  BY <1>1, IdleType, FieldTypes, PlaceTypes, ConstantFacts
<1> HIDE DEF d
<1>5. oCall'[a] = d /\ Moved(a)
  BY <1>1, <1>2, <1>4 DEF Moved, SameBut
<1>6. UNCHANGED <<oTable, oObjects, oByBody, oNative, oHeader, oOwned, oHeld>>
  BY <1>1 DEF Obj!FindStandIn, Obj!At
<1> QED
  BY <1>1, <1>3, <1>5, <1>6

LEMMA FindStandInKnownDoes ==
  ASSUME Base, NEW a \in oSetting.threads, Obj!FindStandIn(a), UNCHANGED oSetting,
         oByBody[oCall[a].body] # none, oTable.refs[oByBody[oCall[a].body]] > 0
  PROVE  /\ Calling(a, "find") /\ Moved(a)
         /\ Fields(oCall'[a], "add", oCall[a].op, oCall[a].body, oCall[a].handle,
              oByBody[oCall[a].body], oCall[a].outer, oCall[a].name, oCall[a].bias,
              oCall[a].derefs)
         /\ oByBody[oCall[a].body] \in Hosts /\ oCall[a].body \in Bodies
         /\ Refers(oByBody[oCall[a].body], 1)
         /\ UNCHANGED <<oObjects, oByBody, oNative, oHeader, oOwned, oHeld>>
<1> DEFINE c == oCall[a]
           d == [c EXCEPT !.object = oByBody[c.body], !.at = "add"]
<1>1. /\ Calling(a, "find") /\ c \in CallRec /\ Has(c) /\ oCall \in [Users -> CallRec]
      /\ c.at = "find" /\ a \in Users
  BY UserIs DEF Obj!FindStandIn, Obj!At, Calling, Base, Types
<1>2. c.body \in Bodies /\ oByBody[c.body] \in Hosts
  BY <1>1, ConstantFacts DEF Has, Opening, Closing, CallRec, Base, Types
<1>3. oCall' = [oCall EXCEPT ![a] = d]
  BY <1>1, <1>2 DEF Obj!FindStandIn, Obj!Goto, Obj!At, CallRec
<1>4. Fields(d, "add", c.op, c.body, c.handle, oByBody[c.body], c.outer, c.name, c.bias, c.derefs)
  BY <1>1, <1>2 DEF Fields, CallRec
<1>5. d \in CallRec
  BY <1>1, <1>2, IdleType, FieldTypes, PlaceTypes, ConstantFacts
<1> HIDE DEF d
<1>6. oCall'[a] = d /\ Moved(a)
  BY <1>1, <1>3, <1>5 DEF Moved, SameBut
<1>7. oByBody[oCall[a].body] \in Hosts /\ oCall[a].body \in Bodies
  BY <1>1, <1>2
<1>8. Refers(oByBody[oCall[a].body], 1)
  <2>1. oTable' = Obj!Retain(oTable, oByBody[c.body])
    BY DEF Obj!FindStandIn, Obj!At
  <2> QED
    BY <1>1, <1>2, <2>1, Retains
<1>9. UNCHANGED <<oObjects, oByBody, oNative, oHeader, oOwned, oHeld>>
  BY <1>1, <1>2 DEF Obj!FindStandIn, Obj!At
<1> QED
  BY <1>1, <1>4, <1>6, <1>7, <1>8, <1>9

LEMMA FindWrapperKnownDoes ==
  ASSUME Base, NEW a \in oSetting.threads, Obj!FindWrapper(a), UNCHANGED oSetting,
         oNative[oCall[a].body] # -1, BodyOf(oNative[oCall[a].body]) = oCall[a].body
  PROVE  /\ Calling(a, "find") /\ Moved(a)
         /\ Fields(oCall'[a], "add", oCall[a].op, oCall[a].body, oCall[a].handle,
              ObjectOf(oNative[oCall[a].body]), oCall[a].outer, oCall[a].name, oCall[a].bias,
              oCall[a].derefs)
         /\ oCall[a].body \in Dispatchers /\ oCall[a].body \in Bodies
              /\ oHeader[oCall[a].body].pointers > 0
         /\ ObjectOf(oNative[oCall[a].body]) \in Hosts /\ oNative[oCall[a].body] \in HostSlots
         /\ Refers(ObjectOf(oNative[oCall[a].body]), 1)
         /\ UNCHANGED <<oObjects, oByBody, oNative, oHeader, oOwned, oHeld>>
<1> DEFINE c == oCall[a]
           d == [c EXCEPT !.object = ObjectOf(oNative[c.body]), !.at = "add"]
<1>1. /\ Calling(a, "find") /\ c \in CallRec /\ Has(c) /\ oCall \in [Users -> CallRec]
      /\ c.at = "find" /\ a \in Users
  BY UserIs DEF Obj!FindWrapper, Obj!At, Calling, Base, Types
<1>2. c.body \in Dispatchers /\ c.body \in Bodies /\ c.body # none /\ oHeader[c.body].pointers > 0
  BY <1>1, ConstantFacts DEF Obj!FindWrapper
<1>3. oNative[c.body] \in HostSlots /\ oNative[c.body] \in AllSlots
  BY <1>1, <1>2 DEF Base, Types, AllSlots
<1>4. oTable.entry[oNative[c.body]].object \in Hosts \cup {none}
  BY <1>1, <1>2, <1>3, TableParts DEF Base, Sound, Entries
<1>5. ObjectOf(oNative[c.body]) \in Hosts
  BY <1>1, <1>2, <1>3, <1>4 DEF ObjectOf, BodyOf
<1>6. oCall' = [oCall EXCEPT ![a] = d]
  BY <1>1, <1>2, <1>3, <1>4, <1>5, CountedBodyIs DEF Obj!FindWrapper, Obj!Goto, Obj!At, CallRec
<1>7. Fields(d, "add", c.op, c.body, c.handle, ObjectOf(oNative[c.body]), c.outer, c.name, c.bias,
        c.derefs)
  BY <1>1, <1>2, <1>3, <1>4, <1>5 DEF Fields, CallRec
<1>8. d \in CallRec
  BY <1>1, <1>2, <1>3, <1>4, <1>5, IdleType, FieldTypes, PlaceTypes, ConstantFacts
<1> HIDE DEF d
<1>9. oCall'[a] = d /\ Moved(a)
  BY <1>1, <1>6, <1>8 DEF Moved, SameBut
<1>10. oCall[a].body \in Dispatchers /\ oCall[a].body \in Bodies
         /\ oHeader[oCall[a].body].pointers > 0
  BY <1>1, <1>2, <1>3, <1>4, <1>5
<1>11. ObjectOf(oNative[oCall[a].body]) \in Hosts /\ oNative[oCall[a].body] \in HostSlots
  BY <1>1, <1>2, <1>3, <1>4, <1>5
<1>12. Refers(ObjectOf(oNative[oCall[a].body]), 1)
  <2>1. oTable' = Obj!Retain(oTable, ObjectOf(oNative[c.body]))
    BY <1>1, <1>2, <1>3, <1>4, <1>5, CountedBodyIs DEF Obj!FindWrapper, Obj!At
  <2> QED
    BY <1>1, <1>2, <1>3, <1>4, <1>5, <2>1, Retains
<1>13. UNCHANGED <<oObjects, oByBody, oNative, oHeader, oOwned, oHeld>>
  BY <1>1, <1>2, <1>3, <1>4, <1>5, CountedBodyIs DEF Obj!FindWrapper, Obj!At
<1> QED
  BY <1>1, <1>7, <1>9, <1>10, <1>11, <1>12, <1>13

-----------------------------------------------------------------------------
\* The steps that change the table, by what they do to it. What they do to the call has to
\* fit: it gains the references it takes (GainsRefs), and with those of the title and the call
\* a handle has as many as before (KeepsHandles).
GainsRefs(a, o, n) ==
  /\ \A p \in Hosts : Mine(oCall'[a], p) = Mine(oCall[a], p) + (IF p = o THEN n ELSE 0)
  /\ oCall[a].at # "destroy" /\ oCall'[a].at # "destroy"
Claims(owned, c, h) == owned[h] + Num(HasHandle(c, h))
KeepsHandles(a, g, n) ==
  \A h \in Slots : Claims(oOwned', oCall'[a], h) = Claims(oOwned, oCall[a], h)
    + (IF h = g THEN n ELSE 0)
Rest(a) ==
  /\ Types' /\ Within' /\ Mapped' /\ Moved(a) /\ Has(oCall[a])' /\ KeepsPast(a) /\ KeepsNames(a)

\* What the parts of the invariant say of the numbers.
LEMMA CountTypes ==
  ASSUME Base
  PROVE  /\ oTable.refs \in [Hosts -> Nat] /\ oTable.entry \in [AllSlots -> Entries]
         /\ \A p \in Hosts, a \in Users : Mine(oCall[a], p) \in Nat
         /\ \A h \in AllSlots : oTable.entry[h].refs \in Nat /\ oTable.entry[h].object \in Hosts
              \cup {none}
         /\ \A h \in Slots, a \in Users : oOwned[h] \in Nat /\ Num(HasHandle(oCall[a], h)) \in Nat
<1>1. /\ oTable.refs \in [Hosts -> Nat] /\ oTable.entry \in [AllSlots -> Entries]
  BY TableParts DEF Base, Sound
<1>2. \A p \in Hosts, a \in Users : Mine(oCall[a], p) \in Nat
  BY MineType
<1>3. \A h \in AllSlots : oTable.entry[h].refs \in Nat /\ oTable.entry[h].object \in Hosts
        \cup {none}
  BY <1>1 DEF Entries
<1>4. \A h \in Slots, a \in Users : oOwned[h] \in Nat /\ Num(HasHandle(oCall[a], h)) \in Nat
  BY NumType DEF Base, Types
<1> QED
  BY <1>1, <1>2, <1>3, <1>4

LEMMA RefersStep ==
  ASSUME Base, NEW a \in Users, NEW o \in Hosts, NEW n \in Int, Refers(o, n),
         oTable.refs[o] > 0, oTable.refs[o] + n > 0, UNCHANGED oObjects,
         Rest(a), GainsRefs(a, o, n), KeepsHandles(a, -1, 0)
  PROVE  Base'
<1>1. /\ Sound(oTable)' /\ oTable'.refs = [oTable.refs EXCEPT ![o] = oTable.refs[o] + n]
      /\ oTable'.entry = oTable.entry /\ oTable'.name = oTable.name
  BY DEF Refers
<1>2. ObjectKinds'
  BY <1>1 DEF Base, ObjectKinds, ObjectOf
<1>3. KeepsOthers(a)
  BY <1>1 DEF KeepsOthers, ObjectOf
<1>4. /\ oTable.refs \in [Hosts -> Nat]
      /\ \A p \in Hosts : Mine(oCall[a], p) \in Nat /\ Mine(oCall'[a], p) \in Nat
  BY CountTypes, MineType
<1>5. MovesRefs(a, 0)
  <2>1. SameBut(AllSlots, oTable.entry, oTable'.entry, 0)
    BY <1>1 DEF SameBut
  <2>2. \A p : Slot(oTable'.entry, 0, p) = Slot(oTable.entry, 0, p)
          /\ Slot(oTable.entry, 0, p) \in Nat
    BY <1>1, NumType DEF Slot
  <2>3. ASSUME NEW p \in Hosts
        PROVE  /\ oTable'.refs[p] + Slot(oTable.entry, 0, p) + Mine(oCall[a], p)
                    = oTable.refs[p] + Slot(oTable'.entry, 0, p) + Mine(oCall'[a], p)
               /\ p # o => oTable'.refs[p] = oTable.refs[p]
               /\ p = o => oTable'.refs[p] > 0
    <3>1. Mine(oCall'[a], p) = Mine(oCall[a], p) + (IF p = o THEN n ELSE 0)
      BY DEF GainsRefs
    <3>2. oTable'.refs[p] = IF p = o THEN oTable.refs[o] + n ELSE oTable.refs[p]
      BY <1>1, <1>4
    <3> QED
      BY <3>1, <3>2, <2>2, <1>4
  <2>4. \A p \in Hosts : ~Destroying(oCall[a], p) /\ ~Destroying(oCall'[a], p)
    BY DEF GainsRefs, Destroying
  <2>5. \A p \in Hosts : oTable.refs[p] > 0 => oObjects'[p].kind # "none"
    BY DEF Base, Referred
  <2>6. ASSUME NEW p \in Hosts
        PROVE  /\ oTable'.refs[p] > 0 => oObjects'[p].kind # "none"
               /\ oTable.refs[p] = 0 /\ oObjects[p].kind # "none" /\ ~Destroying(oCall[a], p) =>
                    oTable'.refs[p] = 0 /\ oObjects'[p].kind # "none"
               /\ oTable'.refs[p] = 0 /\ oObjects'[p].kind # "none" =>
                    \/ Destroying(oCall'[a], p)
                    \/ oTable.refs[p] = 0 /\ oObjects[p].kind # "none" /\ ~Destroying(oCall[a], p)
    BY <2>3, <2>4, <2>5
  <2> QED
    BY <2>1, <2>3, <2>4, <2>6 DEF MovesRefs, GainsRefs
<1>6. MovesHandles(a)
  <2> SUFFICES ASSUME NEW h \in Slots
      PROVE  oTable'.entry[h].refs + oOwned[h] + Num(HasHandle(oCall[a], h))
               = oTable.entry[h].refs + oOwned'[h] + Num(HasHandle(oCall'[a], h))
    BY DEF MovesHandles
  <2>1. oOwned'[h] + Num(HasHandle(oCall'[a], h)) = oOwned[h] + Num(HasHandle(oCall[a], h)) + 0
    BY ConstantFacts DEF KeepsHandles, Claims
  <2>2. oTable.entry[h].refs \in Nat /\ oOwned[h] \in Nat /\ oOwned'[h] \in Nat
    BY CountTypes DEF AllSlots, Rest, Types
  <2> QED
    BY <1>1, <2>1, <2>2, NumType
<1> QED
  BY <1>1, <1>2, <1>3, <1>5, <1>6, CallStep DEF Rest

\* A new handle, of an object the call has or of a new one.
AddsFit(a, o) ==
  /\ \A p \in Hosts : p # o => oObjects'[p] = oObjects[p]
  /\ oObjects'[o].kind # "none" /\ ~Destroying(oCall[a], o)
  /\ oTable.refs[o] = 0 => oObjects[o].kind = "none"
  /\ oTable.refs[o] > 0 => UNCHANGED oObjects

LEMMA AddsStep ==
  ASSUME Base, NEW a \in Users, NEW o \in Hosts, NEW h \in AllSlots, NEW n \in Nat,
           ObjectOf(h) = none,
         Adds(o, h, n + 1), AddsFit(a, o), ObjectKinds',
         Rest(a), GainsRefs(a, o, n), KeepsHandles(a, h, 1)
  PROVE  Base'
<1>1. /\ Sound(oTable)' /\ oTable'.refs = [oTable.refs EXCEPT ![o] = oTable.refs[o] + (n + 1)]
      /\ oTable'.entry = [oTable.entry EXCEPT ![h] = [object |-> o, refs |-> 1]]
      /\ oTable'.name = oTable.name
  BY DEF Adds
<1>2. /\ oTable.refs \in [Hosts -> Nat] /\ oTable.entry \in [AllSlots -> Entries] /\ o # none
      /\ \A p \in Hosts : Mine(oCall[a], p) \in Nat /\ Mine(oCall'[a], p) \in Nat
  BY CountTypes, MineType, ConstantFacts
<1>3. \A g \in AllSlots : oTable'.entry[g] = IF g = h THEN [object |-> o, refs |-> 1]
        ELSE oTable.entry[g]
  BY <1>1, <1>2
<1>4. oTable.entry[h].object = none /\ oTable.entry[h].refs = 0
  BY DEF Base, Sound, ObjectOf
<1>5. KeepsOthers(a)
  <2>1. ASSUME NEW p \in Hosts, oObjects[p].kind # "none", oTable.refs[p] > Mine(oCall[a], p)
        PROVE  oObjects'[p] = oObjects[p]
    BY <2>1, <1>2 DEF AddsFit
  <2>2. \A g \in Slots : ObjectOf(g) # none => ObjectOf(g)' = ObjectOf(g)
    BY <1>3, <1>4 DEF ObjectOf, AllSlots
  <2> QED
    BY <2>1, <2>2 DEF KeepsOthers
<1>6. MovesRefs(a, h)
  <2>1. SameBut(AllSlots, oTable.entry, oTable'.entry, h)
    BY <1>3 DEF SameBut
  <2>2. ASSUME NEW p \in Hosts
        PROVE  /\ Slot(oTable'.entry, h, p) = IF p = o THEN 1 ELSE 0
               /\ Slot(oTable.entry, h, p) = 0
    BY <1>2, <1>3, <1>4, ConstantFacts DEF Slot, Num
  <2>3. ASSUME NEW p \in Hosts
        PROVE  /\ oTable'.refs[p] + Slot(oTable.entry, h, p) + Mine(oCall[a], p)
                    = oTable.refs[p] + Slot(oTable'.entry, h, p) + Mine(oCall'[a], p)
               /\ p # o => oTable'.refs[p] = oTable.refs[p]
               /\ p = o => oTable'.refs[p] > 0
    <3>1. Mine(oCall'[a], p) = Mine(oCall[a], p) + (IF p = o THEN n ELSE 0)
      BY DEF GainsRefs
    <3>2. oTable'.refs[p] = IF p = o THEN oTable.refs[o] + (n + 1) ELSE oTable.refs[p]
      BY <1>1, <1>2
    <3> QED
      BY <3>1, <3>2, <2>2, <1>2
  <2>4. \A p \in Hosts : ~Destroying(oCall[a], p) /\ ~Destroying(oCall'[a], p)
    BY DEF GainsRefs, Destroying
  <2>5. \A p \in Hosts : oTable.refs[p] > 0 => oObjects[p].kind # "none"
    BY DEF Base, Referred
  <2>6. ASSUME NEW p \in Hosts
        PROVE  /\ oTable'.refs[p] > 0 => oObjects'[p].kind # "none"
               /\ oTable.refs[p] = 0 /\ oObjects[p].kind # "none" /\ ~Destroying(oCall[a], p) =>
                    oTable'.refs[p] = 0 /\ oObjects'[p].kind # "none"
               /\ oTable'.refs[p] = 0 /\ oObjects'[p].kind # "none" =>
                    \/ Destroying(oCall'[a], p)
                    \/ oTable.refs[p] = 0 /\ oObjects[p].kind # "none" /\ ~Destroying(oCall[a], p)
    BY <2>3, <2>4, <2>5 DEF AddsFit
  <2> QED
    BY <2>1, <2>3, <2>4, <2>6 DEF MovesRefs, GainsRefs
<1>7. MovesHandles(a)
  <2> SUFFICES ASSUME NEW g \in Slots
      PROVE  oTable'.entry[g].refs + oOwned[g] + Num(HasHandle(oCall[a], g))
               = oTable.entry[g].refs + oOwned'[g] + Num(HasHandle(oCall'[a], g))
    BY DEF MovesHandles
  <2>1. oOwned'[g] + Num(HasHandle(oCall'[a], g))
          = oOwned[g] + Num(HasHandle(oCall[a], g)) + (IF g = h THEN 1 ELSE 0)
    BY DEF KeepsHandles, Claims
  <2>2. oTable.entry[g].refs \in Nat /\ oOwned[g] \in Nat /\ oOwned'[g] \in Nat /\ g \in AllSlots
    BY CountTypes DEF AllSlots, Rest, Types
  <2>3. oTable'.entry[g].refs = IF g = h THEN 1 ELSE oTable.entry[g].refs
    BY <2>2, <1>3
  <2> QED
    BY <2>1, <2>2, <2>3, <1>4, NumType
<1> QED
  BY <1>1, <1>5, <1>6, <1>7, CallStep DEF Rest

\* A handle that a lookup by name holds once more.
HoldsMore(o, h) ==
  /\ Sound(oTable)' /\ oTable'.refs = oTable.refs /\ oTable'.name = oTable.name
  /\ oTable'.names = oTable.names
  /\ oTable'.entry
       = [oTable.entry EXCEPT ![h] = [object |-> o, refs |-> oTable.entry[h].refs + 1]]
\* A reference to a handle that goes, and the handle with its last one. The object may have
\* gained n meanwhile.
NamesMove(t, o, h, u) ==
  \A n \in ObjectNames :
    /\ n # t.name[o] \/ t.names[n] # h => u.names[n] = t.names[n]
    /\ n = t.name[o] /\ t.names[n] = h =>
         IF u.names[n] = -1 THEN \A x \in Slots : u.entry[x].object # o
         ELSE u.entry[u.names[n]].object = o
Drops(o, h, n) ==
  LET last == oTable.entry[h].refs = 1
  IN /\ Sound(oTable)' /\ oTable'.name = oTable.name
     /\ oTable'.refs = [oTable.refs EXCEPT ![o] = oTable.refs[o] + n - Num(last)]
     /\ oTable'.entry = [oTable.entry EXCEPT ![h] =
                          [object |-> IF last THEN none ELSE o, refs |-> oTable.entry[h].refs
                            - 1]]
     /\ IF last THEN NamesMove(oTable, o, h, oTable') ELSE oTable'.names = oTable.names
\* An object that is told its name.
Names(o, n) ==
  /\ Sound(oTable)' /\ oTable'.name = [oTable.name EXCEPT ![o] = n]
  /\ oTable'.entry = oTable.entry /\ oTable'.refs = oTable.refs
  /\ \A m \in ObjectNames : oTable'.names[m] = oTable.names[m] \/ m = n
  /\ IF oTable.names[n] = -1 THEN oTable'.names[n] # -1 /\ ObjectOf(oTable'.names[n]) = o
     ELSE oTable'.names[n] = oTable.names[n]

LEMMA DropsHandle ==
  ASSUME Base, NEW o \in Hosts, NEW h \in Slots, ObjectOf(h) = o, NEW v,
           v = Obj!ReleaseHandle(oTable, h)
  PROVE  /\ Sound(v) /\ v.name = oTable.name
         /\ v.refs = [oTable.refs EXCEPT ![o] = oTable.refs[o] - Num(oTable.entry[h].refs = 1)]
         /\ v.entry = [oTable.entry EXCEPT ![h] =
                         [object |-> IF oTable.entry[h].refs = 1 THEN none ELSE o,
                          refs |-> oTable.entry[h].refs - 1]]
         /\ IF oTable.entry[h].refs = 1 THEN NamesMove(oTable, o, h, v)
              ELSE v.names = oTable.names
<1>1. /\ Sound(oTable) /\ oTable \in Tables /\ h \in AllSlots /\ oTable.entry[h].object = o
      /\ oTable.entry[h].refs \in Nat /\ oTable.refs \in [Hosts -> Nat] /\ o # none
  BY CountTypes, ConstantFacts DEF Base, Sound, AllSlots, ObjectOf
<1>2. oTable.refs[o] > 0 /\ oTable.entry[h].refs # 0
  <2>1. oTable.refs[o] >= 1
    BY <1>1, RefFacts
  <2> QED
    BY <1>1, <2>1 DEF Sound
<1>3. CASE oTable.entry[h].refs = 1
  <2>1. v = Obj!RemoveHandle(oTable, h)
    BY <1>3 DEF Obj!ReleaseHandle
  <2>2. Sound(v) /\ HandleRemoved(oTable, o, h, v)
    BY <1>1, <1>2, <2>1, RemoveHandleSound
  <2>3. Num(oTable.entry[h].refs = 1) = 1 /\ oTable.entry[h].refs - 1 = 0
    BY <1>3 DEF Num
  <2>4. NamesMove(oTable, o, h, v)
    BY <2>2 DEF HandleRemoved, NamesMove
  <2> QED
    BY <1>3, <2>2, <2>3, <2>4 DEF HandleRemoved
<1>4. CASE oTable.entry[h].refs # 1
  <2>1. oTable.entry[h].refs > 1
    BY <1>1, <1>2, <1>4
  <2>2. Sound(v) /\ HandleCounts(oTable, h, -1, v)
    BY <1>1, <2>1, ReleaseMoreSound
  <2>3. /\ Num(oTable.entry[h].refs = 1) = 0 /\ oTable.refs[o] - 0 = oTable.refs[o]
        /\ oTable.entry[h].refs + (-1) = oTable.entry[h].refs - 1
    BY <1>1, <1>4 DEF Num
  <2>4. oTable.refs = [oTable.refs EXCEPT ![o] = oTable.refs[o]]
    BY <1>1
  <2> QED
    BY <1>1, <1>4, <2>2, <2>3, <2>4 DEF HandleCounts
<1> QED
  BY <1>3, <1>4

LEMMA DropsIs ==
  ASSUME Base, NEW o \in Hosts, NEW h \in Slots, ObjectOf(h) = o,
         oTable' = Obj!ReleaseHandle(oTable, h)
  PROVE  Drops(o, h, 0)
<1>1. PICK v : v = oTable'
  OBVIOUS
<1>2. v = Obj!ReleaseHandle(oTable, h)
  BY <1>1
<1>3. /\ Sound(v) /\ v.name = oTable.name
      /\ v.refs = [oTable.refs EXCEPT ![o] = oTable.refs[o] - Num(oTable.entry[h].refs = 1)]
      /\ v.entry = [oTable.entry EXCEPT ![h] =
                      [object |-> IF oTable.entry[h].refs = 1 THEN none ELSE o,
                       refs |-> oTable.entry[h].refs - 1]]
      /\ IF oTable.entry[h].refs = 1 THEN NamesMove(oTable, o, h, v) ELSE v.names = oTable.names
  BY <1>2, DropsHandle
<1>4. oTable.refs[o] + 0 - Num(oTable.entry[h].refs = 1) = oTable.refs[o]
        - Num(oTable.entry[h].refs = 1)
  <2>1. oTable.refs[o] \in Nat /\ Num(oTable.entry[h].refs = 1) \in 0..1
    BY CountTypes, NumType
  <2> QED
    BY <2>1
<1>5. Sound(oTable)'
  BY <1>1, <1>3
<1> QED
  BY <1>1, <1>3, <1>4, <1>5 DEF Drops

LEMMA DropsRetained ==
  ASSUME Base, NEW o \in Hosts, NEW h \in Slots, ObjectOf(h) = o,
         oTable' = Obj!Retain(Obj!ReleaseHandle(oTable, h), o)
  PROVE  Drops(o, h, 1)
<1>1. PICK u : u = oTable'
  OBVIOUS
<1>2. PICK v : v = Obj!ReleaseHandle(oTable, h)
  OBVIOUS
<1>3. /\ Sound(v) /\ v.name = oTable.name
      /\ v.refs = [oTable.refs EXCEPT ![o] = oTable.refs[o] - Num(oTable.entry[h].refs = 1)]
      /\ v.entry = [oTable.entry EXCEPT ![h] =
                      [object |-> IF oTable.entry[h].refs = 1 THEN none ELSE o,
                       refs |-> oTable.entry[h].refs - 1]]
      /\ IF oTable.entry[h].refs = 1 THEN NamesMove(oTable, o, h, v) ELSE v.names = oTable.names
  BY <1>2, DropsHandle
<1>4. u = Obj!Retain(v, o)
  BY <1>1, <1>2
<1>5. /\ Sound(u) /\ u.refs = [v.refs EXCEPT ![o] = v.refs[o] + 1]
      /\ u.entry = v.entry /\ u.handles = v.handles /\ u.name = v.name /\ u.names = v.names
  BY <1>3, <1>4, RetainSound
<1>6. /\ oTable.refs \in [Hosts -> Nat] /\ Num(oTable.entry[h].refs = 1) \in 0..1
  BY CountTypes, NumType
<1>7. u.refs = [oTable.refs EXCEPT ![o] = oTable.refs[o] + 1 - Num(oTable.entry[h].refs = 1)]
  <2>1. v.refs[o] + 1 = oTable.refs[o] + 1 - Num(oTable.entry[h].refs = 1)
    BY <1>3, <1>6
  <2> QED
    BY <1>3, <1>5, <1>6, <2>1
<1>8. NamesMove(oTable, o, h, v) => NamesMove(oTable, o, h, u)
  BY <1>5 DEF NamesMove
<1>9. Sound(oTable)'
  BY <1>1, <1>5
<1> QED
  BY <1>1, <1>3, <1>5, <1>7, <1>8, <1>9 DEF Drops

LEMMA NamesIs ==
  ASSUME Base, NEW o \in Hosts, NEW n \in ObjectNames, oTable.name[o] = none,
         NEW h \in Slots, ObjectOf(h) = o, oTable' = Obj!SetAttributes(oTable, o, n)
  PROVE  Names(o, n)
<1>1. PICK u : u = oTable'
  OBVIOUS
<1>2. u = Obj!SetAttributes(oTable, o, n) /\ Sound(oTable) /\ oTable.entry[h].object = o
  BY <1>1 DEF Base, ObjectOf
<1>3. Sound(u) /\ ObjectNamed(oTable, o, n, u)
  BY <1>2, SetAttributesSound
<1>4. Sound(oTable)'
  BY <1>1, <1>3
<1> QED
  BY <1>1, <1>3, <1>4 DEF Names, ObjectNamed, ObjectOf

\* A lookup by name finds the object's oldest handle, when it has no host handle.
LEMMA NameIsOldest ==
  ASSUME Base, NEW n \in ObjectNames, oTable.names[n] # -1,
         \A x \in HostSlots : ObjectOf(x) # ObjectOf(oTable.names[n]),
         oTable' = Obj!GetObjectByName(oTable, n)
  PROVE  /\ oTable.names[n] \in Slots /\ ObjectOf(oTable.names[n]) \in Hosts
         /\ HoldsMore(ObjectOf(oTable.names[n]), oTable.names[n])
<1> DEFINE g == oTable.names[n]
           o == ObjectOf(g)
           s == oTable.handles[o]
<1>1. /\ oTable \in Tables /\ oTable.entry \in [AllSlots -> Entries]
      /\ oTable.handles \in [Hosts -> Seq(AllSlots)]
           /\ oTable.names \in [ObjectNames -> Slots \cup {-1}]
  BY TableParts DEF Base, Sound
<1>2. g \in Slots /\ g \in AllSlots /\ o \in Hosts /\ First(s, g) /\ o # none
  BY <1>1 DEF Base, Sound, AllSlots, Entries, ObjectOf
<1>3. s \in Seq(AllSlots) /\ \A x \in AllSlots : x \in Elems(s) => ObjectOf(x) = o
  <2>1. \A p \in Hosts : \A x \in AllSlots : x \in Elems(oTable.handles[p]) <=> ObjectOf(x) = p
    BY DEF Base, Sound, ObjectOf
  <2> HIDE DEF o
  <2> QED
    BY <2>1, <1>1, <1>2
<1> HIDE DEF s, g, o
<1>4. PICK i \in DOMAIN s : s[i] = g /\ \A j \in DOMAIN s : j < i => s[j] \notin Slots
  BY <1>2 DEF First
<1>5. DOMAIN s = 1..Len(s) /\ Len(s) \in Nat
  BY <1>3
<1>6. i = 1
  <2> SUFFICES ASSUME i # 1 PROVE FALSE
    OBVIOUS
  <2>1. 1 \in DOMAIN s /\ 1 < i
    BY <1>4, <1>5
  <2>2. s[1] \in AllSlots /\ s[1] \notin Slots
    BY <2>1, <1>3, <1>4
  <2>3. s[1] \in Elems(s)
    BY <2>1, <1>3, <1>5, ElemAt
  <2>4. s[1] \in HostSlots /\ ObjectOf(s[1]) = o
    BY <2>2, <2>3, <1>3 DEF AllSlots
  <2> QED
    BY <2>4 DEF o, g
<1>7. s # <<>> /\ Head(s) = g
  BY <1>3, <1>4, <1>5, <1>6
<1>8. PICK u : u = oTable'
  OBVIOUS
<1>9. u = Obj!RetainHandle(oTable, o)
  BY <1>2, <1>8, CountedBodyIs DEF Obj!GetObjectByName, g, o
<1>10. Sound(oTable) /\ oTable.handles[o] # <<>> /\ Head(oTable.handles[o]) = g
  BY <1>7 DEF Base, s
<1>11. Sound(u) /\ oTable.entry[g].object = o /\ HandleCounts(oTable, g, 1, u)
  BY <1>2, <1>9, <1>10, RetainHandleSound
<1>12. Sound(oTable)'
  BY <1>8, <1>11
<1>13. HoldsMore(o, g)
  BY <1>8, <1>11, <1>12 DEF HoldsMore, HandleCounts
<1> QED
  BY <1>2, <1>13 DEF o, g

LEMMA HoldsStep ==
  ASSUME Base, NEW a \in Users, NEW o \in Hosts, NEW h \in Slots, ObjectOf(h) = o,
           HoldsMore(o, h),
         UNCHANGED oObjects, Rest(a), GainsRefs(a, o, 0), KeepsHandles(a, h, 1)
  PROVE  Base'
<1>1. /\ Sound(oTable)' /\ oTable'.refs = oTable.refs /\ oTable'.name = oTable.name
      /\ oTable'.entry
           = [oTable.entry EXCEPT ![h] = [object |-> o, refs |-> oTable.entry[h].refs + 1]]
  BY DEF HoldsMore
<1>2. /\ oTable.refs \in [Hosts -> Nat] /\ oTable.entry \in [AllSlots -> Entries]
           /\ h \in AllSlots
      /\ \A p \in Hosts : Mine(oCall[a], p) \in Nat /\ Mine(oCall'[a], p) \in Nat
  BY CountTypes, MineType DEF AllSlots
<1>3. \A g \in AllSlots :
        /\ oTable'.entry[g].object = oTable.entry[g].object
        /\ oTable'.entry[g].refs = oTable.entry[g].refs + (IF g = h THEN 1 ELSE 0)
  <2> SUFFICES ASSUME NEW g \in AllSlots
      PROVE  /\ oTable'.entry[g].object = oTable.entry[g].object
             /\ oTable'.entry[g].refs = oTable.entry[g].refs + (IF g = h THEN 1 ELSE 0)
    OBVIOUS
  <2>1. oTable'.entry[g] = IF g = h THEN [object |-> o, refs |-> oTable.entry[h].refs + 1]
                           ELSE oTable.entry[g]
    BY <1>1, <1>2
  <2>2. oTable.entry[g].refs \in Nat
    BY CountTypes
  <2> QED
    BY <2>1, <2>2 DEF ObjectOf
<1>4. ObjectKinds' /\ KeepsOthers(a)
  <2>1. \A g \in AllSlots : ObjectOf(g)' = ObjectOf(g)
    BY <1>3 DEF ObjectOf
  <2> QED
    BY <1>1, <2>1 DEF Base, ObjectKinds, KeepsOthers, AllSlots
<1>5. MovesRefs(a, h)
  <2>1. SameBut(AllSlots, oTable.entry, oTable'.entry, h)
    BY <1>1, <1>2 DEF SameBut
  <2>2. \A p \in Hosts : Slot(oTable'.entry, h, p) = Slot(oTable.entry, h, p)
    BY <1>2, <1>3 DEF Slot
  <2>3. ASSUME NEW p \in Hosts
        PROVE  /\ oTable'.refs[p] + Slot(oTable.entry, h, p) + Mine(oCall[a], p)
                    = oTable.refs[p] + Slot(oTable'.entry, h, p) + Mine(oCall'[a], p)
               /\ ~Destroying(oCall[a], p) /\ ~Destroying(oCall'[a], p)
    <3>1. Mine(oCall'[a], p) = Mine(oCall[a], p) + 0
      BY DEF GainsRefs
    <3> QED
      BY <3>1, <2>2, <1>1, <1>2 DEF GainsRefs, Destroying
  <2>4. \A p \in Hosts : oTable.refs[p] > 0 => oObjects'[p].kind # "none"
    BY DEF Base, Referred
  <2> QED
    BY <1>1, <2>1, <2>3, <2>4 DEF MovesRefs, GainsRefs
<1>6. MovesHandles(a)
  <2> SUFFICES ASSUME NEW g \in Slots
      PROVE  oTable'.entry[g].refs + oOwned[g] + Num(HasHandle(oCall[a], g))
               = oTable.entry[g].refs + oOwned'[g] + Num(HasHandle(oCall'[a], g))
    BY DEF MovesHandles
  <2>1. oOwned'[g] + Num(HasHandle(oCall'[a], g))
          = oOwned[g] + Num(HasHandle(oCall[a], g)) + (IF g = h THEN 1 ELSE 0)
    BY DEF KeepsHandles, Claims
  <2>2. oTable.entry[g].refs \in Nat /\ oOwned[g] \in Nat /\ oOwned'[g] \in Nat /\ g \in AllSlots
    BY CountTypes DEF AllSlots, Rest, Types
  <2> QED
    BY <2>1, <2>2, <1>3, NumType
<1> QED
  BY <1>1, <1>4, <1>5, <1>6, CallStep DEF Rest

LEMMA DropsStep ==
  ASSUME Base, NEW a \in Users, NEW o \in Hosts, NEW h \in Slots, NEW n \in Nat, ObjectOf(h) = o,
         Drops(o, h, n), oTable.refs[o] + n > 1, Claims(oOwned, oCall[a], h) > 0,
         UNCHANGED oObjects, Rest(a), GainsRefs(a, o, n), KeepsHandles(a, h, -1)
  PROVE  Base'
<1> DEFINE last == oTable.entry[h].refs = 1
<1>1. /\ Sound(oTable)' /\ oTable'.name = oTable.name
      /\ oTable'.refs = [oTable.refs EXCEPT ![o] = oTable.refs[o] + n - Num(last)]
      /\ oTable'.entry = [oTable.entry EXCEPT ![h] =
                           [object |-> IF last THEN none ELSE o, refs |-> oTable.entry[h].refs
                             - 1]]
  BY DEF Drops
<1>2. /\ oTable.refs \in [Hosts -> Nat] /\ oTable.entry \in [AllSlots -> Entries]
           /\ h \in AllSlots
      /\ \A p \in Hosts : Mine(oCall[a], p) \in Nat /\ Mine(oCall'[a], p) \in Nat
      /\ oTable.entry[h].refs \in Nat /\ o # none
  BY CountTypes, MineType, ConstantFacts DEF AllSlots
<1> HIDE DEF last
<1>3. ASSUME NEW g \in AllSlots
      PROVE  /\ oTable'.entry[g].object = IF g = h /\ last THEN none ELSE oTable.entry[g].object
             /\ oTable'.entry[g].refs = oTable.entry[g].refs - (IF g = h THEN 1 ELSE 0)
  <2>1. oTable'.entry[g] = IF g = h THEN [object |-> IF last THEN none ELSE o,
                                          refs |-> oTable.entry[h].refs - 1]
                           ELSE oTable.entry[g]
    BY <1>1, <1>2
  <2>2. oTable.entry[g].refs \in Nat
    BY CountTypes
  <2> QED
    BY <2>1, <2>2 DEF ObjectOf
<1>4. ObjectKinds'
  <2>1. \A g \in HostSlots : ObjectOf(g)' = ObjectOf(g)
    BY <1>3, ConstantFacts DEF ObjectOf, AllSlots
  <2> QED
    BY <1>1, <2>1 DEF Base, ObjectKinds
<1>5. oTable.entry[h].refs >= oOwned[h] + Num(HasHandle(oCall[a], h)) /\ oTable.entry[h].refs >= 1
  <2>1. oTable.entry[h].refs >= oOwned[h] + Num(HasHandle(oCall[a], h)) /\ oOwned[h] \in Nat
    BY HoldFacts
  <2> QED
    BY <2>1, <1>2, NumType DEF Claims
<1>6. KeepsOthers(a)
  <2>1. ASSUME NEW g \in Slots, oTable.entry[g].refs > oOwned[g] + Num(HasHandle(oCall[a], g))
        PROVE  ObjectOf(g)' = ObjectOf(g)
    <3>1. ~(g = h /\ last)
      BY <2>1, <1>2, NumType, CountTypes DEF last, Claims
    <3> QED
      BY <3>1, <1>3 DEF ObjectOf, AllSlots
  <2> QED
    BY <2>1 DEF KeepsOthers
<1>7. MovesRefs(a, h)
  <2>1. SameBut(AllSlots, oTable.entry, oTable'.entry, h)
    BY <1>1, <1>2 DEF SameBut
  <2>2. ASSUME NEW p \in Hosts
        PROVE  Slot(oTable.entry, h, p) = Slot(oTable'.entry, h, p) + (IF p = o THEN Num(last)
                 ELSE 0)
    <3>1. oTable'.entry[h].object = (IF last THEN none ELSE o) /\ oTable.entry[h].object = o
      BY <1>2, <1>3 DEF ObjectOf
    <3>2. /\ Slot(oTable.entry, h, p) = IF p = o THEN 1 ELSE 0
          /\ Slot(oTable'.entry, h, p) = IF p = o /\ ~last THEN 1 ELSE 0
      BY <1>2, <3>1, ConstantFacts DEF Slot, Num
    <3> QED
      BY <3>2 DEF Num
  <2>3. ASSUME NEW p \in Hosts
        PROVE  /\ oTable'.refs[p] + Slot(oTable.entry, h, p) + Mine(oCall[a], p)
                    = oTable.refs[p] + Slot(oTable'.entry, h, p) + Mine(oCall'[a], p)
               /\ p # o => oTable'.refs[p] = oTable.refs[p]
               /\ p = o => oTable'.refs[p] > 0
    <3>1. Mine(oCall'[a], p) = Mine(oCall[a], p) + (IF p = o THEN n ELSE 0)
      BY DEF GainsRefs
    <3>2. oTable'.refs[p] = IF p = o THEN oTable.refs[o] + n - Num(last) ELSE oTable.refs[p]
      BY <1>1, <1>2
    <3>3. Slot(oTable'.entry, h, p) \in Nat /\ Num(last) \in 0..1
      BY NumType DEF Slot
    <3> QED
      BY <3>1, <3>2, <3>3, <2>2, <1>2
  <2>4. \A p \in Hosts : ~Destroying(oCall[a], p) /\ ~Destroying(oCall'[a], p)
    BY DEF GainsRefs, Destroying
  <2>5. \A p \in Hosts : oTable.refs[p] > 0 => oObjects'[p].kind # "none"
    BY DEF Base, Referred
  <2>7. oTable.refs[o] > 0
    BY RefFacts, <1>2
  <2>6. ASSUME NEW p \in Hosts
        PROVE  /\ oTable'.refs[p] > 0 => oObjects'[p].kind # "none"
               /\ oTable.refs[p] = 0 /\ oObjects[p].kind # "none" /\ ~Destroying(oCall[a], p) =>
                    oTable'.refs[p] = 0 /\ oObjects'[p].kind # "none"
               /\ oTable'.refs[p] = 0 /\ oObjects'[p].kind # "none" =>
                    \/ Destroying(oCall'[a], p)
                    \/ oTable.refs[p] = 0 /\ oObjects[p].kind # "none" /\ ~Destroying(oCall[a], p)
    BY <2>3, <2>4, <2>5, <2>7
  <2> QED
    BY <2>1, <2>3, <2>4, <2>6 DEF MovesRefs, GainsRefs
<1>8. MovesHandles(a)
  <2> SUFFICES ASSUME NEW g \in Slots
      PROVE  oTable'.entry[g].refs + oOwned[g] + Num(HasHandle(oCall[a], g))
               = oTable.entry[g].refs + oOwned'[g] + Num(HasHandle(oCall'[a], g))
    BY DEF MovesHandles
  <2>1. oOwned'[g] + Num(HasHandle(oCall'[a], g))
          = oOwned[g] + Num(HasHandle(oCall[a], g)) + (IF g = h THEN -1 ELSE 0)
    BY DEF KeepsHandles, Claims
  <2>2. oTable.entry[g].refs \in Nat /\ oOwned[g] \in Nat /\ oOwned'[g] \in Nat /\ g \in AllSlots
    BY CountTypes DEF AllSlots, Rest, Types
  <2> QED
    BY <2>1, <2>2, <1>3, NumType
<1> QED
  BY <1>1, <1>4, <1>6, <1>7, <1>8, CallStep DEF Rest

-----------------------------------------------------------------------------
\* The steps that choose an object or a handle, with their choice.
CreateStandInWith(a, o, h) ==
  /\ Obj!At(a, "create") /\ Obj!IsNewObject(o) /\ Obj!IsFreeSlot(oTable, Slots, h)
  /\ oTable' = Obj!Retain(Obj!AddHandle(oTable, o, h), o)
  /\ oObjects' = [oObjects EXCEPT ![o] = [kind |-> "standin", body |-> oCall[a].body]]
  /\ oCall' = [oCall EXCEPT ![a] = [@ EXCEPT !.object = o, !.handle = h, !.at = "register"]]
  /\ UNCHANGED <<oByBody, oNative, oHeader, oOwned, oHeld>>
AddCountedHandleWith(a, h) ==
  /\ Obj!At(a, "add") /\ Obj!IsFreeSlot(oTable, Slots, h)
  /\ oTable' = Obj!AddHandle(oTable, oCall[a].object, h)
  /\ oCall' = [oCall EXCEPT ![a] = [@ EXCEPT !.handle = h, !.at = "count"]]
  /\ UNCHANGED <<oObjects, oByBody, oNative, oHeader, oOwned, oHeld>>
ConstructWith(a, o, h) ==
  /\ Obj!At(a, "construct") /\ Obj!IsNewObject(o) /\ Obj!IsFreeSlot(oTable, Slots, h)
  /\ oTable' = Obj!Retain(Obj!AddHandle(oTable, o, h), o)
  /\ oObjects' = [oObjects EXCEPT ![o] = [kind |-> "plain", body |-> none]]
  /\ oCall' = [oCall EXCEPT ![a] = [@ EXCEPT !.outer = o, !.handle = h, !.at = "attributes"]]
  /\ UNCHANGED <<oByBody, oNative, oHeader, oOwned, oHeld>>
FindWrapperWith(a, o, h) ==
  LET b == oCall[a].body
  IN /\ Obj!At(a, "find") /\ b \in Dispatchers /\ oHeader[b].pointers > 0
     /\ Obj!IsNewObject(o) /\ Obj!IsFreeSlot(oTable, HostSlots, h)
     /\ oTable' = Obj!Retain(Obj!AddHandle(oTable, o, h), o)
     /\ oObjects' = [oObjects EXCEPT ![o] = [kind |-> "wrapper", body |-> b]]
     /\ oNative' = [oNative EXCEPT ![b] = h]
     /\ oCall' = [oCall EXCEPT ![a].object = o, ![a].at = "add"]
     /\ UNCHANGED <<oByBody, oHeader, oOwned, oHeld>>

LEMMA WithIs ==
  ASSUME NEW a
  PROVE  /\ Obj!CreateStandIn(a) => \E o \in Hosts, h \in Slots : CreateStandInWith(a, o, h)
         /\ Obj!AddCountedHandle(a) => \E h \in Slots : AddCountedHandleWith(a, h)
         /\ Obj!Construct(a) => \E o \in Hosts, h \in Slots : ConstructWith(a, o, h)
<1>1. Obj!CreateStandIn(a) => \E o \in Hosts, h \in Slots : CreateStandInWith(a, o, h)
  BY Zenon DEF Obj!CreateStandIn, CreateStandInWith
<1>2. Obj!AddCountedHandle(a) => \E h \in Slots : AddCountedHandleWith(a, h)
  BY Zenon DEF Obj!AddCountedHandle, AddCountedHandleWith
<1>3. Obj!Construct(a) => \E o \in Hosts, h \in Slots : ConstructWith(a, o, h)
  BY Zenon DEF Obj!Construct, Obj!NoOne, ConstructWith
<1> QED
  BY <1>1, <1>2, <1>3

LEMMA FindWrapperIs ==
  ASSUME NEW a, Obj!FindWrapper(a)
  PROVE  \/ oNative[oCall[a].body] # -1 /\ BodyOf(oNative[oCall[a].body]) = oCall[a].body
         \/ \E o \in Hosts, h \in HostSlots : FindWrapperWith(a, o, h)
  BY CountedBodyIs DEF Obj!FindWrapper, FindWrapperWith

\* A free slot has no object.
LEMMA FreeSlotIs ==
  ASSUME NEW S, NEW h, Obj!IsFreeSlot(oTable, S, h)
  PROVE  ObjectOf(h) = none
  BY DEF Obj!IsFreeSlot, ObjectOf

LEMMA CreateStandInDoes ==
  ASSUME Base, NEW a \in oSetting.threads, NEW o \in Hosts, NEW h \in Slots,
         CreateStandInWith(a, o, h), UNCHANGED oSetting
  PROVE  /\ Calling(a, "create") /\ Moved(a)
         /\ Fields(oCall'[a], "register", oCall[a].op, oCall[a].body, h, o, oCall[a].outer,
              oCall[a].name, oCall[a].bias, oCall[a].derefs)
         /\ Obj!IsNewObject(o) /\ ObjectOf(h) = none /\ oCall[a].body \in Bodies
         /\ Adds(o, h, 2)
         /\ oObjects' = [oObjects EXCEPT ![o] = [kind |-> "standin", body |-> oCall[a].body]]
         /\ UNCHANGED <<oByBody, oNative, oHeader, oOwned, oHeld>>
<1> DEFINE c == oCall[a]
           d == [c EXCEPT !.object = o, !.handle = h, !.at = "register"]
<1>1. /\ Calling(a, "create") /\ c \in CallRec /\ Has(c) /\ oCall \in [Users -> CallRec]
      /\ c.at = "create" /\ a \in Users
  BY UserIs DEF CreateStandInWith, Obj!At, Calling, Base, Types
<1>2. ObjectOf(h) = none
  BY <1>1, FreeSlotIs DEF CreateStandInWith
<1>3. c.body \in Bodies
  BY <1>1, <1>2 DEF Has, Opening, CallRec
<1>4. oCall' = [oCall EXCEPT ![a] = d]
  BY <1>1, <1>2, <1>3 DEF CreateStandInWith, Obj!At, Obj!Goto, CallRec
<1>5. Fields(d, "register", c.op, c.body, h, o, c.outer, c.name, c.bias, c.derefs)
  BY <1>1, <1>2, <1>3 DEF Fields, CallRec
<1>6. d \in CallRec
  BY <1>1, <1>2, <1>3, IdleType, FieldTypes, PlaceTypes, ConstantFacts
<1> HIDE DEF d
<1>7. oCall'[a] = d /\ Moved(a)
  BY <1>1, <1>4, <1>6 DEF Moved, SameBut
<1>8. Obj!IsNewObject(o) /\ ObjectOf(h) = none /\ oCall[a].body \in Bodies
  BY <1>1, <1>2, <1>3 DEF CreateStandInWith
<1>9. Adds(o, h, 2)
  <2>1. oTable' = Obj!Retain(Obj!AddHandle(oTable, o, h), o) /\ h \in AllSlots
    BY <1>1, <1>2, <1>3 DEF CreateStandInWith, AllSlots
  <2> QED
    BY <1>1, <1>2, <1>3, <2>1, AddsRetained
<1>10. oObjects' = [oObjects EXCEPT ![o] = [kind |-> "standin", body |-> oCall[a].body]]
  BY <1>1, <1>2, <1>3 DEF CreateStandInWith, Obj!At
<1>11. UNCHANGED <<oByBody, oNative, oHeader, oOwned, oHeld>>
  BY <1>1, <1>2, <1>3 DEF CreateStandInWith, Obj!At
<1> QED
  BY <1>1, <1>5, <1>7, <1>8, <1>9, <1>10, <1>11

LEMMA AddCountedHandleDoes ==
  ASSUME Base, NEW a \in oSetting.threads, NEW h \in Slots, AddCountedHandleWith(a, h),
           UNCHANGED oSetting
  PROVE  /\ Calling(a, "add") /\ Moved(a)
         /\ Fields(oCall'[a], "count", oCall[a].op, oCall[a].body, h, oCall[a].object,
              oCall[a].outer, oCall[a].name, oCall[a].bias, oCall[a].derefs)
         /\ ObjectOf(h) = none /\ oCall[a].object \in Hosts
         /\ Adds(oCall[a].object, h, 1)
         /\ UNCHANGED <<oObjects, oByBody, oNative, oHeader, oOwned, oHeld>>
<1> DEFINE c == oCall[a]
           d == [c EXCEPT !.handle = h, !.at = "count"]
<1>1. /\ Calling(a, "add") /\ c \in CallRec /\ Has(c) /\ oCall \in [Users -> CallRec]
      /\ c.at = "add" /\ a \in Users
  BY UserIs DEF AddCountedHandleWith, Obj!At, Calling, Base, Types
<1>2. ObjectOf(h) = none
  BY <1>1, FreeSlotIs DEF AddCountedHandleWith
<1>3. c.object \in Hosts
  BY <1>1, <1>2 DEF Has, CallRec
<1>4. oCall' = [oCall EXCEPT ![a] = d]
  BY <1>1, <1>2, <1>3 DEF AddCountedHandleWith, Obj!At, Obj!Goto, CallRec
<1>5. Fields(d, "count", c.op, c.body, h, c.object, c.outer, c.name, c.bias, c.derefs)
  BY <1>1, <1>2, <1>3 DEF Fields, CallRec
<1>6. d \in CallRec
  BY <1>1, <1>2, <1>3, IdleType, FieldTypes, PlaceTypes, ConstantFacts
<1> HIDE DEF d
<1>7. oCall'[a] = d /\ Moved(a)
  BY <1>1, <1>4, <1>6 DEF Moved, SameBut
<1>8. ObjectOf(h) = none /\ oCall[a].object \in Hosts
  BY <1>1, <1>2, <1>3
<1>9. Adds(oCall[a].object, h, 1)
  <2>1. oTable' = Obj!AddHandle(oTable, oCall[a].object, h) /\ h \in AllSlots
    BY <1>1, <1>2, <1>3 DEF AddCountedHandleWith, AllSlots
  <2> QED
    BY <1>1, <1>2, <1>3, <2>1, AddsHandle
<1>10. UNCHANGED <<oObjects, oByBody, oNative, oHeader, oOwned, oHeld>>
  BY <1>1, <1>2, <1>3 DEF AddCountedHandleWith, Obj!At
<1> QED
  BY <1>1, <1>5, <1>7, <1>8, <1>9, <1>10

LEMMA ConstructDoes ==
  ASSUME Base, NEW a \in oSetting.threads, NEW o \in Hosts, NEW h \in Slots,
         ConstructWith(a, o, h), UNCHANGED oSetting
  PROVE  /\ Calling(a, "construct") /\ Moved(a)
         /\ Fields(oCall'[a], "attributes", oCall[a].op, oCall[a].body, h, oCall[a].object, o,
              oCall[a].name, oCall[a].bias, oCall[a].derefs)
         /\ Obj!IsNewObject(o) /\ ObjectOf(h) = none
         /\ Adds(o, h, 2)
         /\ oObjects' = [oObjects EXCEPT ![o] = [kind |-> "plain", body |-> none]]
         /\ UNCHANGED <<oByBody, oNative, oHeader, oOwned, oHeld>>
<1> DEFINE c == oCall[a]
           d == [c EXCEPT !.outer = o, !.handle = h, !.at = "attributes"]
<1>1. /\ Calling(a, "construct") /\ c \in CallRec /\ Has(c) /\ oCall \in [Users -> CallRec]
      /\ c.at = "construct" /\ a \in Users
  BY UserIs DEF ConstructWith, Obj!At, Calling, Base, Types
<1>2. ObjectOf(h) = none
  BY <1>1, FreeSlotIs DEF ConstructWith
<1>3. oCall' = [oCall EXCEPT ![a] = d]
  BY <1>1, <1>2 DEF ConstructWith, Obj!At, Obj!Goto, CallRec
<1>4. Fields(d, "attributes", c.op, c.body, h, c.object, o, c.name, c.bias, c.derefs)
  BY <1>1, <1>2 DEF Fields, CallRec
<1>5. d \in CallRec
  BY <1>1, <1>2, IdleType, FieldTypes, PlaceTypes, ConstantFacts
<1> HIDE DEF d
<1>6. oCall'[a] = d /\ Moved(a)
  BY <1>1, <1>3, <1>5 DEF Moved, SameBut
<1>7. Obj!IsNewObject(o) /\ ObjectOf(h) = none
  BY <1>1, <1>2 DEF ConstructWith
<1>8. Adds(o, h, 2)
  <2>1. oTable' = Obj!Retain(Obj!AddHandle(oTable, o, h), o) /\ h \in AllSlots
    BY <1>1, <1>2 DEF ConstructWith, AllSlots
  <2> QED
    BY <1>1, <1>2, <2>1, AddsRetained
<1>9. oObjects' = [oObjects EXCEPT ![o] = [kind |-> "plain", body |-> none]]
  BY <1>1, <1>2 DEF ConstructWith, Obj!At
<1>10. UNCHANGED <<oByBody, oNative, oHeader, oOwned, oHeld>>
  BY <1>1, <1>2 DEF ConstructWith, Obj!At
<1> QED
  BY <1>1, <1>4, <1>6, <1>7, <1>8, <1>9, <1>10

LEMMA FindWrapperNewDoes ==
  ASSUME Base, NEW a \in oSetting.threads, NEW o \in Hosts, NEW h \in HostSlots,
         FindWrapperWith(a, o, h), UNCHANGED oSetting
  PROVE  /\ Calling(a, "find") /\ Moved(a)
         /\ Fields(oCall'[a], "add", oCall[a].op, oCall[a].body, oCall[a].handle, o,
              oCall[a].outer, oCall[a].name, oCall[a].bias, oCall[a].derefs)
         /\ oCall[a].body \in Dispatchers /\ oCall[a].body \in Bodies
              /\ oHeader[oCall[a].body].pointers > 0
         /\ Obj!IsNewObject(o) /\ ObjectOf(h) = none
         /\ Adds(o, h, 2)
         /\ oObjects' = [oObjects EXCEPT ![o] = [kind |-> "wrapper", body |-> oCall[a].body]]
         /\ oNative' = [oNative EXCEPT ![oCall[a].body] = h]
         /\ UNCHANGED <<oByBody, oHeader, oOwned, oHeld>>
<1> DEFINE c == oCall[a]
           d == [c EXCEPT !.object = o, !.at = "add"]
<1>1. /\ Calling(a, "find") /\ c \in CallRec /\ Has(c) /\ oCall \in [Users -> CallRec]
      /\ c.at = "find" /\ a \in Users
  BY UserIs DEF FindWrapperWith, Obj!At, Calling, Base, Types
<1>2. ObjectOf(h) = none
  BY <1>1, FreeSlotIs DEF FindWrapperWith
<1>3. c.body \in Bodies
  BY <1>1, <1>2, ConstantFacts DEF FindWrapperWith
<1>4. oCall' = [oCall EXCEPT ![a] = d]
  BY <1>1, <1>2, <1>3 DEF FindWrapperWith, Obj!At, Obj!Goto, CallRec
<1>5. Fields(d, "add", c.op, c.body, c.handle, o, c.outer, c.name, c.bias, c.derefs)
  BY <1>1, <1>2, <1>3 DEF Fields, CallRec
<1>6. d \in CallRec
  BY <1>1, <1>2, <1>3, IdleType, FieldTypes, PlaceTypes, ConstantFacts
<1> HIDE DEF d
<1>7. oCall'[a] = d /\ Moved(a)
  BY <1>1, <1>4, <1>6 DEF Moved, SameBut
<1>8. oCall[a].body \in Dispatchers /\ oCall[a].body \in Bodies
        /\ oHeader[oCall[a].body].pointers > 0
  BY <1>1, <1>2, <1>3 DEF FindWrapperWith
<1>9. Obj!IsNewObject(o) /\ ObjectOf(h) = none
  BY <1>1, <1>2, <1>3 DEF FindWrapperWith
<1>10. Adds(o, h, 2)
  <2>1. oTable' = Obj!Retain(Obj!AddHandle(oTable, o, h), o) /\ h \in AllSlots
    BY <1>1, <1>2, <1>3 DEF FindWrapperWith, AllSlots
  <2> QED
    BY <1>1, <1>2, <1>3, <2>1, AddsRetained
<1>11. oObjects' = [oObjects EXCEPT ![o] = [kind |-> "wrapper", body |-> oCall[a].body]]
  BY <1>1, <1>2, <1>3 DEF FindWrapperWith, Obj!At
<1>12. oNative' = [oNative EXCEPT ![oCall[a].body] = h]
  BY <1>1, <1>2, <1>3 DEF FindWrapperWith, Obj!At
<1>13. UNCHANGED <<oByBody, oHeader, oOwned, oHeld>>
  BY <1>1, <1>2, <1>3 DEF FindWrapperWith, Obj!At
<1> QED
  BY <1>1, <1>5, <1>7, <1>8, <1>9, <1>10, <1>11, <1>12, <1>13

LEMMA CountInsertDoes ==
  ASSUME Base, NEW a \in oSetting.threads, Obj!Count(a), UNCHANGED oSetting,
         oCall[a].op = "insert"
  PROVE  /\ Calling(a, "count") /\ Moved(a)
         /\ Fields(oCall'[a],
                   IF oCall[a].name # none THEN "attributes" ELSE "return", oCall[a].op,
                     oCall[a].body, oCall[a].handle, none, oCall[a].object, oCall[a].name,
                     oCall[a].bias, 0)
         /\ oCall[a].body \in Bodies /\ oCall[a].object \in Hosts
         /\ Becomes(oCall[a].body, oHeader[oCall[a].body].pointers + oCall[a].bias,
                    oHeader[oCall[a].body].handles + 1, oHeader[oCall[a].body].contained,
                    oHeader[oCall[a].body].state)
         /\ UNCHANGED <<oTable, oObjects, oByBody, oNative, oOwned, oHeld>>
<1> DEFINE c == oCall[a]
           d == [c EXCEPT !.object = none, !.outer = c.object, !.derefs = 0,
                      !.at = IF c.name # none THEN "attributes" ELSE "return"]
<1>1. /\ Calling(a, "count") /\ c \in CallRec /\ Has(c) /\ oCall \in [Users -> CallRec]
      /\ c.at = "count" /\ a \in Users
  BY UserIs DEF Obj!Count, Obj!At, Calling, Base, Types
<1>2. c.body \in Bodies /\ c.object \in Hosts /\ c.bias \in Nat
  BY <1>1, ConstantFacts DEF Has, Opening, CallRec
<1>3. oHeader[c.body].pointers + c.bias \in Int
  BY <1>1, <1>2, HeaderIs DEF HeaderRec
<1>4. oCall' = [oCall EXCEPT ![a] = d]
  BY <1>1, <1>2, <1>3 DEF Obj!Count, Obj!At, Obj!Goto, CallRec
<1>5. Fields(d,
                   IF c.name # none THEN "attributes" ELSE "return", c.op, c.body, c.handle, none,
                     c.object, c.name, c.bias, 0)
  BY <1>1, <1>2, <1>3 DEF Fields, CallRec
<1>6. d \in CallRec
  BY <1>1, <1>2, <1>3, IdleType, FieldTypes, PlaceTypes, ConstantFacts
<1> HIDE DEF d
<1>7. oCall'[a] = d /\ Moved(a)
  BY <1>1, <1>4, <1>6 DEF Moved, SameBut
<1>8. oCall[a].body \in Bodies /\ oCall[a].object \in Hosts
  BY <1>1, <1>2, <1>3
<1>9. Becomes(oCall[a].body, oHeader[oCall[a].body].pointers + oCall[a].bias,
                 oHeader[oCall[a].body].handles + 1, oHeader[oCall[a].body].contained,
                 oHeader[oCall[a].body].state)
  <2> DEFINE r == [oHeader[c.body] EXCEPT !.pointers = oHeader[c.body].pointers + c.bias,
                                       !.handles = oHeader[c.body].handles + 1]
  <2>1. oHeader[c.body] \in HeaderRec /\ oHeader \in Headers
    BY <1>1, <1>2, <1>3, HeaderIs
  <2>2. r \in HeaderRec
    BY <2>1, <1>1, <1>2, <1>3, HeaderTypes
  <2>3. /\ r.pointers = oHeader[c.body].pointers + c.bias /\ r.handles = oHeader[c.body].handles
             + 1
        /\ (r.contained <=> oHeader[c.body].contained) /\ r.state = oHeader[c.body].state
    BY <2>1 DEF HeaderRec
  <2>4. oHeader' = [oHeader EXCEPT ![c.body] = r]
    BY <1>1, <1>2, <1>3, <2>1 DEF Obj!Count, Obj!At, Obj!Opened, Headers, HeaderRec
  <2> HIDE DEF r
  <2>5. Becomes(c.body, r.pointers, r.handles, r.contained, r.state)
    BY <1>1, <1>2, <1>3, <2>2, <2>4, BecomesIs
  <2> QED
    BY <2>3, <2>5 DEF Becomes
<1>10. UNCHANGED <<oTable, oObjects, oByBody, oNative, oOwned, oHeld>>
  BY <1>1, <1>2, <1>3 DEF Obj!Count, Obj!At
<1> QED
  BY <1>1, <1>5, <1>7, <1>8, <1>9, <1>10

LEMMA CountOtherDoes ==
  ASSUME Base, NEW a \in oSetting.threads, Obj!Count(a), UNCHANGED oSetting,
         oCall[a].op # "insert"
  PROVE  /\ Calling(a, "count") /\ Moved(a)
         /\ Fields(oCall'[a],
                   IF oCall[a].op = "duplicate" THEN "deref" ELSE "return", oCall[a].op,
                     oCall[a].body, oCall[a].handle, none, oCall[a].outer, oCall[a].name,
                     oCall[a].bias, IF oCall[a].op = "duplicate" THEN 1 ELSE 0)
         /\ oCall[a].body \in Bodies /\ oCall[a].object \in Hosts
              /\ oTable.refs[oCall[a].object] > 1
         /\ Refers(oCall[a].object, -1)
         /\ Becomes(oCall[a].body, oHeader[oCall[a].body].pointers + oCall[a].bias,
                    oHeader[oCall[a].body].handles + 1, oHeader[oCall[a].body].contained,
                    oHeader[oCall[a].body].state)
         /\ UNCHANGED <<oObjects, oByBody, oNative, oOwned, oHeld>>
<1> DEFINE c == oCall[a]
           d == [c EXCEPT !.object = none, !.derefs = IF c.op = "duplicate" THEN 1 ELSE 0,
                      !.at = IF c.op = "duplicate" THEN "deref" ELSE "return"]
<1>1. /\ Calling(a, "count") /\ c \in CallRec /\ Has(c) /\ oCall \in [Users -> CallRec]
      /\ c.at = "count" /\ a \in Users
  BY UserIs DEF Obj!Count, Obj!At, Calling, Base, Types
<1>2. c.body \in Bodies /\ c.object \in Hosts /\ c.bias \in Nat
  BY <1>1, ConstantFacts DEF Has, Opening, CallRec
<1>3. oHeader[c.body].pointers + c.bias \in Int
  BY <1>1, <1>2, HeaderIs DEF HeaderRec
<1>4. oTable.refs[c.object] > 1 /\ oTable.refs[c.object] > 0
  <2>1. c.handle \in AllSlots /\ ObjectOf(c.handle) = c.object
    BY <1>1, <1>2, <1>3 DEF Has, CallRec, AllSlots
  <2>2. oTable.refs[c.object] >= 1 + Mine(c, c.object) /\ oTable.refs[c.object] \in Nat
    BY <1>1, <1>2, <1>3, <2>1, RefFacts
  <2>3. Mine(c, c.object) >= 1
    BY NumType DEF Mine, Num
  <2> QED
    BY <2>2, <2>3, MineType
<1>5. oCall' = [oCall EXCEPT ![a] = d]
  BY <1>1, <1>2, <1>3, <1>4 DEF Obj!Count, Obj!At, Obj!Goto, CallRec
<1>6. Fields(d,
                   IF c.op = "duplicate" THEN "deref" ELSE "return", c.op, c.body, c.handle, none,
                     c.outer, c.name, c.bias, IF c.op = "duplicate" THEN 1 ELSE 0)
  BY <1>1, <1>2, <1>3, <1>4 DEF Fields, CallRec
<1>7. d \in CallRec
  BY <1>1, <1>2, <1>3, <1>4, IdleType, FieldTypes, PlaceTypes, ConstantFacts
<1> HIDE DEF d
<1>8. oCall'[a] = d /\ Moved(a)
  BY <1>1, <1>5, <1>7 DEF Moved, SameBut
<1>9. oCall[a].body \in Bodies /\ oCall[a].object \in Hosts /\ oTable.refs[oCall[a].object] > 1
  BY <1>1, <1>2, <1>3, <1>4
<1>10. Refers(oCall[a].object, -1)
  <2>1. oTable' = Obj!Release(oTable, oCall[a].object)
    BY <1>1, <1>2, <1>3, <1>4 DEF Obj!Count, Obj!At
  <2> QED
    BY <1>1, <1>2, <1>3, <1>4, <2>1, Releases
<1>11. Becomes(oCall[a].body, oHeader[oCall[a].body].pointers + oCall[a].bias,
                 oHeader[oCall[a].body].handles + 1, oHeader[oCall[a].body].contained,
                 oHeader[oCall[a].body].state)
  <2> DEFINE r == [oHeader[c.body] EXCEPT !.pointers = oHeader[c.body].pointers + c.bias,
                                       !.handles = oHeader[c.body].handles + 1]
  <2>1. oHeader[c.body] \in HeaderRec /\ oHeader \in Headers
    BY <1>1, <1>2, <1>3, <1>4, HeaderIs
  <2>2. r \in HeaderRec
    BY <2>1, <1>1, <1>2, <1>3, <1>4, HeaderTypes
  <2>3. /\ r.pointers = oHeader[c.body].pointers + c.bias /\ r.handles = oHeader[c.body].handles
             + 1
        /\ (r.contained <=> oHeader[c.body].contained) /\ r.state = oHeader[c.body].state
    BY <2>1 DEF HeaderRec
  <2>4. oHeader' = [oHeader EXCEPT ![c.body] = r]
    BY <1>1, <1>2, <1>3, <1>4, <2>1 DEF Obj!Count, Obj!At, Obj!Opened, Headers, HeaderRec
  <2> HIDE DEF r
  <2>5. Becomes(c.body, r.pointers, r.handles, r.contained, r.state)
    BY <1>1, <1>2, <1>3, <1>4, <2>2, <2>4, BecomesIs
  <2> QED
    BY <2>3, <2>5 DEF Becomes
<1>12. UNCHANGED <<oObjects, oByBody, oNative, oOwned, oHeld>>
  BY <1>1, <1>2, <1>3, <1>4 DEF Obj!Count, Obj!At
<1> QED
  BY <1>1, <1>6, <1>8, <1>9, <1>10, <1>11, <1>12

LEMMA NameObjectDoes ==
  ASSUME Base, NEW a \in oSetting.threads, Obj!NameObject(a), UNCHANGED oSetting
  PROVE  /\ Calling(a, "attributes") /\ Moved(a)
         /\ Fields(oCall'[a],
                   IF oCall[a].op = "insert" THEN "contain" ELSE "return", oCall[a].op,
                     oCall[a].body, oCall[a].handle, oCall[a].object, oCall[a].outer,
                     oCall[a].name, oCall[a].bias, oCall[a].derefs)
         /\ oCall[a].outer \in Hosts /\ oCall[a].name \in ObjectNames
              /\ oTable.name[oCall[a].outer] = none
         /\ Names(oCall[a].outer, oCall[a].name)
         /\ UNCHANGED <<oObjects, oByBody, oNative, oHeader, oOwned, oHeld>>
<1> DEFINE c == oCall[a]
           d == [c EXCEPT !.at = IF c.op = "insert" THEN "contain" ELSE "return"]
<1>1. /\ Calling(a, "attributes") /\ c \in CallRec /\ Has(c) /\ oCall \in [Users -> CallRec]
      /\ c.at = "attributes" /\ a \in Users
  BY UserIs DEF Obj!NameObject, Obj!At, Calling, Base, Types
<1>2. /\ c.outer \in Hosts /\ c.name \in ObjectNames
      /\ c.handle \in Slots /\ ObjectOf(c.handle) = c.outer
  BY <1>1 DEF Has, CallRec
<1>3. oTable.name[c.outer] = none
  BY <1>1, <1>2 DEF Base, Named, Naming
<1>4. oCall' = [oCall EXCEPT ![a] = d]
  BY <1>1, <1>2, <1>3 DEF Obj!NameObject, Obj!At, Obj!Goto, CallRec
<1>5. Fields(d,
                   IF c.op = "insert" THEN "contain" ELSE "return", c.op, c.body, c.handle,
                     c.object, c.outer, c.name, c.bias, c.derefs)
  BY <1>1, <1>2, <1>3 DEF Fields, CallRec
<1>6. d \in CallRec
  BY <1>1, <1>2, <1>3, IdleType, FieldTypes, PlaceTypes, ConstantFacts
<1> HIDE DEF d
<1>7. oCall'[a] = d /\ Moved(a)
  BY <1>1, <1>4, <1>6 DEF Moved, SameBut
<1>8. oCall[a].outer \in Hosts /\ oCall[a].name \in ObjectNames /\ oTable.name[oCall[a].outer]
        = none
  BY <1>1, <1>2, <1>3
<1>9. Names(oCall[a].outer, oCall[a].name)
  <2>1. oTable' = Obj!SetAttributes(oTable, oCall[a].outer, oCall[a].name)
    BY <1>1, <1>2, <1>3 DEF Obj!NameObject, Obj!At
  <2> QED
    BY <1>1, <1>2, <1>3, <2>1, NamesIs
<1>10. UNCHANGED <<oObjects, oByBody, oNative, oHeader, oOwned, oHeld>>
  BY <1>1, <1>2, <1>3 DEF Obj!NameObject, Obj!At
<1> QED
  BY <1>1, <1>5, <1>7, <1>8, <1>9, <1>10

LEMMA DuplicateDoes ==
  ASSUME Base, NEW a \in oSetting.threads, NEW h \in Slots, Obj!Duplicate(a, h, FALSE),
           UNCHANGED oSetting
  PROVE  /\ Calling(a, "idle") /\ Moved(a)
         /\ Fields(oCall'[a], "find", "duplicate", BodyOf(h), h, none, ObjectOf(h), none, 1, 0)
         /\ BodyOf(h) \in Bodies /\ ObjectOf(h) \in Hosts /\ oOwned[h] > 0
              /\ "duplicate" \in oSetting.ops
         /\ Refers(ObjectOf(h), 1)
         /\ Becomes(BodyOf(h), oHeader[BodyOf(h)].pointers + 1,
                    oHeader[BodyOf(h)].handles, oHeader[BodyOf(h)].contained,
                    oHeader[BodyOf(h)].state)
         /\ UNCHANGED oOwned
         /\ UNCHANGED <<oObjects, oByBody, oNative, oHeld>>
<1> DEFINE c == oCall[a]
           d == [Obj!Idle EXCEPT !.at = "find", !.op = "duplicate", !.body = BodyOf(h),
                              !.outer = ObjectOf(h), !.handle = h, !.bias = 1]
<1>1. /\ Calling(a, "idle") /\ c \in CallRec /\ Has(c) /\ oCall \in [Users -> CallRec]
      /\ c.at = "idle" /\ a \in Users
  BY UserIs DEF Obj!Duplicate, Obj!At, Calling, Base, Types
<1>2. oOwned[h] > 0 /\ BodyOf(h) # none
  BY <1>1, CountedBodyIs DEF Obj!Duplicate
<1>3. ObjectOf(h) \in Hosts
  BY <1>1, <1>2, HoldFacts
<1>4. BodyOf(h) \in Bodies
  BY <1>1, <1>2, <1>3, ConstantFacts DEF BodyOf, Base, Types
<1>5. oCall' = [oCall EXCEPT ![a] = d]
  BY <1>1, <1>2, <1>3, <1>4, CountedBodyIs DEF Obj!Duplicate, Obj!At, Obj!Goto, CallRec
<1>6. Fields(d, "find", "duplicate", BodyOf(h), h, none, ObjectOf(h), none, 1, 0)
  BY <1>1, <1>2, <1>3, <1>4 DEF Fields, CallRec, Obj!Idle
<1>7. d \in CallRec
  BY <1>1, <1>2, <1>3, <1>4, IdleType, FieldTypes, PlaceTypes, ConstantFacts
<1> HIDE DEF d
<1>8. oCall'[a] = d /\ Moved(a)
  BY <1>1, <1>5, <1>7 DEF Moved, SameBut
<1>9. BodyOf(h) \in Bodies /\ ObjectOf(h) \in Hosts /\ oOwned[h] > 0
        /\ "duplicate" \in oSetting.ops
  BY <1>1, <1>2, <1>3, <1>4 DEF Obj!Duplicate
<1>10. Refers(ObjectOf(h), 1)
  <2>1. oTable' = Obj!Retain(oTable, ObjectOf(h))
    BY <1>1, <1>2, <1>3, <1>4, CountedBodyIs DEF Obj!Duplicate
  <2> QED
    BY <1>1, <1>2, <1>3, <1>4, <2>1, Retains
<1>11. Becomes(BodyOf(h), oHeader[BodyOf(h)].pointers + 1,
                 oHeader[BodyOf(h)].handles, oHeader[BodyOf(h)].contained,
                 oHeader[BodyOf(h)].state)
  <2> DEFINE r == [oHeader[BodyOf(h)] EXCEPT !.pointers = oHeader[BodyOf(h)].pointers + 1]
  <2>1. oHeader[BodyOf(h)] \in HeaderRec /\ oHeader \in Headers
    BY <1>1, <1>2, <1>3, <1>4, HeaderIs
  <2>2. r \in HeaderRec
    BY <2>1, <1>1, <1>2, <1>3, <1>4, HeaderTypes
  <2>3. /\ r.pointers = oHeader[BodyOf(h)].pointers + 1 /\ r.handles = oHeader[BodyOf(h)].handles
        /\ (r.contained <=> oHeader[BodyOf(h)].contained) /\ r.state = oHeader[BodyOf(h)].state
    BY <2>1 DEF HeaderRec
  <2>4. oHeader' = [oHeader EXCEPT ![BodyOf(h)] = r]
    BY <1>1, <1>2, <1>3, <1>4, <2>1, CountedBodyIs
       DEF Obj!Duplicate, Obj!Referenced, Headers, HeaderRec
  <2> HIDE DEF r
  <2>5. Becomes(BodyOf(h), r.pointers, r.handles, r.contained, r.state)
    BY <1>1, <1>2, <1>3, <1>4, <2>2, <2>4, BecomesIs
  <2> QED
    BY <2>3, <2>5 DEF Becomes
<1>12. UNCHANGED oOwned
  BY <1>1, <1>2, <1>3, <1>4 DEF Obj!Duplicate, Obj!At
<1>13. UNCHANGED <<oObjects, oByBody, oNative, oHeld>>
  BY <1>1, <1>2, <1>3, <1>4 DEF Obj!Duplicate, Obj!At
<1> QED
  BY <1>1, <1>6, <1>8, <1>9, <1>10, <1>11, <1>12, <1>13

LEMMA ReplaceDoes ==
  ASSUME Base, NEW a \in oSetting.threads, NEW h \in Slots, Obj!Duplicate(a, h, TRUE),
           UNCHANGED oSetting
  PROVE  /\ Calling(a, "idle") /\ Moved(a)
         /\ Fields(oCall'[a], "close", "replace", BodyOf(h), h, none, ObjectOf(h), none, 1, 0)
         /\ BodyOf(h) \in Bodies /\ ObjectOf(h) \in Hosts /\ oOwned[h] > 0
              /\ "replace" \in oSetting.ops
         /\ Refers(ObjectOf(h), 1)
         /\ Becomes(BodyOf(h), oHeader[BodyOf(h)].pointers + 1,
                    oHeader[BodyOf(h)].handles, oHeader[BodyOf(h)].contained,
                    oHeader[BodyOf(h)].state)
         /\ oOwned' = [oOwned EXCEPT ![h] = oOwned[h] - 1]
         /\ UNCHANGED <<oObjects, oByBody, oNative, oHeld>>
<1> DEFINE c == oCall[a]
           d == [Obj!Idle EXCEPT !.at = "close", !.op = "replace", !.body = BodyOf(h),
                              !.outer = ObjectOf(h), !.handle = h, !.bias = 1]
<1>1. /\ Calling(a, "idle") /\ c \in CallRec /\ Has(c) /\ oCall \in [Users -> CallRec]
      /\ c.at = "idle" /\ a \in Users
  BY UserIs DEF Obj!Duplicate, Obj!At, Calling, Base, Types
<1>2. oOwned[h] > 0 /\ BodyOf(h) # none
  BY <1>1, CountedBodyIs DEF Obj!Duplicate
<1>3. ObjectOf(h) \in Hosts
  BY <1>1, <1>2, HoldFacts
<1>4. BodyOf(h) \in Bodies
  BY <1>1, <1>2, <1>3, ConstantFacts DEF BodyOf, Base, Types
<1>5. oCall' = [oCall EXCEPT ![a] = d]
  BY <1>1, <1>2, <1>3, <1>4, CountedBodyIs DEF Obj!Duplicate, Obj!At, Obj!Goto, CallRec
<1>6. Fields(d, "close", "replace", BodyOf(h), h, none, ObjectOf(h), none, 1, 0)
  BY <1>1, <1>2, <1>3, <1>4 DEF Fields, CallRec, Obj!Idle
<1>7. d \in CallRec
  BY <1>1, <1>2, <1>3, <1>4, IdleType, FieldTypes, PlaceTypes, ConstantFacts
<1> HIDE DEF d
<1>8. oCall'[a] = d /\ Moved(a)
  BY <1>1, <1>5, <1>7 DEF Moved, SameBut
<1>9. BodyOf(h) \in Bodies /\ ObjectOf(h) \in Hosts /\ oOwned[h] > 0 /\ "replace" \in oSetting.ops
  BY <1>1, <1>2, <1>3, <1>4 DEF Obj!Duplicate
<1>10. Refers(ObjectOf(h), 1)
  <2>1. oTable' = Obj!Retain(oTable, ObjectOf(h))
    BY <1>1, <1>2, <1>3, <1>4, CountedBodyIs DEF Obj!Duplicate
  <2> QED
    BY <1>1, <1>2, <1>3, <1>4, <2>1, Retains
<1>11. Becomes(BodyOf(h), oHeader[BodyOf(h)].pointers + 1,
                 oHeader[BodyOf(h)].handles, oHeader[BodyOf(h)].contained,
                 oHeader[BodyOf(h)].state)
  <2> DEFINE r == [oHeader[BodyOf(h)] EXCEPT !.pointers = oHeader[BodyOf(h)].pointers + 1]
  <2>1. oHeader[BodyOf(h)] \in HeaderRec /\ oHeader \in Headers
    BY <1>1, <1>2, <1>3, <1>4, HeaderIs
  <2>2. r \in HeaderRec
    BY <2>1, <1>1, <1>2, <1>3, <1>4, HeaderTypes
  <2>3. /\ r.pointers = oHeader[BodyOf(h)].pointers + 1 /\ r.handles = oHeader[BodyOf(h)].handles
        /\ (r.contained <=> oHeader[BodyOf(h)].contained) /\ r.state = oHeader[BodyOf(h)].state
    BY <2>1 DEF HeaderRec
  <2>4. oHeader' = [oHeader EXCEPT ![BodyOf(h)] = r]
    BY <1>1, <1>2, <1>3, <1>4, <2>1, CountedBodyIs
       DEF Obj!Duplicate, Obj!Referenced, Headers, HeaderRec
  <2> HIDE DEF r
  <2>5. Becomes(BodyOf(h), r.pointers, r.handles, r.contained, r.state)
    BY <1>1, <1>2, <1>3, <1>4, <2>2, <2>4, BecomesIs
  <2> QED
    BY <2>3, <2>5 DEF Becomes
<1>12. oOwned' = [oOwned EXCEPT ![h] = oOwned[h] - 1]
  BY <1>1, <1>2, <1>3, <1>4 DEF Obj!Duplicate, Obj!At
<1>13. UNCHANGED <<oObjects, oByBody, oNative, oHeld>>
  BY <1>1, <1>2, <1>3, <1>4 DEF Obj!Duplicate, Obj!At
<1> QED
  BY <1>1, <1>6, <1>8, <1>9, <1>10, <1>11, <1>12, <1>13

\* What a lookup by name opens as it is.
OpensNamed(c) ==
  IF c.op = "open_named" THEN BodyOf(c.handle) = none
  ELSE c.bias = 1 /\ oObjects[ObjectOf(c.handle)].kind # "standin"

LEMMA NamedDoes ==
  ASSUME Base, NEW a \in oSetting.threads, Obj!Named(a), UNCHANGED oSetting
  PROVE  /\ Calling(a, "named") /\ Moved(a)
         /\ Fields(oCall'[a], IF OpensNamed(oCall[a]) THEN "return" ELSE "unname", oCall[a].op,
                   BodyOf(oCall[a].handle), oCall[a].handle, oCall[a].object,
                     ObjectOf(oCall[a].handle), oCall[a].name, oCall[a].bias, oCall[a].derefs)
         /\ oCall[a].handle \in Slots /\ ObjectOf(oCall[a].handle) \in Hosts
         /\ BodyOf(oCall[a].handle) \in Bodies \cup {none}
         /\ Refers(ObjectOf(oCall[a].handle), 1)
         /\ UNCHANGED <<oObjects, oByBody, oNative, oHeader, oOwned, oHeld>>
<1> DEFINE c == oCall[a]
           d == [c EXCEPT !.at = IF OpensNamed(c) THEN "return" ELSE "unname",
                      !.outer = ObjectOf(c.handle), !.body = BodyOf(c.handle)]
<1>1. /\ Calling(a, "named") /\ c \in CallRec /\ Has(c) /\ oCall \in [Users -> CallRec]
      /\ c.at = "named" /\ a \in Users
  BY UserIs DEF Obj!Named, Obj!At, Calling, Base, Types
<1>2. c.handle \in Slots /\ HasHandle(c, c.handle)
  BY <1>1 DEF Has, CallRec, HasHandle
<1>3. ObjectOf(c.handle) \in Hosts /\ ObjectOf(c.handle) # none
  BY <1>1, <1>2, HoldFacts, ConstantFacts
<1>4. BodyOf(c.handle) \in Bodies \cup {none}
  BY <1>1, <1>2, <1>3 DEF BodyOf, Base, Types
<1>5. oCall' = [oCall EXCEPT ![a] = d]
  BY <1>1, <1>2, <1>3, <1>4, CountedBodyIs DEF Obj!Named, Obj!At, OpensNamed, CallRec
<1>6. Fields(d, IF OpensNamed(c) THEN "return" ELSE "unname", c.op,
                   BodyOf(c.handle), c.handle, c.object, ObjectOf(c.handle), c.name, c.bias,
                     c.derefs)
  BY <1>1, <1>2, <1>3, <1>4 DEF Fields, CallRec
<1>7. (IF OpensNamed(c) THEN "return" ELSE "unname") \in Obj!Places
  BY <1>1, <1>2, <1>3, <1>4, PlaceTypes
<1>8. d \in CallRec
  BY <1>1, <1>2, <1>3, <1>4, <1>7, IdleType, FieldTypes, PlaceTypes, ConstantFacts
<1> HIDE DEF d
<1>9. oCall'[a] = d /\ Moved(a)
  BY <1>1, <1>5, <1>8 DEF Moved, SameBut
<1>10. oCall[a].handle \in Slots /\ ObjectOf(oCall[a].handle) \in Hosts
  BY <1>1, <1>2, <1>3, <1>4, <1>7
<1>11. BodyOf(oCall[a].handle) \in Bodies \cup {none}
  BY <1>1, <1>2, <1>3, <1>4, <1>7
<1>12. Refers(ObjectOf(oCall[a].handle), 1)
  <2>1. oTable' = Obj!Retain(oTable, ObjectOf(oCall[a].handle))
    BY <1>1, <1>2, <1>3, <1>4, <1>7, CountedBodyIs, ConstantFacts DEF Obj!Named, Obj!At
  <2> QED
    BY <1>1, <1>2, <1>3, <1>4, <1>7, <2>1, Retains
<1>13. UNCHANGED <<oObjects, oByBody, oNative, oHeader, oOwned, oHeld>>
  BY <1>1, <1>2, <1>3, <1>4, <1>7 DEF Obj!Named, Obj!At
<1> QED
  BY <1>1, <1>6, <1>9, <1>10, <1>11, <1>12, <1>13

LEMMA UnnameDoes ==
  ASSUME Base, NEW a \in oSetting.threads, Obj!Unname(a), UNCHANGED oSetting
  PROVE  /\ Calling(a, "unname") /\ Moved(a)
         /\ Fields(oCall'[a],
                   IF oCall[a].op = "open_named" THEN "find" ELSE "return", oCall[a].op,
                     oCall[a].body, -1, oCall[a].object, oCall[a].outer, oCall[a].name,
                     oCall[a].bias, oCall[a].derefs)
         /\ oCall[a].handle \in Slots /\ oCall[a].outer \in Hosts /\ ObjectOf(oCall[a].handle)
              = oCall[a].outer
         /\ Drops(oCall[a].outer, oCall[a].handle, 0)
         /\ UNCHANGED <<oObjects, oByBody, oNative, oHeader, oOwned, oHeld>>
<1> DEFINE c == oCall[a]
           d == [c EXCEPT !.handle = -1, !.at = IF c.op = "open_named" THEN "find" ELSE "return"]
<1>1. /\ Calling(a, "unname") /\ c \in CallRec /\ Has(c) /\ oCall \in [Users -> CallRec]
      /\ c.at = "unname" /\ a \in Users
  BY UserIs DEF Obj!Unname, Obj!At, Calling, Base, Types
<1>2. c.handle \in Slots /\ c.outer \in Hosts /\ ObjectOf(c.handle) = c.outer /\ c.outer # none
  BY <1>1 DEF Has, CallRec
<1>3. oCall' = [oCall EXCEPT ![a] = d]
  BY <1>1, <1>2 DEF Obj!Unname, Obj!At, Obj!Goto, CallRec
<1>4. Fields(d,
                   IF c.op = "open_named" THEN "find" ELSE "return", c.op, c.body, -1, c.object,
                     c.outer, c.name, c.bias, c.derefs)
  BY <1>1, <1>2 DEF Fields, CallRec
<1>5. d \in CallRec
  BY <1>1, <1>2, IdleType, FieldTypes, PlaceTypes, ConstantFacts
<1> HIDE DEF d
<1>6. oCall'[a] = d /\ Moved(a)
  BY <1>1, <1>3, <1>5 DEF Moved, SameBut
<1>7. oCall[a].handle \in Slots /\ oCall[a].outer \in Hosts /\ ObjectOf(oCall[a].handle)
        = oCall[a].outer
  BY <1>1, <1>2
<1>8. Drops(oCall[a].outer, oCall[a].handle, 0)
  <2>1. oTable' = Obj!ReleaseHandle(oTable, oCall[a].handle)
    BY <1>1, <1>2 DEF Obj!Unname, Obj!At
  <2> QED
    BY <1>1, <1>2, <2>1, DropsIs
<1>9. UNCHANGED <<oObjects, oByBody, oNative, oHeader, oOwned, oHeld>>
  BY <1>1, <1>2 DEF Obj!Unname, Obj!At
<1> QED
  BY <1>1, <1>4, <1>6, <1>7, <1>8, <1>9

LEMMA NtCloseDoes ==
  ASSUME Base, NEW a \in oSetting.threads, NEW h \in Slots, Obj!NtClose(a, h), UNCHANGED oSetting
  PROVE  /\ Calling(a, "idle") /\ Moved(a)
         /\ Fields(oCall'[a],
                   IF BodyOf(h) # none /\ oTable.entry[h].refs = 1 THEN "close" ELSE "return",
                   "close", BodyOf(h), -1, none, ObjectOf(h), none, 0, 0)
         /\ ObjectOf(h) \in Hosts /\ oOwned[h] > 0 /\ BodyOf(h) \in Bodies \cup {none}
         /\ Drops(ObjectOf(h), h, 1)
         /\ oOwned' = [oOwned EXCEPT ![h] = oOwned[h] - 1]
         /\ UNCHANGED <<oObjects, oByBody, oNative, oHeader, oHeld>>
<1> DEFINE c == oCall[a]
           d == [Obj!Idle EXCEPT
                  !.at = IF BodyOf(h) # none /\ oTable.entry[h].refs = 1 THEN "close"
                    ELSE "return",
                  !.op = "close", !.body = BodyOf(h), !.outer = ObjectOf(h)]
<1>1. /\ Calling(a, "idle") /\ c \in CallRec /\ Has(c) /\ oCall \in [Users -> CallRec]
      /\ c.at = "idle" /\ a \in Users
  BY UserIs DEF Obj!NtClose, Obj!At, Calling, Base, Types
<1>2. oOwned[h] > 0
  BY <1>1 DEF Obj!NtClose
<1>3. ObjectOf(h) \in Hosts /\ ObjectOf(h) # none
  BY <1>1, <1>2, HoldFacts, ConstantFacts
<1>4. BodyOf(h) \in Bodies \cup {none}
  BY <1>1, <1>2, <1>3 DEF BodyOf, Base, Types
<1>5. oTable' = Obj!Retain(Obj!ReleaseHandle(oTable, h), ObjectOf(h))
  BY <1>1, <1>2, <1>3, <1>4, CountedBodyIs DEF Obj!NtClose
<1>6. Drops(ObjectOf(h), h, 1)
  BY <1>1, <1>2, <1>3, <1>4, <1>5, DropsRetained
<1>7. Obj!LookupObject(oTable', h) # ObjectOf(h) <=> oTable.entry[h].refs = 1
  <2>1. oTable'.entry[h].object = IF oTable.entry[h].refs = 1 THEN none ELSE ObjectOf(h)
    BY <1>1, <1>2, <1>3, <1>4, <1>5, <1>6, CountTypes DEF Drops, AllSlots
  <2> QED
    BY <1>1, <1>2, <1>3, <1>4, <1>5, <1>6, <2>1 DEF Obj!LookupObject
<1>8. oCall' = [oCall EXCEPT ![a] = d]
  <2> DEFINE t == Obj!Retain(Obj!ReleaseHandle(oTable, h), ObjectOf(h))
  <2>1. oTable' = t
    BY <1>1, <1>2, <1>3, <1>4, <1>5, <1>6, <1>7
  <2>2. oCall' = [oCall EXCEPT ![a] =
           [Obj!Idle EXCEPT !.at = IF BodyOf(h) # none /\ Obj!LookupObject(t, h) # ObjectOf(h)
                                   THEN "close" ELSE "return",
                            !.op = "close", !.body = BodyOf(h), !.outer = ObjectOf(h)]]
    BY <1>1, <1>2, <1>3, <1>4, <1>5, <1>6, <1>7, CountedBodyIs DEF Obj!NtClose
  <2> HIDE DEF t
  <2>3. Obj!LookupObject(t, h) # ObjectOf(h) <=> oTable.entry[h].refs = 1
    BY <1>1, <1>2, <1>3, <1>4, <1>5, <1>6, <1>7, <2>1
  <2> QED
    BY <2>2, <2>3
<1>9. Fields(d,
                   IF BodyOf(h) # none /\ oTable.entry[h].refs = 1 THEN "close" ELSE "return",
                   "close", BodyOf(h), -1, none, ObjectOf(h), none, 0, 0)
  BY <1>1, <1>2, <1>3, <1>4, <1>5, <1>6, <1>7 DEF Fields, CallRec, Obj!Idle
<1>10. (IF BodyOf(h) # none /\ oTable.entry[h].refs = 1 THEN "close" ELSE "return") \in Obj!Places
  BY <1>1, <1>2, <1>3, <1>4, <1>5, <1>6, <1>7, PlaceTypes
<1>11. d \in CallRec
  BY <1>1, <1>2, <1>3, <1>4, <1>5, <1>6, <1>7, <1>10, IdleType, FieldTypes, PlaceTypes,
     ConstantFacts
<1> HIDE DEF d
<1>12. oCall'[a] = d /\ Moved(a)
  BY <1>1, <1>8, <1>11 DEF Moved, SameBut
<1>13. ObjectOf(h) \in Hosts /\ oOwned[h] > 0 /\ BodyOf(h) \in Bodies \cup {none}
  BY <1>1, <1>2, <1>3, <1>4, <1>5, <1>6, <1>7, <1>10
<1>14. Drops(ObjectOf(h), h, 1)
  BY <1>1, <1>2, <1>3, <1>4, <1>5, <1>6, <1>7, <1>10
<1>15. oOwned' = [oOwned EXCEPT ![h] = oOwned[h] - 1]
  BY <1>1, <1>2, <1>3, <1>4, <1>5, <1>6, <1>7, <1>10 DEF Obj!NtClose, Obj!At
<1>16. UNCHANGED <<oObjects, oByBody, oNative, oHeader, oHeld>>
  BY <1>1, <1>2, <1>3, <1>4, <1>5, <1>6, <1>7, <1>10 DEF Obj!NtClose, Obj!At
<1> QED
  BY <1>1, <1>9, <1>12, <1>13, <1>14, <1>15, <1>16

LEMMA LookupFoundDoes ==
  ASSUME Base, NEW a \in oSetting.threads, NEW op \in ByName, NEW n \in ObjectNames,
         NEW bias \in 0..1, Obj!LookupByName(a, op, n, bias), UNCHANGED oSetting,
         oTable.names[n] # -1, Careful
  PROVE  /\ Calling(a, "idle") /\ Moved(a)
         /\ Fields(oCall'[a], "named", op, none, oTable.names[n], none, none, n, bias, 0)
         /\ oTable.names[n] \in Slots /\ ObjectOf(oTable.names[n]) \in Hosts
              /\ op \in oSetting.ops
         /\ HoldsMore(ObjectOf(oTable.names[n]), oTable.names[n])
         /\ UNCHANGED <<oObjects, oByBody, oNative, oHeader, oOwned, oHeld>>
<1> DEFINE c == oCall[a]
           d == [Obj!Idle EXCEPT !.at = "named", !.op = op, !.name = n,
                              !.handle = oTable.names[n], !.bias = bias]
<1>1. /\ Calling(a, "idle") /\ c \in CallRec /\ Has(c) /\ oCall \in [Users -> CallRec]
      /\ c.at = "idle" /\ a \in Users
  BY UserIs DEF Obj!LookupByName, Obj!At, Calling, Base, Types
<1>2. \A x \in HostSlots : ObjectOf(x) # ObjectOf(oTable.names[n])
  <2>1. \A o \in Hosts : oObjects[o].kind # "wrapper"
    <3>1. oSetting \in ObjectSettings /\ oSetting.ops \cap ByName # {}
      BY <1>1, UserIs DEF Obj!LookupByName
    <3>2. oSetting.bodies = {} \/ oSetting.bodies \cap Dispatchers = {}
      BY <3>1 DEF Careful
    <3> QED
      BY <3>2, ConstantFacts DEF Base, ObjectKinds, Within
  <2>2. \A x \in HostSlots : ObjectOf(x) = none
    BY <2>1, CountTypes DEF Base, ObjectKinds, ObjectOf, AllSlots
  <2>3. ObjectOf(oTable.names[n]) # none
    BY DEF Base, Sound, ObjectOf
  <2> QED
    BY <2>2, <2>3
<1>3. oTable.names[n] \in Slots /\ ObjectOf(oTable.names[n]) \in Hosts
      /\ HoldsMore(ObjectOf(oTable.names[n]), oTable.names[n])
  <2>1. oTable' = Obj!GetObjectByName(oTable, n)
    BY DEF Obj!LookupByName
  <2> QED
    BY <1>1, <1>2, <2>1, NameIsOldest
<1>4. op \in CallOps /\ bias \in 0..(MaxHeld + 1)
  BY <1>1, <1>2, <1>3, ConstantFacts DEF CallOps, ByName
<1>5. oCall' = [oCall EXCEPT ![a] = d]
  BY <1>1, <1>2, <1>3, <1>4 DEF Obj!LookupByName, Obj!At, Obj!Goto, CallRec
<1>6. Fields(d, "named", op, none, oTable.names[n], none, none, n, bias, 0)
  BY <1>1, <1>2, <1>3, <1>4 DEF Fields, CallRec, Obj!Idle
<1>7. d \in CallRec
  BY <1>1, <1>2, <1>3, <1>4, IdleType, FieldTypes, PlaceTypes, ConstantFacts
<1> HIDE DEF d
<1>8. oCall'[a] = d /\ Moved(a)
  BY <1>1, <1>5, <1>7 DEF Moved, SameBut
<1>9. oTable.names[n] \in Slots /\ ObjectOf(oTable.names[n]) \in Hosts /\ op \in oSetting.ops
  BY <1>1, <1>2, <1>3, <1>4 DEF Obj!LookupByName
<1>10. HoldsMore(ObjectOf(oTable.names[n]), oTable.names[n])
  BY <1>1, <1>2, <1>3, <1>4
<1>11. UNCHANGED <<oObjects, oByBody, oNative, oHeader, oOwned, oHeld>>
  BY <1>1, <1>2, <1>3, <1>4 DEF Obj!LookupByName, Obj!At
<1> QED
  BY <1>1, <1>6, <1>8, <1>9, <1>10, <1>11

LEMMA LookupNoneDoes ==
  ASSUME Base, NEW a \in oSetting.threads, NEW op \in ByName, NEW n \in ObjectNames,
         NEW bias \in 0..1, Obj!LookupByName(a, op, n, bias), UNCHANGED oSetting,
         oTable.names[n] = -1
  PROVE  /\ Calling(a, "idle") /\ Moved(a)
         /\ Fields(oCall'[a], "construct", op, none, -1, none, none, n, 0, 0)
         /\ op = "create_named" /\ op \in oSetting.ops
         /\ UNCHANGED <<oTable, oObjects, oByBody, oNative, oHeader, oOwned, oHeld>>
<1> DEFINE c == oCall[a]
           d == [Obj!Idle EXCEPT !.at = "construct", !.op = op, !.name = n]
<1>1. /\ Calling(a, "idle") /\ c \in CallRec /\ Has(c) /\ oCall \in [Users -> CallRec]
      /\ c.at = "idle" /\ a \in Users
  BY UserIs DEF Obj!LookupByName, Obj!At, Calling, Base, Types
<1>2. op \in CallOps
  BY <1>1 DEF CallOps, ByName
<1>3. oCall' = [oCall EXCEPT ![a] = d]
  BY <1>1, <1>2 DEF Obj!LookupByName, Obj!At, Obj!Goto, CallRec
<1>4. Fields(d, "construct", op, none, -1, none, none, n, 0, 0)
  BY <1>1, <1>2 DEF Fields, CallRec, Obj!Idle
<1>5. d \in CallRec
  BY <1>1, <1>2, IdleType, FieldTypes, PlaceTypes, ConstantFacts
<1> HIDE DEF d
<1>6. oCall'[a] = d /\ Moved(a)
  BY <1>1, <1>3, <1>5 DEF Moved, SameBut
<1>7. op = "create_named" /\ op \in oSetting.ops
  BY <1>1, <1>2 DEF Obj!LookupByName
<1>8. UNCHANGED <<oTable, oObjects, oByBody, oNative, oHeader, oOwned, oHeld>>
  BY <1>1, <1>2 DEF Obj!LookupByName, Obj!At
<1> QED
  BY <1>1, <1>4, <1>6, <1>7, <1>8

\* What a return gives back to the title.
Back(c) == IF c.op = "insert" THEN c.bias ELSE IF c.op = "open" THEN 1 ELSE 0
Gives(c) ==
  /\ oOwned' = IF c.handle = -1 THEN oOwned
       ELSE [oOwned EXCEPT ![c.handle] = oOwned[c.handle] + 1]
  /\ oHeld' = IF c.body = none THEN oHeld ELSE [oHeld EXCEPT ![c.body] = oHeld[c.body] + Back(c)]

LEMMA ReturnQuietDoes ==
  ASSUME Base, NEW a \in oSetting.threads, Obj!Return(a), UNCHANGED oSetting,
         oCall[a].outer = none
  PROVE  /\ Calling(a, "return") /\ Moved(a)
         /\ Fields(oCall'[a], "idle", "none", none, -1, none, none, none, 0, 0)
         /\ Gives(oCall[a])
         /\ UNCHANGED oTable
         /\ UNCHANGED <<oObjects, oByBody, oNative, oHeader>>
<1> DEFINE c == oCall[a]
           d == Obj!Idle
<1>1. /\ Calling(a, "return") /\ c \in CallRec /\ Has(c) /\ oCall \in [Users -> CallRec]
      /\ c.at = "return" /\ a \in Users
  BY UserIs DEF Obj!Return, Obj!At, Calling, Base, Types
<1>2. oCall' = [oCall EXCEPT ![a] = d]
  BY <1>1 DEF Obj!Return, Obj!At, Obj!Goto, CallRec
<1>3. Fields(d, "idle", "none", none, -1, none, none, none, 0, 0)
  BY <1>1 DEF Fields, CallRec, Obj!Idle
<1>4. d \in CallRec
  BY <1>1, IdleType, FieldTypes, PlaceTypes, ConstantFacts
<1> HIDE DEF d
<1>5. oCall'[a] = d /\ Moved(a)
  BY <1>1, <1>2, <1>4 DEF Moved, SameBut
<1>6. Gives(oCall[a])
  BY <1>1 DEF Obj!Return, Gives, Back
<1>7. UNCHANGED oTable
  BY <1>1 DEF Obj!Return, Obj!At
<1>8. UNCHANGED <<oObjects, oByBody, oNative, oHeader>>
  BY <1>1 DEF Obj!Return, Obj!At
<1> QED
  BY <1>1, <1>3, <1>5, <1>6, <1>7, <1>8

LEMMA ReturnMoreDoes ==
  ASSUME Base, NEW a \in oSetting.threads, Obj!Return(a), UNCHANGED oSetting,
         oCall[a].outer # none, oTable.refs[oCall[a].outer] # 1
  PROVE  /\ Calling(a, "return") /\ Moved(a)
         /\ Fields(oCall'[a], "idle", "none", none, -1, none, none, none, 0, 0)
         /\ oCall[a].outer \in Hosts
         /\ Gives(oCall[a])
         /\ Refers(oCall[a].outer, -1)
         /\ UNCHANGED <<oObjects, oByBody, oNative, oHeader>>
<1> DEFINE c == oCall[a]
           d == Obj!Idle
<1>1. /\ Calling(a, "return") /\ c \in CallRec /\ Has(c) /\ oCall \in [Users -> CallRec]
      /\ c.at = "return" /\ a \in Users
  BY UserIs DEF Obj!Return, Obj!At, Calling, Base, Types
<1>2. c.outer \in Hosts
  BY <1>1 DEF CallRec
<1>3. oTable.refs[c.outer] > 0 /\ oTable.refs[c.outer] \in Nat
  <2>1. oTable.refs[c.outer] >= Mine(c, c.outer) /\ oTable.refs[c.outer] \in Nat
    BY <1>1, <1>2, RefFacts
  <2>2. Mine(c, c.outer) >= 1
    BY <1>1, <1>2, NumType DEF Mine, Num
  <2> QED
    BY <2>1, <2>2, MineType
<1>4. oTable' = Obj!Release(oTable, c.outer)
  BY <1>1, <1>2, <1>3 DEF Obj!Return
<1>5. Refers(c.outer, -1)
  BY <1>1, <1>2, <1>3, <1>4, Releases
<1>6. Obj!Release(oTable, c.outer).refs[c.outer] = oTable.refs[c.outer] - 1
  <2>1. oTable'.refs[c.outer] = oTable.refs[c.outer] + (-1)
    BY <1>1, <1>2, <1>3, <1>4, <1>5, CountTypes DEF Refers
  <2> QED
    BY <1>1, <1>2, <1>3, <1>4, <1>5, <2>1
<1>7. oCall' = [oCall EXCEPT ![a] = d]
  <2> DEFINE t == Obj!Release(oTable, c.outer)
  <2>1. oCall' = [oCall EXCEPT ![a] = IF t.refs[c.outer] = 0
                                     THEN [Obj!Idle EXCEPT !.at = "destroy", !.outer = c.outer]
                                     ELSE Obj!Idle]
    BY <1>1, <1>2, <1>3, <1>4, <1>5, <1>6 DEF Obj!Return
  <2>2. t.refs[c.outer] = oTable.refs[c.outer] - 1
    BY <1>1, <1>2, <1>3, <1>4, <1>5, <1>6
  <2> HIDE DEF t
  <2> QED
    BY <1>1, <1>2, <1>3, <1>4, <1>5, <1>6, <2>1, <2>2
<1>8. Fields(d, "idle", "none", none, -1, none, none, none, 0, 0)
  BY <1>1, <1>2, <1>3, <1>4, <1>5, <1>6 DEF Fields, CallRec, Obj!Idle
<1>9. d \in CallRec
  BY <1>1, <1>2, <1>3, <1>4, <1>5, <1>6, IdleType, FieldTypes, PlaceTypes, ConstantFacts
<1> HIDE DEF d
<1>10. oCall'[a] = d /\ Moved(a)
  BY <1>1, <1>7, <1>9 DEF Moved, SameBut
<1>11. oCall[a].outer \in Hosts
  BY <1>1, <1>2, <1>3, <1>4, <1>5, <1>6
<1>12. Gives(oCall[a])
  BY <1>1, <1>2, <1>3, <1>4, <1>5, <1>6 DEF Obj!Return, Gives, Back
<1>13. Refers(oCall[a].outer, -1)
  BY <1>1, <1>2, <1>3, <1>4, <1>5, <1>6
<1>14. UNCHANGED <<oObjects, oByBody, oNative, oHeader>>
  BY <1>1, <1>2, <1>3, <1>4, <1>5, <1>6 DEF Obj!Return, Obj!At
<1> QED
  BY <1>1, <1>8, <1>10, <1>11, <1>12, <1>13, <1>14

LEMMA ReturnLastDoes ==
  ASSUME Base, NEW a \in oSetting.threads, Obj!Return(a), UNCHANGED oSetting,
         oCall[a].outer # none, oTable.refs[oCall[a].outer] = 1
  PROVE  /\ Calling(a, "return") /\ Moved(a)
         /\ Fields(oCall'[a], "destroy", "none", none, -1, none, oCall[a].outer, none, 0, 0)
         /\ oCall[a].outer \in Hosts
         /\ Gives(oCall[a])
         /\ Refers(oCall[a].outer, -1)
         /\ UNCHANGED <<oObjects, oByBody, oNative, oHeader>>
<1> DEFINE c == oCall[a]
           d == [Obj!Idle EXCEPT !.at = "destroy", !.outer = c.outer]
<1>1. /\ Calling(a, "return") /\ c \in CallRec /\ Has(c) /\ oCall \in [Users -> CallRec]
      /\ c.at = "return" /\ a \in Users
  BY UserIs DEF Obj!Return, Obj!At, Calling, Base, Types
<1>2. c.outer \in Hosts
  BY <1>1 DEF CallRec
<1>3. oTable.refs[c.outer] > 0 /\ oTable.refs[c.outer] \in Nat
  <2>1. oTable.refs[c.outer] >= Mine(c, c.outer) /\ oTable.refs[c.outer] \in Nat
    BY <1>1, <1>2, RefFacts
  <2>2. Mine(c, c.outer) >= 1
    BY <1>1, <1>2, NumType DEF Mine, Num
  <2> QED
    BY <2>1, <2>2, MineType
<1>4. oTable' = Obj!Release(oTable, c.outer)
  BY <1>1, <1>2, <1>3 DEF Obj!Return
<1>5. Refers(c.outer, -1)
  BY <1>1, <1>2, <1>3, <1>4, Releases
<1>6. Obj!Release(oTable, c.outer).refs[c.outer] = oTable.refs[c.outer] - 1
  <2>1. oTable'.refs[c.outer] = oTable.refs[c.outer] + (-1)
    BY <1>1, <1>2, <1>3, <1>4, <1>5, CountTypes DEF Refers
  <2> QED
    BY <1>1, <1>2, <1>3, <1>4, <1>5, <2>1
<1>7. oCall' = [oCall EXCEPT ![a] = d]
  <2> DEFINE t == Obj!Release(oTable, c.outer)
  <2>1. oCall' = [oCall EXCEPT ![a] = IF t.refs[c.outer] = 0
                                     THEN [Obj!Idle EXCEPT !.at = "destroy", !.outer = c.outer]
                                     ELSE Obj!Idle]
    BY <1>1, <1>2, <1>3, <1>4, <1>5, <1>6 DEF Obj!Return
  <2>2. t.refs[c.outer] = oTable.refs[c.outer] - 1
    BY <1>1, <1>2, <1>3, <1>4, <1>5, <1>6
  <2> HIDE DEF t
  <2> QED
    BY <1>1, <1>2, <1>3, <1>4, <1>5, <1>6, <2>1, <2>2
<1>8. Fields(d, "destroy", "none", none, -1, none, c.outer, none, 0, 0)
  BY <1>1, <1>2, <1>3, <1>4, <1>5, <1>6 DEF Fields, CallRec, Obj!Idle
<1>9. d \in CallRec
  BY <1>1, <1>2, <1>3, <1>4, <1>5, <1>6, IdleType, FieldTypes, PlaceTypes, ConstantFacts
<1> HIDE DEF d
<1>10. oCall'[a] = d /\ Moved(a)
  BY <1>1, <1>7, <1>9 DEF Moved, SameBut
<1>11. oCall[a].outer \in Hosts
  BY <1>1, <1>2, <1>3, <1>4, <1>5, <1>6
<1>12. Gives(oCall[a])
  BY <1>1, <1>2, <1>3, <1>4, <1>5, <1>6 DEF Obj!Return, Gives, Back
<1>13. Refers(oCall[a].outer, -1)
  BY <1>1, <1>2, <1>3, <1>4, <1>5, <1>6
<1>14. UNCHANGED <<oObjects, oByBody, oNative, oHeader>>
  BY <1>1, <1>2, <1>3, <1>4, <1>5, <1>6 DEF Obj!Return, Obj!At
<1> QED
  BY <1>1, <1>8, <1>10, <1>11, <1>12, <1>13, <1>14

LEMMA DestroyDoes ==
  ASSUME Base, NEW a \in oSetting.threads, Obj!Destroy(a), UNCHANGED oSetting
  PROVE  /\ Calling(a, "destroy") /\ Moved(a)
         /\ Fields(oCall'[a], "idle", "none", none, -1, none, none, none, 0, 0)
         /\ oCall[a].outer \in Hosts
         /\ Sound(oTable)' /\ oTable'.name = [oTable.name EXCEPT ![oCall[a].outer] = none]
         /\ oTable'.entry = oTable.entry /\ oTable'.refs = oTable.refs
              /\ oTable'.names = oTable.names
         /\ oObjects' = [oObjects EXCEPT ![oCall[a].outer] = [kind |-> "none", body |-> none]]
         /\ oByBody' = IF oObjects[oCall[a].outer].body # none
              /\ oByBody[oObjects[oCall[a].outer].body] = oCall[a].outer
                     THEN [oByBody EXCEPT ![oObjects[oCall[a].outer].body] = none] ELSE oByBody
         /\ UNCHANGED <<oNative, oHeader, oOwned, oHeld>>
<1> DEFINE c == oCall[a]
           d == Obj!Idle
<1>1. /\ Calling(a, "destroy") /\ c \in CallRec /\ Has(c) /\ oCall \in [Users -> CallRec]
      /\ c.at = "destroy" /\ a \in Users
  BY UserIs DEF Obj!Destroy, Obj!At, Calling, Base, Types
<1>2. c.outer \in Hosts
  BY <1>1 DEF Has, CallRec
<1>3. \A h \in AllSlots : oTable.entry[h].object # c.outer
  <2>1. oTable.refs[c.outer] = 0
    BY <1>1, <1>2 DEF Base, Destroys
  <2> QED
    BY <1>1, <1>2, <2>1, RefFacts DEF ObjectOf
<1>4. /\ Sound(oTable)' /\ oTable'.name = [oTable.name EXCEPT ![c.outer] = none]
      /\ oTable'.entry = oTable.entry /\ oTable'.refs = oTable.refs
           /\ oTable'.names = oTable.names
  <2>1. PICK u : u = oTable'
    OBVIOUS
  <2>2. u = [oTable EXCEPT !.name[c.outer] = none] /\ Sound(oTable)
    BY <2>1 DEF Obj!Destroy, Base
  <2>3. Sound(u) /\ ObjectUnnamed(oTable, c.outer, u)
    BY <1>2, <1>3, <2>2, UnnameSound DEF HasNoHandle
  <2>4. Sound(oTable)'
    BY <2>1, <2>3
  <2> QED
    BY <2>1, <2>3, <2>4 DEF ObjectUnnamed
<1>5. oCall' = [oCall EXCEPT ![a] = d]
  BY <1>1, <1>2, <1>3, <1>4 DEF Obj!Destroy, Obj!At, Obj!Goto, CallRec
<1>6. Fields(d, "idle", "none", none, -1, none, none, none, 0, 0)
  BY <1>1, <1>2, <1>3, <1>4 DEF Fields, CallRec, Obj!Idle
<1>7. d \in CallRec
  BY <1>1, <1>2, <1>3, <1>4, IdleType, FieldTypes, PlaceTypes, ConstantFacts
<1> HIDE DEF d
<1>8. oCall'[a] = d /\ Moved(a)
  BY <1>1, <1>5, <1>7 DEF Moved, SameBut
<1>9. oCall[a].outer \in Hosts
  BY <1>1, <1>2, <1>3, <1>4
<1>10. Sound(oTable)' /\ oTable'.name = [oTable.name EXCEPT ![oCall[a].outer] = none]
  BY <1>1, <1>2, <1>3, <1>4
<1>11. oTable'.entry = oTable.entry /\ oTable'.refs = oTable.refs /\ oTable'.names = oTable.names
  BY <1>1, <1>2, <1>3, <1>4
<1>12. oObjects' = [oObjects EXCEPT ![oCall[a].outer] = [kind |-> "none", body |-> none]]
  BY <1>1, <1>2, <1>3, <1>4 DEF Obj!Destroy, Obj!NoOne
<1>13. oByBody' = IF oObjects[oCall[a].outer].body # none
         /\ oByBody[oObjects[oCall[a].outer].body] = oCall[a].outer
                  THEN [oByBody EXCEPT ![oObjects[oCall[a].outer].body] = none] ELSE oByBody
  BY <1>1, <1>2, <1>3, <1>4 DEF Obj!Destroy, Obj!At
<1>14. UNCHANGED <<oNative, oHeader, oOwned, oHeld>>
  BY <1>1, <1>2, <1>3, <1>4 DEF Obj!Destroy, Obj!At
<1> QED
  BY <1>1, <1>6, <1>8, <1>9, <1>10, <1>11, <1>12, <1>13, <1>14

-----------------------------------------------------------------------------
\* What the steps of a call that change the table keep.
LEMMA NamesStay ==
  ASSUME Base, NEW a \in Users, UNCHANGED oObjects, oTable'.name = oTable.name,
         \A o \in Hosts : ~Naming(oCall'[a], o),
         \A b \in Bodies : Inserts(oCall'[a], b) /\ oCall'[a].at # "contain" =>
           Inserts(oCall[a], b) /\ oCall[a].at # "contain"
  PROVE  KeepsNames(a)
<1>1. \A o \in Hosts : oObjects[o].body \in Bodies \cup {none}
  BY DEF Base, Types
<1>2. \A o \in Hosts : Inserts(oCall[a], oObjects[o].body) /\ oCall[a].at # "contain"
                       /\ oObjects[o].body # none => oTable.name[o] = none
  BY DEF Base, Named
<1> QED
  BY <1>1, <1>2 DEF KeepsNames

LEMMA PastGrows ==
  ASSUME Base, NEW a \in Users, UNCHANGED oHeader,
         oCall'[a].at \in Opening => oCall[a].at \in Opening /\ oCall'[a].body = oCall[a].body,
         \A b \in Bodies : Inserts(oCall'[a], b) => Inserts(oCall[a], b),
         \A p \in Hosts : \/ oObjects'[p] = oObjects[p]
                          \/ oObjects'[p].body = none
                          \/ oObjects'[p].body = oCall[a].body /\ oCall[a].at \in Opening
  PROVE  KeepsPast(a)
<1>1. \A b \in Bodies : Past(b)' <=> Past(b)
  BY DEF Past
<1>2. \A b : Past(b) => oHeader'[b].state \notin {"none", "new"}
  BY DEF Past
<1>3. oCall[a].at \in Opening => Past(oCall[a].body)
  BY DEF Base, Inserted
<1>4. \A p \in Hosts : oObjects[p].body # none => Past(oObjects[p].body)
  BY DEF Base, Inserted
<1>5. (oCall[a].at \in Opening => Past(oCall[a].body))'
  BY <1>2, <1>3 DEF Past
<1>6. \A p \in Hosts : (oObjects[p].body # none => Past(oObjects[p].body))'
  BY <1>2, <1>3, <1>4 DEF Past
<1>7. \A b \in Bodies : Inserts(oCall[a], b) => Past(b)
  BY DEF Base, Inserted
<1> QED
  BY <1>1, <1>5, <1>6, <1>7 DEF KeepsPast

\* A new object of the body a call is about has no name, and nobody names it.
LEMMA NewNames ==
  ASSUME Base, NEW a \in Users, NEW o \in Hosts, Obj!IsNewObject(o), oTable'.name = oTable.name,
         \A p \in Hosts : p # o => oObjects'[p] = oObjects[p],
         \A p \in Hosts : Naming(oCall'[a], p) => p = o,
         \A b \in Bodies : Inserts(oCall'[a], b) /\ oCall'[a].at # "contain" =>
           Inserts(oCall[a], b) /\ oCall[a].at # "contain"
  PROVE  KeepsNames(a)
<1>1. oTable.name[o] = none /\ \A x \in Users : ~Naming(oCall[x], o)
  BY NewObjectIs DEF Naming
<1>2. \A p \in Hosts : oObjects[p].body \in Bodies \cup {none}
  BY DEF Base, Types
<1>3. \A p \in Hosts : Inserts(oCall[a], oObjects[p].body) /\ oCall[a].at # "contain"
                       /\ oObjects[p].body # none => oTable.name[p] = none
  BY DEF Base, Named
<1> QED
  BY <1>1, <1>2, <1>3 DEF KeepsNames

\* What a call that returns gives the title.
LEMMA GivesTypes ==
  ASSUME Base, NEW a \in Users, oCall[a].at = "return", Gives(oCall[a])
  PROVE  /\ oOwned' \in [Slots -> Nat] /\ oHeld' \in [Bodies -> Nat]
         /\ \A x \in Slots : oOwned'[x] = oOwned[x] + (IF x = oCall[a].handle THEN 1 ELSE 0)
         /\ \A b \in Bodies : oHeld'[b] > 0 => b \in oSetting.bodies
<1> DEFINE c == oCall[a]
<1>1. c \in CallRec /\ oOwned \in [Slots -> Nat] /\ oHeld \in [Bodies -> Nat]
  BY DEF Base, Types
<1>2. c.handle \in Slots \cup {-1} /\ c.body \in Bodies \cup {none} /\ c.bias \in Nat
  BY <1>1, ConstantFacts DEF CallRec
<1>3. Back(c) \in Nat
  BY <1>2 DEF Back
<1>4. c.body \in oSetting.bodies \cup {none} /\ \A b \in Bodies : oHeld[b] > 0
        => b \in oSetting.bodies
  BY DEF Base, Within
<1> HIDE DEF c
<1>5. Gives(c)
  BY DEF c
<1>6. /\ oOwned' \in [Slots -> Nat]
      /\ \A x \in Slots : oOwned'[x] = oOwned[x] + (IF x = c.handle THEN 1 ELSE 0)
  <2>1. CASE c.handle = -1
    <3>1. oOwned' = oOwned
      BY <2>1, <1>5 DEF Gives
    <3>2. \A x \in Slots : x # c.handle /\ oOwned[x] \in Nat
      BY <2>1, <1>1, ConstantFacts
    <3> QED
      BY <3>1, <3>2, <1>1
  <2>2. CASE c.handle # -1
    <3>1. oOwned' = [oOwned EXCEPT ![c.handle] = oOwned[c.handle] + 1] /\ c.handle \in Slots
      BY <2>2, <1>2, <1>5 DEF Gives
    <3>2. oOwned[c.handle] \in Nat
      BY <3>1, <1>1
    <3>3. oOwned' \in [Slots -> Nat]
      BY <3>1, <3>2, <1>1
    <3>4. \A x \in Slots : oOwned'[x] = oOwned[x] + (IF x = c.handle THEN 1 ELSE 0)
      BY <3>1, <3>2, <1>1
    <3> QED
      BY <3>3, <3>4
  <2> QED
    BY <2>1, <2>2
<1>7. oHeld' \in [Bodies -> Nat] /\ \A b \in Bodies : oHeld'[b] > 0 => b \in oSetting.bodies
  <2>1. CASE c.body = none
    BY <2>1, <1>1, <1>4, <1>5 DEF Gives
  <2>2. CASE c.body # none
    <3>1. oHeld' = [oHeld EXCEPT ![c.body] = oHeld[c.body] + Back(c)] /\ c.body \in Bodies
      BY <2>2, <1>2, <1>5 DEF Gives
    <3>2. oHeld[c.body] + Back(c) \in Nat
      BY <3>1, <1>1, <1>3
    <3>3. oHeld' \in [Bodies -> Nat]
      BY <3>1, <3>2, <1>1
    <3>4. \A b \in Bodies : oHeld'[b] > 0 => b \in oSetting.bodies
      BY <3>1, <1>1, <1>2, <1>4, ConstantFacts
    <3> QED
      BY <3>3, <3>4
  <2> QED
    BY <2>1, <2>2
<1> QED
  BY <1>6, <1>7 DEF c

\* A call that has returned.
LEMMA IdleIs ==
  ASSUME NEW c \in CallRec, Fields(c, "idle", "none", none, -1, none, none, none, 0, 0)
  PROVE  c = Obj!Idle
  BY DEF CallRec, Fields, Obj!Idle

LEMMA WithinStep ==
  ASSUME Base, NEW a \in oSetting.threads, a \in Users, Moved(a), UNCHANGED oSetting,
         oCall'[a].op \in ByName \cup {"replace"} => oCall'[a].op \in oSetting.ops,
         oCall'[a].body \in oSetting.bodies \cup {none},
         \A o \in Hosts : oObjects'[o].body \in oSetting.bodies \cup {none},
         \A b \in Bodies : oHeader'[b].state # "none" \/ oHeld'[b] > 0 => b \in oSetting.bodies
  PROVE  Within'
  BY DEF Base, Within, Moved, SameBut

LEMMA FindStandInKnownKeeps ==
  ASSUME Base, NEW a \in oSetting.threads, Obj!FindStandIn(a), UNCHANGED oSetting,
         oByBody[oCall[a].body] # none, oTable.refs[oByBody[oCall[a].body]] > 0
  PROVE  Base'
<1>1. /\ Calling(a, "find") /\ Moved(a)
      /\ Fields(oCall'[a], "add", oCall[a].op, oCall[a].body, oCall[a].handle,
           oByBody[oCall[a].body], oCall[a].outer, oCall[a].name, oCall[a].bias, oCall[a].derefs)
      /\ oByBody[oCall[a].body] \in Hosts /\ oCall[a].body \in Bodies
      /\ Refers(oByBody[oCall[a].body], 1)
      /\ UNCHANGED <<oObjects, oByBody, oNative, oHeader, oOwned, oHeld>>
  BY FindStandInKnownDoes
<1>2. a \in Users /\ oCall[a] \in CallRec /\ Has(oCall[a]) /\ oSetting.threads \subseteq Users
  BY <1>1, UserIs DEF Calling
<1>20. oObjects[oByBody[oCall[a].body]] \in [kind : {"standin", "wrapper"},
         body : {oCall[a].body}]
  BY <1>1, <1>2 DEF Base, Mapped, Types
<1>21. oTable.refs[oByBody[oCall[a].body]] \in Nat
  BY <1>1, <1>2, <1>20, CountTypes
<1>3. Types'
  BY <1>1, <1>2, <1>20, <1>21 DEF Base, Types, Moved, CallRec
<1>4. Within'
  BY <1>1, <1>2, <1>20, <1>21, ConstantFacts
     DEF Base, Within, Moved, SameBut, Fields, Calling, ByName, Types
<1>5. Mapped'
  BY <1>1, <1>2, <1>20, <1>21 DEF Base, Mapped
<1>6. Has(oCall[a])'
  BY <1>1, <1>2, <1>20, <1>21, ConstantFacts
     DEF Has, Opening, Closing, ByName, Fields, Calling, ObjectOf, Obj!Idle
<1>7. KeepsPast(a)
  <2>1. \A x \in Bodies : Past(x) => Past(x)'
    BY <1>1, <1>2, <1>20, <1>21 DEF Past
  <2>2. \A x \in Bodies : Inserts(oCall'[a], x) => Inserts(oCall[a], x)
    BY <1>1, <1>2, <1>20, <1>21 DEF Inserts, Fields, Calling, Opening, Has
  <2>3. oCall'[a].at \in Opening => /\ oCall'[a].body \in Bodies
                                    /\ oHeader[oCall'[a].body].state \notin {"none", "new"}
    BY <1>1, <1>2, <1>20, <1>21 DEF Fields, Opening, Calling, CallRec, Has, Base, Inserted, Past,
       BodyOf
  <2> QED
    BY <1>1, <1>2, <1>20, <1>21, <2>1, <2>2, <2>3, PastStays
<1>8. KeepsNames(a)
  <2>1. oTable'.name = oTable.name /\ UNCHANGED oObjects
    BY <1>1, <1>2, <1>20, <1>21 DEF Refers, Adds, HoldsMore, Drops
  <2>2. \A p \in Hosts : ~Naming(oCall'[a], p)
    BY <1>1, <1>2, <1>20, <1>21 DEF Naming, Fields
  <2>3. \A b \in Bodies : Inserts(oCall'[a], b) /\ oCall'[a].at # "contain" =>
          Inserts(oCall[a], b) /\ oCall[a].at # "contain"
    BY <1>1, <1>2, <1>20, <1>21 DEF Inserts, Fields, Calling, Opening, Has
  <2> QED
    BY <1>1, <1>2, <1>20, <1>21, <2>1, <2>2, <2>3, NamesStay
<1>9. GainsRefs(a, oByBody[oCall[a].body], 1)
  BY <1>1, <1>2, <1>20, <1>21, ConstantFacts
     DEF GainsRefs, Mine, Num, Fields, Calling, Has, Obj!Idle
<1>10. KeepsHandles(a, -1, 0)
  <2> SUFFICES ASSUME NEW x \in Slots
      PROVE  oOwned'[x] + Num(HasHandle(oCall'[a], x))
               = oOwned[x] + Num(HasHandle(oCall[a], x)) + (IF x = -1 THEN 0 ELSE 0)
    BY DEF KeepsHandles, Claims
  <2>1. HasHandle(oCall'[a], x) <=> FALSE
    BY <1>1, <1>2, <1>20, <1>21, ConstantFacts DEF HasHandle, Fields, Calling, Has, Obj!Idle
  <2>2. HasHandle(oCall[a], x) <=> FALSE
    BY <1>1, <1>2, <1>20, <1>21, ConstantFacts DEF HasHandle, Fields, Calling, Has, Obj!Idle
  <2>3. oOwned[x] \in Nat /\ oOwned'[x] = oOwned[x]
    BY <1>1, <1>2, <1>20, <1>21 DEF Base, Types, Gives
  <2> QED
    BY <1>1, <1>2, <1>20, <1>21, <2>1, <2>2, <2>3, ConstantFacts DEF Num
<1>11. Rest(a)
  BY <1>1, <1>3, <1>4, <1>5, <1>6, <1>7, <1>8 DEF Rest
<1> QED
  BY <1>1, <1>2, <1>20, <1>21, <1>9, <1>10, <1>11, RefersStep

LEMMA FindWrapperKnownKeeps ==
  ASSUME Base, NEW a \in oSetting.threads, Obj!FindWrapper(a), UNCHANGED oSetting,
         oNative[oCall[a].body] # -1, BodyOf(oNative[oCall[a].body]) = oCall[a].body
  PROVE  Base'
<1>1. /\ Calling(a, "find") /\ Moved(a)
      /\ Fields(oCall'[a], "add", oCall[a].op, oCall[a].body, oCall[a].handle,
           ObjectOf(oNative[oCall[a].body]), oCall[a].outer, oCall[a].name, oCall[a].bias,
           oCall[a].derefs)
      /\ oCall[a].body \in Dispatchers /\ oCall[a].body \in Bodies
           /\ oHeader[oCall[a].body].pointers > 0
      /\ ObjectOf(oNative[oCall[a].body]) \in Hosts /\ oNative[oCall[a].body] \in HostSlots
      /\ Refers(ObjectOf(oNative[oCall[a].body]), 1)
      /\ UNCHANGED <<oObjects, oByBody, oNative, oHeader, oOwned, oHeld>>
  BY FindWrapperKnownDoes
<1>2. a \in Users /\ oCall[a] \in CallRec /\ Has(oCall[a]) /\ oSetting.threads \subseteq Users
  BY <1>1, UserIs DEF Calling
<1>20. oObjects[ObjectOf(oNative[oCall[a].body])] \in [kind : {"standin", "wrapper"},
         body : {oCall[a].body}]
  <2>1. oObjects[ObjectOf(oNative[oCall[a].body])].body = oCall[a].body /\ oCall[a].body # none
    BY <1>1, <1>2, ConstantFacts DEF BodyOf
  <2> QED
    BY <1>1, <1>2, <2>1 DEF Base, Types, ObjectKinds
<1>21. oTable.refs[ObjectOf(oNative[oCall[a].body])] >= 1
         /\ oTable.refs[ObjectOf(oNative[oCall[a].body])] \in Nat
  BY <1>1, <1>2, <1>20, RefFacts DEF AllSlots
<1>3. Types'
  BY <1>1, <1>2, <1>20, <1>21 DEF Base, Types, Moved, CallRec
<1>4. Within'
  BY <1>1, <1>2, <1>20, <1>21, ConstantFacts
     DEF Base, Within, Moved, SameBut, Fields, Calling, ByName, Types
<1>5. Mapped'
  BY <1>1, <1>2, <1>20, <1>21 DEF Base, Mapped
<1>6. Has(oCall[a])'
  BY <1>1, <1>2, <1>20, <1>21, ConstantFacts
     DEF Has, Opening, Closing, ByName, Fields, Calling, ObjectOf, Obj!Idle
<1>7. KeepsPast(a)
  <2>1. \A x \in Bodies : Past(x) => Past(x)'
    BY <1>1, <1>2, <1>20, <1>21 DEF Past
  <2>2. \A x \in Bodies : Inserts(oCall'[a], x) => Inserts(oCall[a], x)
    BY <1>1, <1>2, <1>20, <1>21 DEF Inserts, Fields, Calling, Opening, Has
  <2>3. oCall'[a].at \in Opening => /\ oCall'[a].body \in Bodies
                                    /\ oHeader[oCall'[a].body].state \notin {"none", "new"}
    BY <1>1, <1>2, <1>20, <1>21 DEF Fields, Opening, Calling, CallRec, Has, Base, Inserted, Past,
       BodyOf
  <2> QED
    BY <1>1, <1>2, <1>20, <1>21, <2>1, <2>2, <2>3, PastStays
<1>8. KeepsNames(a)
  <2>1. oTable'.name = oTable.name /\ UNCHANGED oObjects
    BY <1>1, <1>2, <1>20, <1>21 DEF Refers, Adds, HoldsMore, Drops
  <2>2. \A p \in Hosts : ~Naming(oCall'[a], p)
    BY <1>1, <1>2, <1>20, <1>21 DEF Naming, Fields
  <2>3. \A b \in Bodies : Inserts(oCall'[a], b) /\ oCall'[a].at # "contain" =>
          Inserts(oCall[a], b) /\ oCall[a].at # "contain"
    BY <1>1, <1>2, <1>20, <1>21 DEF Inserts, Fields, Calling, Opening, Has
  <2> QED
    BY <1>1, <1>2, <1>20, <1>21, <2>1, <2>2, <2>3, NamesStay
<1>9. GainsRefs(a, ObjectOf(oNative[oCall[a].body]), 1)
  BY <1>1, <1>2, <1>20, <1>21, ConstantFacts
     DEF GainsRefs, Mine, Num, Fields, Calling, Has, Obj!Idle
<1>10. KeepsHandles(a, -1, 0)
  <2> SUFFICES ASSUME NEW x \in Slots
      PROVE  oOwned'[x] + Num(HasHandle(oCall'[a], x))
               = oOwned[x] + Num(HasHandle(oCall[a], x)) + (IF x = -1 THEN 0 ELSE 0)
    BY DEF KeepsHandles, Claims
  <2>1. HasHandle(oCall'[a], x) <=> FALSE
    BY <1>1, <1>2, <1>20, <1>21, ConstantFacts DEF HasHandle, Fields, Calling, Has, Obj!Idle
  <2>2. HasHandle(oCall[a], x) <=> FALSE
    BY <1>1, <1>2, <1>20, <1>21, ConstantFacts DEF HasHandle, Fields, Calling, Has, Obj!Idle
  <2>3. oOwned[x] \in Nat /\ oOwned'[x] = oOwned[x]
    BY <1>1, <1>2, <1>20, <1>21 DEF Base, Types, Gives
  <2> QED
    BY <1>1, <1>2, <1>20, <1>21, <2>1, <2>2, <2>3, ConstantFacts DEF Num
<1>11. Rest(a)
  BY <1>1, <1>3, <1>4, <1>5, <1>6, <1>7, <1>8 DEF Rest
<1> QED
  BY <1>1, <1>2, <1>20, <1>21, <1>9, <1>10, <1>11, RefersStep

LEMMA CountOtherKeeps ==
  ASSUME Base, NEW a \in oSetting.threads, Obj!Count(a), UNCHANGED oSetting,
         oCall[a].op # "insert"
  PROVE  Base'
<1>1. /\ Calling(a, "count") /\ Moved(a)
      /\ Fields(oCall'[a],
                IF oCall[a].op = "duplicate" THEN "deref" ELSE "return", oCall[a].op,
                  oCall[a].body, oCall[a].handle, none, oCall[a].outer, oCall[a].name,
                  oCall[a].bias, IF oCall[a].op = "duplicate" THEN 1 ELSE 0)
      /\ oCall[a].body \in Bodies /\ oCall[a].object \in Hosts /\ oTable.refs[oCall[a].object] > 1
      /\ Refers(oCall[a].object, -1)
      /\ Becomes(oCall[a].body, oHeader[oCall[a].body].pointers + oCall[a].bias,
                 oHeader[oCall[a].body].handles + 1, oHeader[oCall[a].body].contained,
                 oHeader[oCall[a].body].state)
      /\ UNCHANGED <<oObjects, oByBody, oNative, oOwned, oHeld>>
  BY CountOtherDoes
<1>2. a \in Users /\ oCall[a] \in CallRec /\ Has(oCall[a]) /\ oSetting.threads \subseteq Users
  BY <1>1, UserIs DEF Calling
<1>20. oTable.refs[oCall[a].object] \in Nat
  BY <1>1, <1>2, CountTypes
<1>3. Types'
  BY <1>1, <1>2, <1>20 DEF Base, Types, Moved, CallRec, Becomes
<1>4. Within'
  BY <1>1, <1>2, <1>20, ConstantFacts DEF Base, Within, Moved, SameBut, Fields, Calling, ByName,
     Types, Becomes
<1>5. Mapped'
  BY <1>1, <1>2, <1>20 DEF Base, Mapped
<1>6. Has(oCall[a])'
  BY <1>1, <1>2, <1>20, ConstantFacts DEF Has, Opening, Closing, ByName, Fields, Calling,
     ObjectOf, Obj!Idle
<1>7. KeepsPast(a)
  <2>1. \A x \in Bodies : Past(x) => Past(x)'
    BY <1>1, <1>2, <1>20 DEF Past, Becomes, SameBut
  <2>2. \A x \in Bodies : Inserts(oCall'[a], x) => Inserts(oCall[a], x)
    BY <1>1, <1>2, <1>20 DEF Inserts, Fields, Calling, Opening, Has
  <2>3. oCall'[a].at \in Opening => /\ oCall'[a].body \in Bodies
                                    /\ oHeader[oCall'[a].body].state \notin {"none", "new"}
    BY <1>1, <1>2, <1>20 DEF Fields, Opening, Calling, CallRec, Has, Base, Inserted, Past, BodyOf
  <2> QED
    BY <1>1, <1>2, <1>20, <2>1, <2>2, <2>3, PastStays
<1>8. KeepsNames(a)
  <2>1. oTable'.name = oTable.name /\ UNCHANGED oObjects
    BY <1>1, <1>2, <1>20 DEF Refers, Adds, HoldsMore, Drops
  <2>2. \A p \in Hosts : ~Naming(oCall'[a], p)
    BY <1>1, <1>2, <1>20 DEF Naming, Fields
  <2>3. \A b \in Bodies : Inserts(oCall'[a], b) /\ oCall'[a].at # "contain" =>
          Inserts(oCall[a], b) /\ oCall[a].at # "contain"
    BY <1>1, <1>2, <1>20 DEF Inserts, Fields, Calling, Opening, Has
  <2> QED
    BY <1>1, <1>2, <1>20, <2>1, <2>2, <2>3, NamesStay
<1>9. GainsRefs(a, oCall[a].object, -1)
  BY <1>1, <1>2, <1>20, ConstantFacts DEF GainsRefs, Mine, Num, Fields, Calling, Has, Obj!Idle
<1>10. KeepsHandles(a, -1, 0)
  <2> SUFFICES ASSUME NEW x \in Slots
      PROVE  oOwned'[x] + Num(HasHandle(oCall'[a], x))
               = oOwned[x] + Num(HasHandle(oCall[a], x)) + (IF x = -1 THEN 0 ELSE 0)
    BY DEF KeepsHandles, Claims
  <2>1. HasHandle(oCall'[a], x) <=> x = oCall[a].handle
    BY <1>1, <1>2, <1>20, ConstantFacts DEF HasHandle, Fields, Calling, Has, Obj!Idle
  <2>2. HasHandle(oCall[a], x) <=> x = oCall[a].handle
    BY <1>1, <1>2, <1>20, ConstantFacts DEF HasHandle, Fields, Calling, Has, Obj!Idle
  <2>3. oOwned[x] \in Nat /\ oOwned'[x] = oOwned[x]
    BY <1>1, <1>2, <1>20 DEF Base, Types, Gives
  <2> QED
    BY <1>1, <1>2, <1>20, <2>1, <2>2, <2>3, ConstantFacts DEF Num
<1>11. Rest(a)
  BY <1>1, <1>3, <1>4, <1>5, <1>6, <1>7, <1>8 DEF Rest
<1> QED
  BY <1>1, <1>2, <1>20, <1>9, <1>10, <1>11, RefersStep

LEMMA DuplicateKeeps ==
  ASSUME Base, NEW a \in oSetting.threads, NEW h \in Slots, Obj!Duplicate(a, h, FALSE),
           UNCHANGED oSetting
  PROVE  Base'
<1>1. /\ Calling(a, "idle") /\ Moved(a)
      /\ Fields(oCall'[a], "find", "duplicate", BodyOf(h), h, none, ObjectOf(h), none, 1, 0)
      /\ BodyOf(h) \in Bodies /\ ObjectOf(h) \in Hosts /\ oOwned[h] > 0
           /\ "duplicate" \in oSetting.ops
      /\ Refers(ObjectOf(h), 1)
      /\ Becomes(BodyOf(h), oHeader[BodyOf(h)].pointers + 1,
                 oHeader[BodyOf(h)].handles, oHeader[BodyOf(h)].contained,
                 oHeader[BodyOf(h)].state)
      /\ UNCHANGED oOwned
      /\ UNCHANGED <<oObjects, oByBody, oNative, oHeld>>
  BY DuplicateDoes
<1>2. a \in Users /\ oCall[a] \in CallRec /\ Has(oCall[a]) /\ oSetting.threads \subseteq Users
  BY <1>1, UserIs DEF Calling
<1>20. BodyOf(h) \in oSetting.bodies \cup {none} /\ oObjects[ObjectOf(h)].body = BodyOf(h)
  BY <1>1, <1>2, ConstantFacts DEF BodyOf, Base, Within
<1>21. oTable.refs[ObjectOf(h)] >= 1 /\ oTable.refs[ObjectOf(h)] \in Nat
  BY <1>1, <1>2, <1>20, RefFacts DEF AllSlots
<1>22. BodyOf(h) # none => Past(BodyOf(h))
  BY <1>1, <1>2, <1>20, <1>21 DEF Base, Inserted
<1>3. Types'
  BY <1>1, <1>2, <1>20, <1>21, <1>22 DEF Base, Types, Moved, CallRec, Becomes
<1>4. Within'
  <2>1. oCall'[a].op \in ByName \cup {"replace"} => oCall'[a].op \in oSetting.ops
    BY <1>1, <1>2, <1>20, <1>21, <1>22 DEF ByName, Fields, Calling, Base, Within
  <2>2. oCall'[a].body \in oSetting.bodies \cup {none}
    BY <1>1, <1>2, <1>20, <1>21, <1>22 DEF Fields, Calling, Base, Within
  <2>3. \A o \in Hosts : oObjects'[o].body \in oSetting.bodies \cup {none}
    BY <1>1, <1>2, <1>20, <1>21, <1>22 DEF Base, Within, Types
  <2>4. \A b \in Bodies : oHeader'[b].state # "none" \/ oHeld'[b] > 0 => b \in oSetting.bodies
    BY <1>1, <1>2, <1>20, <1>21, <1>22 DEF Base, Within, Becomes, SameBut
  <2> QED
    BY <1>1, <1>2, <1>20, <1>21, <1>22, <2>1, <2>2, <2>3, <2>4, WithinStep
<1>5. Mapped'
  BY <1>1, <1>2, <1>20, <1>21, <1>22 DEF Base, Mapped
<1>6. Has(oCall[a])'
  BY <1>1, <1>2, <1>20, <1>21, <1>22, ConstantFacts
     DEF Has, Opening, Closing, ByName, Fields, Calling, ObjectOf, Obj!Idle
<1>7. KeepsPast(a)
  <2>1. \A x \in Bodies : Past(x) => Past(x)'
    BY <1>1, <1>2, <1>20, <1>21, <1>22 DEF Past, Becomes, SameBut
  <2>2. \A x \in Bodies : ~Inserts(oCall'[a], x)
    BY <1>1, <1>2, <1>20, <1>21, <1>22 DEF Inserts, Fields
  <2>3. oCall'[a].body = BodyOf(h) /\ Past(BodyOf(h))
    BY <1>1, <1>2, <1>20, <1>21, <1>22, ConstantFacts DEF Fields
  <2> QED
    BY <1>1, <1>2, <1>20, <1>21, <1>22, <2>1, <2>2, <2>3, PastStays DEF Past
<1>8. KeepsNames(a)
  <2>1. oTable'.name = oTable.name /\ UNCHANGED oObjects
    BY <1>1, <1>2, <1>20, <1>21, <1>22 DEF Refers, Adds, HoldsMore, Drops
  <2>2. \A p \in Hosts : ~Naming(oCall'[a], p)
    BY <1>1, <1>2, <1>20, <1>21, <1>22 DEF Naming, Fields
  <2>3. \A b \in Bodies : Inserts(oCall'[a], b) /\ oCall'[a].at # "contain" =>
          Inserts(oCall[a], b) /\ oCall[a].at # "contain"
    BY <1>1, <1>2, <1>20, <1>21, <1>22 DEF Inserts, Fields, Calling, Opening, Has
  <2> QED
    BY <1>1, <1>2, <1>20, <1>21, <1>22, <2>1, <2>2, <2>3, NamesStay
<1>9. GainsRefs(a, ObjectOf(h), 1)
  BY <1>1, <1>2, <1>20, <1>21, <1>22, ConstantFacts
     DEF GainsRefs, Mine, Num, Fields, Calling, Has, Obj!Idle
<1>10. KeepsHandles(a, -1, 0)
  <2> SUFFICES ASSUME NEW x \in Slots
      PROVE  oOwned'[x] + Num(HasHandle(oCall'[a], x))
               = oOwned[x] + Num(HasHandle(oCall[a], x)) + (IF x = -1 THEN 0 ELSE 0)
    BY DEF KeepsHandles, Claims
  <2>1. HasHandle(oCall'[a], x) <=> FALSE
    BY <1>1, <1>2, <1>20, <1>21, <1>22, ConstantFacts
       DEF HasHandle, Fields, Calling, Has, Obj!Idle
  <2>2. HasHandle(oCall[a], x) <=> FALSE
    BY <1>1, <1>2, <1>20, <1>21, <1>22, ConstantFacts
       DEF HasHandle, Fields, Calling, Has, Obj!Idle
  <2>3. oOwned[x] \in Nat /\ oOwned'[x] = oOwned[x]
    BY <1>1, <1>2, <1>20, <1>21, <1>22 DEF Base, Types, Gives
  <2> QED
    BY <1>1, <1>2, <1>20, <1>21, <1>22, <2>1, <2>2, <2>3, ConstantFacts DEF Num
<1>11. Rest(a)
  BY <1>1, <1>3, <1>4, <1>5, <1>6, <1>7, <1>8 DEF Rest
<1> QED
  BY <1>1, <1>2, <1>20, <1>21, <1>22, <1>9, <1>10, <1>11, RefersStep

LEMMA ReplaceKeeps ==
  ASSUME Base, NEW a \in oSetting.threads, NEW h \in Slots, Obj!Duplicate(a, h, TRUE),
           UNCHANGED oSetting
  PROVE  Base'
<1>1. /\ Calling(a, "idle") /\ Moved(a)
      /\ Fields(oCall'[a], "close", "replace", BodyOf(h), h, none, ObjectOf(h), none, 1, 0)
      /\ BodyOf(h) \in Bodies /\ ObjectOf(h) \in Hosts /\ oOwned[h] > 0
           /\ "replace" \in oSetting.ops
      /\ Refers(ObjectOf(h), 1)
      /\ Becomes(BodyOf(h), oHeader[BodyOf(h)].pointers + 1,
                 oHeader[BodyOf(h)].handles, oHeader[BodyOf(h)].contained,
                 oHeader[BodyOf(h)].state)
      /\ oOwned' = [oOwned EXCEPT ![h] = oOwned[h] - 1]
      /\ UNCHANGED <<oObjects, oByBody, oNative, oHeld>>
  BY ReplaceDoes
<1>2. a \in Users /\ oCall[a] \in CallRec /\ Has(oCall[a]) /\ oSetting.threads \subseteq Users
  BY <1>1, UserIs DEF Calling
<1>20. BodyOf(h) \in oSetting.bodies \cup {none} /\ oObjects[ObjectOf(h)].body = BodyOf(h)
  BY <1>1, <1>2, ConstantFacts DEF BodyOf, Base, Within
<1>21. oTable.refs[ObjectOf(h)] >= 1 /\ oTable.refs[ObjectOf(h)] \in Nat
  BY <1>1, <1>2, <1>20, RefFacts DEF AllSlots
<1>22. BodyOf(h) # none => Past(BodyOf(h))
  BY <1>1, <1>2, <1>20, <1>21 DEF Base, Inserted
<1>23. ObjectOf(oCall[a].handle)' = ObjectOf(h)
  BY <1>1, <1>2, <1>20, <1>21, <1>22 DEF Refers, ObjectOf, Fields
<1>3. Types'
  BY <1>1, <1>2, <1>20, <1>21, <1>22, <1>23 DEF Base, Types, Moved, CallRec, Becomes
<1>4. Within'
  BY <1>1, <1>2, <1>20, <1>21, <1>22, <1>23, ConstantFacts
     DEF Base, Within, Moved, SameBut, Fields, Calling, ByName, Types, Becomes
<1>5. Mapped'
  BY <1>1, <1>2, <1>20, <1>21, <1>22, <1>23 DEF Base, Mapped
<1>6. Has(oCall[a])'
  <2>1. (oCall[a].at = "idle" => oCall[a] = Obj!Idle)'
    BY <1>1, <1>2, <1>20, <1>21, <1>22, <1>23, ConstantFacts
       DEF Has, Opening, Closing, ByName, Fields, Calling, Obj!Idle
  <2>2. (oCall[a].at \in Opening => oCall[a].op \in {"insert", "open", "duplicate", "open_named"}
          /\ oCall[a].body # none)'
    BY <1>1, <1>2, <1>20, <1>21, <1>22, <1>23, ConstantFacts
       DEF Has, Opening, Closing, ByName, Fields, Calling, Obj!Idle
  <2>3. (oCall[a].at \in Opening
          => (oCall[a].outer = none <=> oCall[a].op \in {"insert", "open"}))'
    BY <1>1, <1>2, <1>20, <1>21, <1>22, <1>23, ConstantFacts
       DEF Has, Opening, Closing, ByName, Fields, Calling, Obj!Idle
  <2>4. (oCall[a].at \in Opening /\ oCall[a].op # "insert" => oCall[a].bias = 1)'
    BY <1>1, <1>2, <1>20, <1>21, <1>22, <1>23, ConstantFacts
       DEF Has, Opening, Closing, ByName, Fields, Calling, Obj!Idle
  <2>5. (oCall[a].at \in {"find", "create", "add"} /\ oCall[a].op # "duplicate"
          => oCall[a].handle = -1)'
    BY <1>1, <1>2, <1>20, <1>21, <1>22, <1>23, ConstantFacts
       DEF Has, Opening, Closing, ByName, Fields, Calling, Obj!Idle
  <2>6. (oCall[a].at \notin {"add", "register", "count"} => oCall[a].object = none)'
    BY <1>1, <1>2, <1>20, <1>21, <1>22, <1>23, ConstantFacts
       DEF Has, Opening, Closing, ByName, Fields, Calling, Obj!Idle
  <2>7. (oCall[a].at \in {"add", "register", "count"} =>
       oCall[a].object # none /\ oObjects[oCall[a].object] \in [kind : {"standin", "wrapper"},
         body : {oCall[a].body}])'
    BY <1>1, <1>2, <1>20, <1>21, <1>22, <1>23, ConstantFacts
       DEF Has, Opening, Closing, ByName, Fields, Calling, Obj!Idle
  <2>8. (oCall[a].at \in {"register", "count"} => oCall[a].handle # -1
          /\ ObjectOf(oCall[a].handle) = oCall[a].object)'
    BY <1>1, <1>2, <1>20, <1>21, <1>22, <1>23, ConstantFacts
       DEF Has, Opening, Closing, ByName, Fields, Calling, Obj!Idle
  <2>9. (oCall[a].at \in {"attributes", "contain"} =>
       oCall[a].op \in {"insert", "create_named"}
         /\ (oCall[a].at = "contain" => oCall[a].op = "insert"))'
    BY <1>1, <1>2, <1>20, <1>21, <1>22, <1>23, ConstantFacts
       DEF Has, Opening, Closing, ByName, Fields, Calling, Obj!Idle
  <2>10. (oCall[a].at \in {"attributes", "contain"} =>
       oCall[a].handle # -1 /\ oCall[a].outer # none /\ ObjectOf(oCall[a].handle) = oCall[a].outer
         /\ oCall[a].name # none)'
    BY <1>1, <1>2, <1>20, <1>21, <1>22, <1>23, ConstantFacts
       DEF Has, Opening, Closing, ByName, Fields, Calling, Obj!Idle
  <2>11. (oCall[a].at \in {"attributes", "contain"} /\ oCall[a].op = "insert"
           => oCall[a].body # none /\ oObjects[oCall[a].outer].body = oCall[a].body)'
    BY <1>1, <1>2, <1>20, <1>21, <1>22, <1>23, ConstantFacts
       DEF Has, Opening, Closing, ByName, Fields, Calling, Obj!Idle
  <2>12. (oCall[a].at \in {"attributes", "contain"} /\ oCall[a].op = "create_named"
           => oCall[a].body = none /\ oObjects[oCall[a].outer].kind = "plain")'
    BY <1>1, <1>2, <1>20, <1>21, <1>22, <1>23, ConstantFacts
       DEF Has, Opening, Closing, ByName, Fields, Calling, Obj!Idle
  <2>13. (oCall[a].at \in Closing => oCall[a].op \in {"close", "replace", "deref", "duplicate"}
           /\ oCall[a].body # none)'
    BY <1>1, <1>2, <1>20, <1>21, <1>22, <1>23, ConstantFacts
       DEF Has, Opening, Closing, ByName, Fields, Calling, Obj!Idle
  <2>14. (oCall[a].at \in {"close", "unlink"} => oCall[a].op \in {"close", "replace"})'
    BY <1>1, <1>2, <1>20, <1>21, <1>22, <1>23, ConstantFacts
       DEF Has, Opening, Closing, ByName, Fields, Calling, Obj!Idle
  <2>15. (oCall[a].at = "deref" => oCall[a].derefs >= 1)'
    BY <1>1, <1>2, <1>20, <1>21, <1>22, <1>23, ConstantFacts
       DEF Has, Opening, Closing, ByName, Fields, Calling, Obj!Idle
  <2>16. (oCall[a].at = "delete" => oCall[a].derefs <= 1)'
    BY <1>1, <1>2, <1>20, <1>21, <1>22, <1>23, ConstantFacts
       DEF Has, Opening, Closing, ByName, Fields, Calling, Obj!Idle
  <2>17. (oCall[a].at = "recount" => oCall[a].op = "replace")'
    BY <1>1, <1>2, <1>20, <1>21, <1>22, <1>23, ConstantFacts
       DEF Has, Opening, Closing, ByName, Fields, Calling, Obj!Idle
  <2>18. (oCall[a].op = "replace" => oCall[a].at \in Closing /\ oCall[a].handle # -1)'
    BY <1>1, <1>2, <1>20, <1>21, <1>22, <1>23, ConstantFacts
       DEF Has, Opening, Closing, ByName, Fields, Calling, Obj!Idle
  <2>19. (oCall[a].op = "replace" => ObjectOf(oCall[a].handle) # none
           /\ oObjects[ObjectOf(oCall[a].handle)].body = oCall[a].body)'
    BY <1>1, <1>2, <1>20, <1>21, <1>22, <1>23, ConstantFacts
       DEF Has, Opening, Closing, ByName, Fields, Calling, Obj!Idle
  <2>20. (oCall[a].op \in {"close", "deref"} => oCall[a].handle = -1)'
    BY <1>1, <1>2, <1>20, <1>21, <1>22, <1>23, ConstantFacts
       DEF Has, Opening, Closing, ByName, Fields, Calling, Obj!Idle
  <2>21. (oCall[a].at \in {"named", "unname"} => oCall[a].op \in ByName /\ oCall[a].handle # -1
           /\ oCall[a].name # none)'
    BY <1>1, <1>2, <1>20, <1>21, <1>22, <1>23, ConstantFacts
       DEF Has, Opening, Closing, ByName, Fields, Calling, Obj!Idle
  <2>22. (oCall[a].at \in {"named", "unname"} /\ oCall[a].op = "open_named" => oCall[a].bias = 1)'
    BY <1>1, <1>2, <1>20, <1>21, <1>22, <1>23, ConstantFacts
       DEF Has, Opening, Closing, ByName, Fields, Calling, Obj!Idle
  <2>23. (oCall[a].at = "named" => oCall[a].outer = none /\ oCall[a].body = none)'
    BY <1>1, <1>2, <1>20, <1>21, <1>22, <1>23, ConstantFacts
       DEF Has, Opening, Closing, ByName, Fields, Calling, Obj!Idle
  <2>24. (oCall[a].at = "unname" => oCall[a].outer # none /\ ObjectOf(oCall[a].handle)
           = oCall[a].outer)'
    BY <1>1, <1>2, <1>20, <1>21, <1>22, <1>23, ConstantFacts
       DEF Has, Opening, Closing, ByName, Fields, Calling, Obj!Idle
  <2>25. (oCall[a].at = "unname" => oObjects[oCall[a].outer].body = oCall[a].body)'
    BY <1>1, <1>2, <1>20, <1>21, <1>22, <1>23, ConstantFacts
       DEF Has, Opening, Closing, ByName, Fields, Calling, Obj!Idle
  <2>26. (oCall[a].at = "unname" /\ oCall[a].op = "open_named" => oCall[a].body # none)'
    BY <1>1, <1>2, <1>20, <1>21, <1>22, <1>23, ConstantFacts
       DEF Has, Opening, Closing, ByName, Fields, Calling, Obj!Idle
  <2>27. (oCall[a].at = "construct" => oCall[a].op = "create_named" /\ oCall[a].outer = none
           /\ oCall[a].body = none)'
    BY <1>1, <1>2, <1>20, <1>21, <1>22, <1>23, ConstantFacts
       DEF Has, Opening, Closing, ByName, Fields, Calling, Obj!Idle
  <2>28. (oCall[a].at = "construct" => oCall[a].handle = -1 /\ oCall[a].name # none)'
    BY <1>1, <1>2, <1>20, <1>21, <1>22, <1>23, ConstantFacts
       DEF Has, Opening, Closing, ByName, Fields, Calling, Obj!Idle
  <2>29. (oCall[a].at = "return" => oCall[a].op # "none"
           /\ (oCall[a].op \in {"insert", "open"} => oCall[a].body # none))'
    BY <1>1, <1>2, <1>20, <1>21, <1>22, <1>23, ConstantFacts
       DEF Has, Opening, Closing, ByName, Fields, Calling, Obj!Idle
  <2>30. (oCall[a].at = "destroy" => oCall[a].outer # none /\ oCall[a].handle = -1
           /\ oCall[a].body = none)'
    BY <1>1, <1>2, <1>20, <1>21, <1>22, <1>23, ConstantFacts
       DEF Has, Opening, Closing, ByName, Fields, Calling, Obj!Idle
  <2> QED
    BY <2>1, <2>2, <2>3, <2>4, <2>5, <2>6, <2>7, <2>8, <2>9, <2>10, <2>11, <2>12, <2>13, <2>14,
       <2>15, <2>16, <2>17, <2>18, <2>19, <2>20, <2>21, <2>22, <2>23, <2>24, <2>25, <2>26, <2>27,
       <2>28, <2>29, <2>30 DEF Has, Opening, Closing
<1>7. KeepsPast(a)
  <2>1. \A x \in Bodies : Past(x) => Past(x)'
    BY <1>1, <1>2, <1>20, <1>21, <1>22, <1>23 DEF Past, Becomes, SameBut
  <2>2. \A x \in Bodies : Inserts(oCall'[a], x) => Inserts(oCall[a], x)
    BY <1>1, <1>2, <1>20, <1>21, <1>22, <1>23 DEF Inserts, Fields, Calling, Opening, Has
  <2>3. oCall'[a].at \in Opening => /\ oCall'[a].body \in Bodies
                                    /\ oHeader[oCall'[a].body].state \notin {"none", "new"}
    BY <1>1, <1>2, <1>20, <1>21, <1>22, <1>23
       DEF Fields, Opening, Calling, CallRec, Has, Base, Inserted, Past, BodyOf
  <2> QED
    BY <1>1, <1>2, <1>20, <1>21, <1>22, <1>23, <2>1, <2>2, <2>3, PastStays
<1>8. KeepsNames(a)
  <2>1. oTable'.name = oTable.name /\ UNCHANGED oObjects
    BY <1>1, <1>2, <1>20, <1>21, <1>22, <1>23 DEF Refers, Adds, HoldsMore, Drops
  <2>2. \A p \in Hosts : ~Naming(oCall'[a], p)
    BY <1>1, <1>2, <1>20, <1>21, <1>22, <1>23 DEF Naming, Fields
  <2>3. \A b \in Bodies : Inserts(oCall'[a], b) /\ oCall'[a].at # "contain" =>
          Inserts(oCall[a], b) /\ oCall[a].at # "contain"
    BY <1>1, <1>2, <1>20, <1>21, <1>22, <1>23 DEF Inserts, Fields, Calling, Opening, Has
  <2> QED
    BY <1>1, <1>2, <1>20, <1>21, <1>22, <1>23, <2>1, <2>2, <2>3, NamesStay
<1>9. GainsRefs(a, ObjectOf(h), 1)
  BY <1>1, <1>2, <1>20, <1>21, <1>22, <1>23, ConstantFacts
     DEF GainsRefs, Mine, Num, Fields, Calling, Has, Obj!Idle
<1>10. KeepsHandles(a, -1, 0)
  <2> SUFFICES ASSUME NEW x \in Slots
      PROVE  oOwned'[x] + Num(HasHandle(oCall'[a], x))
               = oOwned[x] + Num(HasHandle(oCall[a], x)) + (IF x = -1 THEN 0 ELSE 0)
    BY DEF KeepsHandles, Claims
  <2>1. HasHandle(oCall'[a], x) <=> x = h
    BY <1>1, <1>2, <1>20, <1>21, <1>22, <1>23, ConstantFacts
       DEF HasHandle, Fields, Calling, Has, Obj!Idle
  <2>2. HasHandle(oCall[a], x) <=> FALSE
    BY <1>1, <1>2, <1>20, <1>21, <1>22, <1>23, ConstantFacts
       DEF HasHandle, Fields, Calling, Has, Obj!Idle
  <2>3. oOwned[x] \in Nat /\ oOwned'[x] = IF x = h THEN oOwned[x] - 1 ELSE oOwned[x]
    BY <1>1, <1>2, <1>20, <1>21, <1>22, <1>23 DEF Base, Types, Gives
  <2> QED
    BY <1>1, <1>2, <1>20, <1>21, <1>22, <1>23, <2>1, <2>2, <2>3, ConstantFacts DEF Num
<1>11. Rest(a)
  BY <1>1, <1>3, <1>4, <1>5, <1>6, <1>7, <1>8 DEF Rest
<1> QED
  BY <1>1, <1>2, <1>20, <1>21, <1>22, <1>23, <1>9, <1>10, <1>11, RefersStep

LEMMA NamedKeeps ==
  ASSUME Base, NEW a \in oSetting.threads, Obj!Named(a), UNCHANGED oSetting
  PROVE  Base'
<1>1. /\ Calling(a, "named") /\ Moved(a)
      /\ Fields(oCall'[a], IF OpensNamed(oCall[a]) THEN "return" ELSE "unname", oCall[a].op,
                BodyOf(oCall[a].handle), oCall[a].handle, oCall[a].object,
                  ObjectOf(oCall[a].handle), oCall[a].name, oCall[a].bias, oCall[a].derefs)
      /\ oCall[a].handle \in Slots /\ ObjectOf(oCall[a].handle) \in Hosts
      /\ BodyOf(oCall[a].handle) \in Bodies \cup {none}
      /\ Refers(ObjectOf(oCall[a].handle), 1)
      /\ UNCHANGED <<oObjects, oByBody, oNative, oHeader, oOwned, oHeld>>
  BY NamedDoes
<1>2. a \in Users /\ oCall[a] \in CallRec /\ Has(oCall[a]) /\ oSetting.threads \subseteq Users
  BY <1>1, UserIs DEF Calling
<1>20. BodyOf(oCall[a].handle) \in oSetting.bodies \cup {none}
         /\ oObjects[ObjectOf(oCall[a].handle)].body = BodyOf(oCall[a].handle)
  BY <1>1, <1>2, ConstantFacts DEF BodyOf, Base, Within
<1>21. oTable.refs[ObjectOf(oCall[a].handle)] >= 1
         /\ oTable.refs[ObjectOf(oCall[a].handle)] \in Nat
  BY <1>1, <1>2, <1>20, RefFacts DEF AllSlots
<1>22. BodyOf(oCall[a].handle) # none => Past(BodyOf(oCall[a].handle))
  BY <1>1, <1>2, <1>20, <1>21 DEF Base, Inserted
<1>23. ObjectOf(oCall[a].handle)' = ObjectOf(oCall[a].handle)
  BY <1>1, <1>2, <1>20, <1>21, <1>22 DEF Refers, ObjectOf, Fields
<1>3. Types'
  BY <1>1, <1>2, <1>20, <1>21, <1>22, <1>23 DEF Base, Types, Moved, CallRec
<1>4. Within'
  BY <1>1, <1>2, <1>20, <1>21, <1>22, <1>23, ConstantFacts
     DEF Base, Within, Moved, SameBut, Fields, Calling, ByName, Types
<1>5. Mapped'
  BY <1>1, <1>2, <1>20, <1>21, <1>22, <1>23 DEF Base, Mapped
<1>6. Has(oCall[a])'
  <2>1. (oCall[a].at = "idle" => oCall[a] = Obj!Idle)'
    BY <1>1, <1>2, <1>20, <1>21, <1>22, <1>23, ConstantFacts
       DEF Has, Opening, Closing, ByName, Fields, Calling, Obj!Idle, OpensNamed
  <2>2. (oCall[a].at \in Opening => oCall[a].op \in {"insert", "open", "duplicate", "open_named"}
          /\ oCall[a].body # none)'
    BY <1>1, <1>2, <1>20, <1>21, <1>22, <1>23, ConstantFacts
       DEF Has, Opening, Closing, ByName, Fields, Calling, Obj!Idle, OpensNamed
  <2>3. (oCall[a].at \in Opening
          => (oCall[a].outer = none <=> oCall[a].op \in {"insert", "open"}))'
    BY <1>1, <1>2, <1>20, <1>21, <1>22, <1>23, ConstantFacts
       DEF Has, Opening, Closing, ByName, Fields, Calling, Obj!Idle, OpensNamed
  <2>4. (oCall[a].at \in Opening /\ oCall[a].op # "insert" => oCall[a].bias = 1)'
    BY <1>1, <1>2, <1>20, <1>21, <1>22, <1>23, ConstantFacts
       DEF Has, Opening, Closing, ByName, Fields, Calling, Obj!Idle, OpensNamed
  <2>5. (oCall[a].at \in {"find", "create", "add"} /\ oCall[a].op # "duplicate"
          => oCall[a].handle = -1)'
    BY <1>1, <1>2, <1>20, <1>21, <1>22, <1>23, ConstantFacts
       DEF Has, Opening, Closing, ByName, Fields, Calling, Obj!Idle, OpensNamed
  <2>6. (oCall[a].at \notin {"add", "register", "count"} => oCall[a].object = none)'
    BY <1>1, <1>2, <1>20, <1>21, <1>22, <1>23, ConstantFacts
       DEF Has, Opening, Closing, ByName, Fields, Calling, Obj!Idle, OpensNamed
  <2>7. (oCall[a].at \in {"add", "register", "count"} =>
       oCall[a].object # none /\ oObjects[oCall[a].object] \in [kind : {"standin", "wrapper"},
         body : {oCall[a].body}])'
    BY <1>1, <1>2, <1>20, <1>21, <1>22, <1>23, ConstantFacts
       DEF Has, Opening, Closing, ByName, Fields, Calling, Obj!Idle, OpensNamed
  <2>8. (oCall[a].at \in {"register", "count"} => oCall[a].handle # -1
          /\ ObjectOf(oCall[a].handle) = oCall[a].object)'
    BY <1>1, <1>2, <1>20, <1>21, <1>22, <1>23, ConstantFacts
       DEF Has, Opening, Closing, ByName, Fields, Calling, Obj!Idle, OpensNamed
  <2>9. (oCall[a].at \in {"attributes", "contain"} =>
       oCall[a].op \in {"insert", "create_named"}
         /\ (oCall[a].at = "contain" => oCall[a].op = "insert"))'
    BY <1>1, <1>2, <1>20, <1>21, <1>22, <1>23, ConstantFacts
       DEF Has, Opening, Closing, ByName, Fields, Calling, Obj!Idle, OpensNamed
  <2>10. (oCall[a].at \in {"attributes", "contain"} =>
       oCall[a].handle # -1 /\ oCall[a].outer # none /\ ObjectOf(oCall[a].handle) = oCall[a].outer
         /\ oCall[a].name # none)'
    BY <1>1, <1>2, <1>20, <1>21, <1>22, <1>23, ConstantFacts
       DEF Has, Opening, Closing, ByName, Fields, Calling, Obj!Idle, OpensNamed
  <2>11. (oCall[a].at \in {"attributes", "contain"} /\ oCall[a].op = "insert"
           => oCall[a].body # none /\ oObjects[oCall[a].outer].body = oCall[a].body)'
    BY <1>1, <1>2, <1>20, <1>21, <1>22, <1>23, ConstantFacts
       DEF Has, Opening, Closing, ByName, Fields, Calling, Obj!Idle, OpensNamed
  <2>12. (oCall[a].at \in {"attributes", "contain"} /\ oCall[a].op = "create_named"
           => oCall[a].body = none /\ oObjects[oCall[a].outer].kind = "plain")'
    BY <1>1, <1>2, <1>20, <1>21, <1>22, <1>23, ConstantFacts
       DEF Has, Opening, Closing, ByName, Fields, Calling, Obj!Idle, OpensNamed
  <2>13. (oCall[a].at \in Closing => oCall[a].op \in {"close", "replace", "deref", "duplicate"}
           /\ oCall[a].body # none)'
    BY <1>1, <1>2, <1>20, <1>21, <1>22, <1>23, ConstantFacts
       DEF Has, Opening, Closing, ByName, Fields, Calling, Obj!Idle, OpensNamed
  <2>14. (oCall[a].at \in {"close", "unlink"} => oCall[a].op \in {"close", "replace"})'
    BY <1>1, <1>2, <1>20, <1>21, <1>22, <1>23, ConstantFacts
       DEF Has, Opening, Closing, ByName, Fields, Calling, Obj!Idle, OpensNamed
  <2>15. (oCall[a].at = "deref" => oCall[a].derefs >= 1)'
    BY <1>1, <1>2, <1>20, <1>21, <1>22, <1>23, ConstantFacts
       DEF Has, Opening, Closing, ByName, Fields, Calling, Obj!Idle, OpensNamed
  <2>16. (oCall[a].at = "delete" => oCall[a].derefs <= 1)'
    BY <1>1, <1>2, <1>20, <1>21, <1>22, <1>23, ConstantFacts
       DEF Has, Opening, Closing, ByName, Fields, Calling, Obj!Idle, OpensNamed
  <2>17. (oCall[a].at = "recount" => oCall[a].op = "replace")'
    BY <1>1, <1>2, <1>20, <1>21, <1>22, <1>23, ConstantFacts
       DEF Has, Opening, Closing, ByName, Fields, Calling, Obj!Idle, OpensNamed
  <2>18. (oCall[a].op = "replace" => oCall[a].at \in Closing /\ oCall[a].handle # -1)'
    BY <1>1, <1>2, <1>20, <1>21, <1>22, <1>23, ConstantFacts
       DEF Has, Opening, Closing, ByName, Fields, Calling, Obj!Idle, OpensNamed
  <2>19. (oCall[a].op = "replace" => ObjectOf(oCall[a].handle) # none
           /\ oObjects[ObjectOf(oCall[a].handle)].body = oCall[a].body)'
    BY <1>1, <1>2, <1>20, <1>21, <1>22, <1>23, ConstantFacts
       DEF Has, Opening, Closing, ByName, Fields, Calling, Obj!Idle, OpensNamed
  <2>20. (oCall[a].op \in {"close", "deref"} => oCall[a].handle = -1)'
    BY <1>1, <1>2, <1>20, <1>21, <1>22, <1>23, ConstantFacts
       DEF Has, Opening, Closing, ByName, Fields, Calling, Obj!Idle, OpensNamed
  <2>21. (oCall[a].at \in {"named", "unname"} => oCall[a].op \in ByName /\ oCall[a].handle # -1
           /\ oCall[a].name # none)'
    BY <1>1, <1>2, <1>20, <1>21, <1>22, <1>23, ConstantFacts
       DEF Has, Opening, Closing, ByName, Fields, Calling, Obj!Idle, OpensNamed
  <2>22. (oCall[a].at \in {"named", "unname"} /\ oCall[a].op = "open_named" => oCall[a].bias = 1)'
    BY <1>1, <1>2, <1>20, <1>21, <1>22, <1>23, ConstantFacts
       DEF Has, Opening, Closing, ByName, Fields, Calling, Obj!Idle, OpensNamed
  <2>23. (oCall[a].at = "named" => oCall[a].outer = none /\ oCall[a].body = none)'
    BY <1>1, <1>2, <1>20, <1>21, <1>22, <1>23, ConstantFacts
       DEF Has, Opening, Closing, ByName, Fields, Calling, Obj!Idle, OpensNamed
  <2>24. (oCall[a].at = "unname" => oCall[a].outer # none /\ ObjectOf(oCall[a].handle)
           = oCall[a].outer)'
    BY <1>1, <1>2, <1>20, <1>21, <1>22, <1>23, ConstantFacts
       DEF Has, Opening, Closing, ByName, Fields, Calling, Obj!Idle, OpensNamed
  <2>25. (oCall[a].at = "unname" => oObjects[oCall[a].outer].body = oCall[a].body)'
    BY <1>1, <1>2, <1>20, <1>21, <1>22, <1>23, ConstantFacts
       DEF Has, Opening, Closing, ByName, Fields, Calling, Obj!Idle, OpensNamed
  <2>26. (oCall[a].at = "unname" /\ oCall[a].op = "open_named" => oCall[a].body # none)'
    BY <1>1, <1>2, <1>20, <1>21, <1>22, <1>23, ConstantFacts
       DEF Has, Opening, Closing, ByName, Fields, Calling, Obj!Idle, OpensNamed
  <2>27. (oCall[a].at = "construct" => oCall[a].op = "create_named" /\ oCall[a].outer = none
           /\ oCall[a].body = none)'
    BY <1>1, <1>2, <1>20, <1>21, <1>22, <1>23, ConstantFacts
       DEF Has, Opening, Closing, ByName, Fields, Calling, Obj!Idle, OpensNamed
  <2>28. (oCall[a].at = "construct" => oCall[a].handle = -1 /\ oCall[a].name # none)'
    BY <1>1, <1>2, <1>20, <1>21, <1>22, <1>23, ConstantFacts
       DEF Has, Opening, Closing, ByName, Fields, Calling, Obj!Idle, OpensNamed
  <2>29. (oCall[a].at = "return" => oCall[a].op # "none"
           /\ (oCall[a].op \in {"insert", "open"} => oCall[a].body # none))'
    BY <1>1, <1>2, <1>20, <1>21, <1>22, <1>23, ConstantFacts
       DEF Has, Opening, Closing, ByName, Fields, Calling, Obj!Idle, OpensNamed
  <2>30. (oCall[a].at = "destroy" => oCall[a].outer # none /\ oCall[a].handle = -1
           /\ oCall[a].body = none)'
    BY <1>1, <1>2, <1>20, <1>21, <1>22, <1>23, ConstantFacts
       DEF Has, Opening, Closing, ByName, Fields, Calling, Obj!Idle, OpensNamed
  <2> QED
    BY <2>1, <2>2, <2>3, <2>4, <2>5, <2>6, <2>7, <2>8, <2>9, <2>10, <2>11, <2>12, <2>13, <2>14,
       <2>15, <2>16, <2>17, <2>18, <2>19, <2>20, <2>21, <2>22, <2>23, <2>24, <2>25, <2>26, <2>27,
       <2>28, <2>29, <2>30 DEF Has, Opening, Closing
<1>7. KeepsPast(a)
  <2>1. \A x \in Bodies : Past(x) => Past(x)'
    BY <1>1, <1>2, <1>20, <1>21, <1>22, <1>23 DEF Past
  <2>2. \A x \in Bodies : Inserts(oCall'[a], x) => Inserts(oCall[a], x)
    BY <1>1, <1>2, <1>20, <1>21, <1>22, <1>23 DEF Inserts, Fields, Calling, Opening, Has
  <2>3. oCall'[a].at \in Opening => /\ oCall'[a].body \in Bodies
                                    /\ oHeader[oCall'[a].body].state \notin {"none", "new"}
    BY <1>1, <1>2, <1>20, <1>21, <1>22, <1>23
       DEF Fields, Opening, Calling, CallRec, Has, Base, Inserted, Past, BodyOf
  <2> QED
    BY <1>1, <1>2, <1>20, <1>21, <1>22, <1>23, <2>1, <2>2, <2>3, PastStays
<1>8. KeepsNames(a)
  <2>1. oTable'.name = oTable.name /\ UNCHANGED oObjects
    BY <1>1, <1>2, <1>20, <1>21, <1>22, <1>23 DEF Refers, Adds, HoldsMore, Drops
  <2>2. \A p \in Hosts : ~Naming(oCall'[a], p)
    BY <1>1, <1>2, <1>20, <1>21, <1>22, <1>23 DEF Naming, Fields
  <2>3. \A b \in Bodies : Inserts(oCall'[a], b) /\ oCall'[a].at # "contain" =>
          Inserts(oCall[a], b) /\ oCall[a].at # "contain"
    BY <1>1, <1>2, <1>20, <1>21, <1>22, <1>23 DEF Inserts, Fields, Calling, Opening, Has
  <2> QED
    BY <1>1, <1>2, <1>20, <1>21, <1>22, <1>23, <2>1, <2>2, <2>3, NamesStay
<1>9. GainsRefs(a, ObjectOf(oCall[a].handle), 1)
  BY <1>1, <1>2, <1>20, <1>21, <1>22, <1>23, ConstantFacts
     DEF GainsRefs, Mine, Num, Fields, Calling, Has, Obj!Idle
<1>10. KeepsHandles(a, -1, 0)
  <2> SUFFICES ASSUME NEW x \in Slots
      PROVE  oOwned'[x] + Num(HasHandle(oCall'[a], x))
               = oOwned[x] + Num(HasHandle(oCall[a], x)) + (IF x = -1 THEN 0 ELSE 0)
    BY DEF KeepsHandles, Claims
  <2>1. HasHandle(oCall'[a], x) <=> x = oCall[a].handle
    BY <1>1, <1>2, <1>20, <1>21, <1>22, <1>23, ConstantFacts
       DEF HasHandle, Fields, Calling, Has, Obj!Idle
  <2>2. HasHandle(oCall[a], x) <=> x = oCall[a].handle
    BY <1>1, <1>2, <1>20, <1>21, <1>22, <1>23, ConstantFacts
       DEF HasHandle, Fields, Calling, Has, Obj!Idle
  <2>3. oOwned[x] \in Nat /\ oOwned'[x] = oOwned[x]
    BY <1>1, <1>2, <1>20, <1>21, <1>22, <1>23 DEF Base, Types, Gives
  <2> QED
    BY <1>1, <1>2, <1>20, <1>21, <1>22, <1>23, <2>1, <2>2, <2>3, ConstantFacts DEF Num
<1>11. Rest(a)
  BY <1>1, <1>3, <1>4, <1>5, <1>6, <1>7, <1>8 DEF Rest
<1> QED
  BY <1>1, <1>2, <1>20, <1>21, <1>22, <1>23, <1>9, <1>10, <1>11, RefersStep

LEMMA ReturnMoreKeeps ==
  ASSUME Base, NEW a \in oSetting.threads, Obj!Return(a), UNCHANGED oSetting,
         oCall[a].outer # none, oTable.refs[oCall[a].outer] # 1
  PROVE  Base'
<1>1. /\ Calling(a, "return") /\ Moved(a)
      /\ Fields(oCall'[a], "idle", "none", none, -1, none, none, none, 0, 0)
      /\ oCall[a].outer \in Hosts
      /\ Gives(oCall[a])
      /\ Refers(oCall[a].outer, -1)
      /\ UNCHANGED <<oObjects, oByBody, oNative, oHeader>>
  BY ReturnMoreDoes
<1>2. a \in Users /\ oCall[a] \in CallRec /\ Has(oCall[a]) /\ oSetting.threads \subseteq Users
  BY <1>1, UserIs DEF Calling
<1>20. /\ oOwned' \in [Slots -> Nat] /\ oHeld' \in [Bodies -> Nat]
       /\ \A x \in Slots : oOwned'[x] = oOwned[x] + (IF x = oCall[a].handle THEN 1 ELSE 0)
       /\ \A b \in Bodies : oHeld'[b] > 0 => b \in oSetting.bodies
  BY <1>1, <1>2, GivesTypes DEF Calling
<1>21. oCall'[a] = Obj!Idle
  BY <1>1, <1>2, <1>20, IdleIs DEF Moved
<1>22. oTable.refs[oCall[a].outer] > 0 /\ oTable.refs[oCall[a].outer] + (-1) > 0
  <2>1. oTable.refs[oCall[a].outer] >= Mine(oCall[a], oCall[a].outer)
          /\ oTable.refs[oCall[a].outer] \in Nat
    BY <1>1, <1>2, <1>20, <1>21, RefFacts
  <2>2. Mine(oCall[a], oCall[a].outer) >= 1
    BY <1>1, <1>2, <1>20, <1>21, NumType DEF Mine, Num, Calling
  <2> QED
    BY <1>1, <1>2, <1>20, <1>21, <2>1, <2>2, MineType
<1>3. Types'
  BY <1>1, <1>2, <1>20, <1>21, <1>22 DEF Base, Types, Moved, CallRec
<1>4. Within'
  <2>1. oCall'[a].op \in ByName \cup {"replace"} => oCall'[a].op \in oSetting.ops
    BY <1>1, <1>2, <1>20, <1>21, <1>22 DEF ByName, Fields, Calling, Base, Within
  <2>2. oCall'[a].body \in oSetting.bodies \cup {none}
    BY <1>1, <1>2, <1>20, <1>21, <1>22 DEF Fields, Calling, Base, Within
  <2>3. \A o \in Hosts : oObjects'[o].body \in oSetting.bodies \cup {none}
    BY <1>1, <1>2, <1>20, <1>21, <1>22 DEF Base, Within, Types
  <2>4. \A b \in Bodies : oHeader'[b].state # "none" \/ oHeld'[b] > 0 => b \in oSetting.bodies
    <3>1. \A b \in Bodies : oHeader'[b].state # "none" => b \in oSetting.bodies
      <4>1. oHeader' = oHeader
        BY <1>1, <1>2, <1>20, <1>21, <1>22
      <4> QED
        BY <4>1 DEF Base, Within
    <3> QED
      BY <1>1, <1>2, <1>20, <1>21, <1>22, <3>1
  <2> QED
    BY <1>1, <1>2, <1>20, <1>21, <1>22, <2>1, <2>2, <2>3, <2>4, WithinStep
<1>5. Mapped'
  BY <1>1, <1>2, <1>20, <1>21, <1>22 DEF Base, Mapped
<1>6. Has(oCall[a])'
  <2>1. (oCall[a].at = "idle" => oCall[a] = Obj!Idle)'
    BY <1>1, <1>2, <1>20, <1>21, <1>22, ConstantFacts
       DEF Has, Opening, Closing, ByName, Fields, Calling, Obj!Idle
  <2>2. (oCall[a].at \in Opening => oCall[a].op \in {"insert", "open", "duplicate", "open_named"}
          /\ oCall[a].body # none)'
    BY <1>1, <1>2, <1>20, <1>21, <1>22, ConstantFacts
       DEF Has, Opening, Closing, ByName, Fields, Calling, Obj!Idle
  <2>3. (oCall[a].at \in Opening
          => (oCall[a].outer = none <=> oCall[a].op \in {"insert", "open"}))'
    BY <1>1, <1>2, <1>20, <1>21, <1>22, ConstantFacts
       DEF Has, Opening, Closing, ByName, Fields, Calling, Obj!Idle
  <2>4. (oCall[a].at \in Opening /\ oCall[a].op # "insert" => oCall[a].bias = 1)'
    BY <1>1, <1>2, <1>20, <1>21, <1>22, ConstantFacts
       DEF Has, Opening, Closing, ByName, Fields, Calling, Obj!Idle
  <2>5. (oCall[a].at \in {"find", "create", "add"} /\ oCall[a].op # "duplicate"
          => oCall[a].handle = -1)'
    BY <1>1, <1>2, <1>20, <1>21, <1>22, ConstantFacts
       DEF Has, Opening, Closing, ByName, Fields, Calling, Obj!Idle
  <2>6. (oCall[a].at \notin {"add", "register", "count"} => oCall[a].object = none)'
    BY <1>1, <1>2, <1>20, <1>21, <1>22, ConstantFacts
       DEF Has, Opening, Closing, ByName, Fields, Calling, Obj!Idle
  <2>7. (oCall[a].at \in {"add", "register", "count"} =>
       oCall[a].object # none /\ oObjects[oCall[a].object] \in [kind : {"standin", "wrapper"},
         body : {oCall[a].body}])'
    BY <1>1, <1>2, <1>20, <1>21, <1>22, ConstantFacts
       DEF Has, Opening, Closing, ByName, Fields, Calling, Obj!Idle
  <2>8. (oCall[a].at \in {"register", "count"} => oCall[a].handle # -1
          /\ ObjectOf(oCall[a].handle) = oCall[a].object)'
    BY <1>1, <1>2, <1>20, <1>21, <1>22, ConstantFacts
       DEF Has, Opening, Closing, ByName, Fields, Calling, Obj!Idle
  <2>9. (oCall[a].at \in {"attributes", "contain"} =>
       oCall[a].op \in {"insert", "create_named"}
         /\ (oCall[a].at = "contain" => oCall[a].op = "insert"))'
    BY <1>1, <1>2, <1>20, <1>21, <1>22, ConstantFacts
       DEF Has, Opening, Closing, ByName, Fields, Calling, Obj!Idle
  <2>10. (oCall[a].at \in {"attributes", "contain"} =>
       oCall[a].handle # -1 /\ oCall[a].outer # none /\ ObjectOf(oCall[a].handle) = oCall[a].outer
         /\ oCall[a].name # none)'
    BY <1>1, <1>2, <1>20, <1>21, <1>22, ConstantFacts
       DEF Has, Opening, Closing, ByName, Fields, Calling, Obj!Idle
  <2>11. (oCall[a].at \in {"attributes", "contain"} /\ oCall[a].op = "insert"
           => oCall[a].body # none /\ oObjects[oCall[a].outer].body = oCall[a].body)'
    BY <1>1, <1>2, <1>20, <1>21, <1>22, ConstantFacts
       DEF Has, Opening, Closing, ByName, Fields, Calling, Obj!Idle
  <2>12. (oCall[a].at \in {"attributes", "contain"} /\ oCall[a].op = "create_named"
           => oCall[a].body = none /\ oObjects[oCall[a].outer].kind = "plain")'
    BY <1>1, <1>2, <1>20, <1>21, <1>22, ConstantFacts
       DEF Has, Opening, Closing, ByName, Fields, Calling, Obj!Idle
  <2>13. (oCall[a].at \in Closing => oCall[a].op \in {"close", "replace", "deref", "duplicate"}
           /\ oCall[a].body # none)'
    BY <1>1, <1>2, <1>20, <1>21, <1>22, ConstantFacts
       DEF Has, Opening, Closing, ByName, Fields, Calling, Obj!Idle
  <2>14. (oCall[a].at \in {"close", "unlink"} => oCall[a].op \in {"close", "replace"})'
    BY <1>1, <1>2, <1>20, <1>21, <1>22, ConstantFacts
       DEF Has, Opening, Closing, ByName, Fields, Calling, Obj!Idle
  <2>15. (oCall[a].at = "deref" => oCall[a].derefs >= 1)'
    BY <1>1, <1>2, <1>20, <1>21, <1>22, ConstantFacts
       DEF Has, Opening, Closing, ByName, Fields, Calling, Obj!Idle
  <2>16. (oCall[a].at = "delete" => oCall[a].derefs <= 1)'
    BY <1>1, <1>2, <1>20, <1>21, <1>22, ConstantFacts
       DEF Has, Opening, Closing, ByName, Fields, Calling, Obj!Idle
  <2>17. (oCall[a].at = "recount" => oCall[a].op = "replace")'
    BY <1>1, <1>2, <1>20, <1>21, <1>22, ConstantFacts
       DEF Has, Opening, Closing, ByName, Fields, Calling, Obj!Idle
  <2>18. (oCall[a].op = "replace" => oCall[a].at \in Closing /\ oCall[a].handle # -1)'
    BY <1>1, <1>2, <1>20, <1>21, <1>22, ConstantFacts
       DEF Has, Opening, Closing, ByName, Fields, Calling, Obj!Idle
  <2>19. (oCall[a].op = "replace" => ObjectOf(oCall[a].handle) # none
           /\ oObjects[ObjectOf(oCall[a].handle)].body = oCall[a].body)'
    BY <1>1, <1>2, <1>20, <1>21, <1>22, ConstantFacts
       DEF Has, Opening, Closing, ByName, Fields, Calling, Obj!Idle
  <2>20. (oCall[a].op \in {"close", "deref"} => oCall[a].handle = -1)'
    BY <1>1, <1>2, <1>20, <1>21, <1>22, ConstantFacts
       DEF Has, Opening, Closing, ByName, Fields, Calling, Obj!Idle
  <2>21. (oCall[a].at \in {"named", "unname"} => oCall[a].op \in ByName /\ oCall[a].handle # -1
           /\ oCall[a].name # none)'
    BY <1>1, <1>2, <1>20, <1>21, <1>22, ConstantFacts
       DEF Has, Opening, Closing, ByName, Fields, Calling, Obj!Idle
  <2>22. (oCall[a].at \in {"named", "unname"} /\ oCall[a].op = "open_named" => oCall[a].bias = 1)'
    BY <1>1, <1>2, <1>20, <1>21, <1>22, ConstantFacts
       DEF Has, Opening, Closing, ByName, Fields, Calling, Obj!Idle
  <2>23. (oCall[a].at = "named" => oCall[a].outer = none /\ oCall[a].body = none)'
    BY <1>1, <1>2, <1>20, <1>21, <1>22, ConstantFacts
       DEF Has, Opening, Closing, ByName, Fields, Calling, Obj!Idle
  <2>24. (oCall[a].at = "unname" => oCall[a].outer # none /\ ObjectOf(oCall[a].handle)
           = oCall[a].outer)'
    BY <1>1, <1>2, <1>20, <1>21, <1>22, ConstantFacts
       DEF Has, Opening, Closing, ByName, Fields, Calling, Obj!Idle
  <2>25. (oCall[a].at = "unname" => oObjects[oCall[a].outer].body = oCall[a].body)'
    BY <1>1, <1>2, <1>20, <1>21, <1>22, ConstantFacts
       DEF Has, Opening, Closing, ByName, Fields, Calling, Obj!Idle
  <2>26. (oCall[a].at = "unname" /\ oCall[a].op = "open_named" => oCall[a].body # none)'
    BY <1>1, <1>2, <1>20, <1>21, <1>22, ConstantFacts
       DEF Has, Opening, Closing, ByName, Fields, Calling, Obj!Idle
  <2>27. (oCall[a].at = "construct" => oCall[a].op = "create_named" /\ oCall[a].outer = none
           /\ oCall[a].body = none)'
    BY <1>1, <1>2, <1>20, <1>21, <1>22, ConstantFacts
       DEF Has, Opening, Closing, ByName, Fields, Calling, Obj!Idle
  <2>28. (oCall[a].at = "construct" => oCall[a].handle = -1 /\ oCall[a].name # none)'
    BY <1>1, <1>2, <1>20, <1>21, <1>22, ConstantFacts
       DEF Has, Opening, Closing, ByName, Fields, Calling, Obj!Idle
  <2>29. (oCall[a].at = "return" => oCall[a].op # "none"
           /\ (oCall[a].op \in {"insert", "open"} => oCall[a].body # none))'
    BY <1>1, <1>2, <1>20, <1>21, <1>22, ConstantFacts
       DEF Has, Opening, Closing, ByName, Fields, Calling, Obj!Idle
  <2>30. (oCall[a].at = "destroy" => oCall[a].outer # none /\ oCall[a].handle = -1
           /\ oCall[a].body = none)'
    BY <1>1, <1>2, <1>20, <1>21, <1>22, ConstantFacts
       DEF Has, Opening, Closing, ByName, Fields, Calling, Obj!Idle
  <2> QED
    BY <2>1, <2>2, <2>3, <2>4, <2>5, <2>6, <2>7, <2>8, <2>9, <2>10, <2>11, <2>12, <2>13, <2>14,
       <2>15, <2>16, <2>17, <2>18, <2>19, <2>20, <2>21, <2>22, <2>23, <2>24, <2>25, <2>26, <2>27,
       <2>28, <2>29, <2>30 DEF Has, Opening, Closing
<1>7. KeepsPast(a)
  <2>1. \A x \in Bodies : Past(x) => Past(x)'
    BY <1>1, <1>2, <1>20, <1>21, <1>22 DEF Past
  <2>2. \A x \in Bodies : Inserts(oCall'[a], x) => Inserts(oCall[a], x)
    BY <1>1, <1>2, <1>20, <1>21, <1>22 DEF Inserts, Fields, Calling, Opening, Has
  <2>3. oCall'[a].at \in Opening => /\ oCall'[a].body \in Bodies
                                    /\ oHeader[oCall'[a].body].state \notin {"none", "new"}
    BY <1>1, <1>2, <1>20, <1>21, <1>22 DEF Fields, Opening, Calling, CallRec, Has, Base, Inserted,
       Past, BodyOf
  <2> QED
    BY <1>1, <1>2, <1>20, <1>21, <1>22, <2>1, <2>2, <2>3, PastStays
<1>8. KeepsNames(a)
  <2>1. oTable'.name = oTable.name /\ UNCHANGED oObjects
    BY <1>1, <1>2, <1>20, <1>21, <1>22 DEF Refers, Adds, HoldsMore, Drops
  <2>2. \A p \in Hosts : ~Naming(oCall'[a], p)
    BY <1>1, <1>2, <1>20, <1>21, <1>22 DEF Naming, Fields
  <2>3. \A b \in Bodies : Inserts(oCall'[a], b) /\ oCall'[a].at # "contain" =>
          Inserts(oCall[a], b) /\ oCall[a].at # "contain"
    BY <1>1, <1>2, <1>20, <1>21, <1>22 DEF Inserts, Fields, Calling, Opening, Has
  <2> QED
    BY <1>1, <1>2, <1>20, <1>21, <1>22, <2>1, <2>2, <2>3, NamesStay
<1>9. GainsRefs(a, oCall[a].outer, -1)
  BY <1>1, <1>2, <1>20, <1>21, <1>22, ConstantFacts
     DEF GainsRefs, Mine, Num, Fields, Calling, Has, Obj!Idle
<1>10. KeepsHandles(a, -1, 0)
  <2> SUFFICES ASSUME NEW x \in Slots
      PROVE  oOwned'[x] + Num(HasHandle(oCall'[a], x))
               = oOwned[x] + Num(HasHandle(oCall[a], x)) + (IF x = -1 THEN 0 ELSE 0)
    BY DEF KeepsHandles, Claims
  <2>1. HasHandle(oCall'[a], x) <=> FALSE
    BY <1>1, <1>2, <1>20, <1>21, <1>22, ConstantFacts
       DEF HasHandle, Fields, Calling, Has, Obj!Idle
  <2>2. HasHandle(oCall[a], x) <=> x = oCall[a].handle
    BY <1>1, <1>2, <1>20, <1>21, <1>22, ConstantFacts
       DEF HasHandle, Fields, Calling, Has, Obj!Idle
  <2>3. oOwned[x] \in Nat /\ oOwned'[x] = oOwned[x] + (IF x = oCall[a].handle THEN 1 ELSE 0)
    BY <1>1, <1>2, <1>20, <1>21, <1>22 DEF Base, Types, Gives
  <2> QED
    BY <1>1, <1>2, <1>20, <1>21, <1>22, <2>1, <2>2, <2>3, ConstantFacts DEF Num
<1>11. Rest(a)
  BY <1>1, <1>3, <1>4, <1>5, <1>6, <1>7, <1>8 DEF Rest
<1> QED
  BY <1>1, <1>2, <1>20, <1>21, <1>22, <1>9, <1>10, <1>11, RefersStep

LEMMA UnnameKeeps ==
  ASSUME Base, NEW a \in oSetting.threads, Obj!Unname(a), UNCHANGED oSetting
  PROVE  Base'
<1>1. /\ Calling(a, "unname") /\ Moved(a)
      /\ Fields(oCall'[a],
                IF oCall[a].op = "open_named" THEN "find" ELSE "return", oCall[a].op,
                  oCall[a].body, -1, oCall[a].object, oCall[a].outer, oCall[a].name,
                  oCall[a].bias, oCall[a].derefs)
      /\ oCall[a].handle \in Slots /\ oCall[a].outer \in Hosts /\ ObjectOf(oCall[a].handle)
           = oCall[a].outer
      /\ Drops(oCall[a].outer, oCall[a].handle, 0)
      /\ UNCHANGED <<oObjects, oByBody, oNative, oHeader, oOwned, oHeld>>
  BY UnnameDoes
<1>2. a \in Users /\ oCall[a] \in CallRec /\ Has(oCall[a]) /\ oSetting.threads \subseteq Users
  BY <1>1, UserIs DEF Calling
<1>20. oTable.refs[oCall[a].outer] + 0 > 1
  <2>1. oTable.refs[oCall[a].outer] >= 1 + Mine(oCall[a], oCall[a].outer)
          /\ oTable.refs[oCall[a].outer] \in Nat
    BY <1>1, <1>2, RefFacts DEF AllSlots
  <2>2. Mine(oCall[a], oCall[a].outer) >= 1
    BY <1>1, <1>2, ConstantFacts, NumType DEF Mine, Num, Calling
  <2> QED
    BY <1>1, <1>2, <2>1, <2>2, MineType
<1>21. Claims(oOwned, oCall[a], oCall[a].handle) > 0
  <2>1. HasHandle(oCall[a], oCall[a].handle) /\ oOwned[oCall[a].handle] \in Nat
    BY <1>1, <1>2, <1>20 DEF HasHandle, Calling, Base, Types
  <2> QED
    BY <2>1 DEF Claims, Num
<1>22. oCall[a].body # none => Past(oCall[a].body)
  BY <1>1, <1>2, <1>20, <1>21 DEF Base, Inserted, Has, Calling
<1>3. Types'
  BY <1>1, <1>2, <1>20, <1>21, <1>22 DEF Base, Types, Moved, CallRec
<1>4. Within'
  BY <1>1, <1>2, <1>20, <1>21, <1>22, ConstantFacts
     DEF Base, Within, Moved, SameBut, Fields, Calling, ByName, Types
<1>5. Mapped'
  BY <1>1, <1>2, <1>20, <1>21, <1>22 DEF Base, Mapped
<1>6. Has(oCall[a])'
  BY <1>1, <1>2, <1>20, <1>21, <1>22, ConstantFacts
     DEF Has, Opening, Closing, ByName, Fields, Calling, ObjectOf, Obj!Idle
<1>7. KeepsPast(a)
  <2>1. \A x \in Bodies : Past(x) => Past(x)'
    BY <1>1, <1>2, <1>20, <1>21, <1>22 DEF Past
  <2>2. \A x \in Bodies : Inserts(oCall'[a], x) => Inserts(oCall[a], x)
    BY <1>1, <1>2, <1>20, <1>21, <1>22 DEF Inserts, Fields, Calling, Opening, Has
  <2>3. oCall'[a].at \in Opening => /\ oCall'[a].body \in Bodies
                                    /\ oHeader[oCall'[a].body].state \notin {"none", "new"}
    BY <1>1, <1>2, <1>20, <1>21, <1>22 DEF Fields, Opening, Calling, CallRec, Has, Base, Inserted,
       Past, BodyOf
  <2> QED
    BY <1>1, <1>2, <1>20, <1>21, <1>22, <2>1, <2>2, <2>3, PastStays
<1>8. KeepsNames(a)
  <2>1. oTable'.name = oTable.name /\ UNCHANGED oObjects
    BY <1>1, <1>2, <1>20, <1>21, <1>22 DEF Refers, Adds, HoldsMore, Drops
  <2>2. \A p \in Hosts : ~Naming(oCall'[a], p)
    BY <1>1, <1>2, <1>20, <1>21, <1>22 DEF Naming, Fields
  <2>3. \A b \in Bodies : Inserts(oCall'[a], b) /\ oCall'[a].at # "contain" =>
          Inserts(oCall[a], b) /\ oCall[a].at # "contain"
    BY <1>1, <1>2, <1>20, <1>21, <1>22 DEF Inserts, Fields, Calling, Opening, Has
  <2> QED
    BY <1>1, <1>2, <1>20, <1>21, <1>22, <2>1, <2>2, <2>3, NamesStay
<1>9. GainsRefs(a, oCall[a].outer, 0)
  BY <1>1, <1>2, <1>20, <1>21, <1>22, ConstantFacts
     DEF GainsRefs, Mine, Num, Fields, Calling, Has, Obj!Idle
<1>10. KeepsHandles(a, oCall[a].handle, -1)
  <2> SUFFICES ASSUME NEW x \in Slots
      PROVE  oOwned'[x] + Num(HasHandle(oCall'[a], x))
               = oOwned[x] + Num(HasHandle(oCall[a], x)) + (IF x = oCall[a].handle THEN -1 ELSE 0)
    BY DEF KeepsHandles, Claims
  <2>1. HasHandle(oCall'[a], x) <=> FALSE
    BY <1>1, <1>2, <1>20, <1>21, <1>22, ConstantFacts
       DEF HasHandle, Fields, Calling, Has, Obj!Idle
  <2>2. HasHandle(oCall[a], x) <=> x = oCall[a].handle
    BY <1>1, <1>2, <1>20, <1>21, <1>22, ConstantFacts
       DEF HasHandle, Fields, Calling, Has, Obj!Idle
  <2>3. oOwned[x] \in Nat /\ oOwned'[x] = oOwned[x]
    BY <1>1, <1>2, <1>20, <1>21, <1>22 DEF Base, Types, Gives
  <2> QED
    BY <1>1, <1>2, <1>20, <1>21, <1>22, <2>1, <2>2, <2>3, ConstantFacts DEF Num
<1>11. Rest(a)
  BY <1>1, <1>3, <1>4, <1>5, <1>6, <1>7, <1>8 DEF Rest
<1> QED
  BY <1>1, <1>2, <1>20, <1>21, <1>22, <1>9, <1>10, <1>11, DropsStep

LEMMA NtCloseKeeps ==
  ASSUME Base, NEW a \in oSetting.threads, NEW h \in Slots, Obj!NtClose(a, h), UNCHANGED oSetting
  PROVE  Base'
<1>1. /\ Calling(a, "idle") /\ Moved(a)
      /\ Fields(oCall'[a],
                IF BodyOf(h) # none /\ oTable.entry[h].refs = 1 THEN "close" ELSE "return",
                "close", BodyOf(h), -1, none, ObjectOf(h), none, 0, 0)
      /\ ObjectOf(h) \in Hosts /\ oOwned[h] > 0 /\ BodyOf(h) \in Bodies \cup {none}
      /\ Drops(ObjectOf(h), h, 1)
      /\ oOwned' = [oOwned EXCEPT ![h] = oOwned[h] - 1]
      /\ UNCHANGED <<oObjects, oByBody, oNative, oHeader, oHeld>>
  BY NtCloseDoes
<1>2. a \in Users /\ oCall[a] \in CallRec /\ Has(oCall[a]) /\ oSetting.threads \subseteq Users
  BY <1>1, UserIs DEF Calling
<1>20. BodyOf(h) \in oSetting.bodies \cup {none} /\ oObjects[ObjectOf(h)].body = BodyOf(h)
  BY <1>1, <1>2, ConstantFacts DEF BodyOf, Base, Within
<1>21. oTable.refs[ObjectOf(h)] >= 1 /\ oTable.refs[ObjectOf(h)] \in Nat
  BY <1>1, <1>2, <1>20, RefFacts DEF AllSlots
<1>22. BodyOf(h) # none => Past(BodyOf(h))
  BY <1>1, <1>2, <1>20, <1>21 DEF Base, Inserted
<1>23. Claims(oOwned, oCall[a], h) > 0
  <2>1. oOwned[h] \in Nat /\ oOwned[h] > 0
    BY <1>1, <1>2, <1>20, <1>21, <1>22 DEF Base, Types
  <2> QED
    BY <2>1, NumType DEF Claims
<1>3. Types'
  BY <1>1, <1>2, <1>20, <1>21, <1>22, <1>23 DEF Base, Types, Moved, CallRec
<1>4. Within'
  BY <1>1, <1>2, <1>20, <1>21, <1>22, <1>23, ConstantFacts
     DEF Base, Within, Moved, SameBut, Fields, Calling, ByName, Types
<1>5. Mapped'
  BY <1>1, <1>2, <1>20, <1>21, <1>22, <1>23 DEF Base, Mapped
<1>6. Has(oCall[a])'
  BY <1>1, <1>2, <1>20, <1>21, <1>22, <1>23, ConstantFacts
     DEF Has, Opening, Closing, ByName, Fields, Calling, ObjectOf, Obj!Idle
<1>7. KeepsPast(a)
  <2>1. \A x \in Bodies : Past(x) => Past(x)'
    BY <1>1, <1>2, <1>20, <1>21, <1>22, <1>23 DEF Past
  <2>2. \A x \in Bodies : Inserts(oCall'[a], x) => Inserts(oCall[a], x)
    BY <1>1, <1>2, <1>20, <1>21, <1>22, <1>23 DEF Inserts, Fields, Calling, Opening, Has
  <2>3. oCall'[a].at \in Opening => /\ oCall'[a].body \in Bodies
                                    /\ oHeader[oCall'[a].body].state \notin {"none", "new"}
    BY <1>1, <1>2, <1>20, <1>21, <1>22, <1>23
       DEF Fields, Opening, Calling, CallRec, Has, Base, Inserted, Past, BodyOf
  <2> QED
    BY <1>1, <1>2, <1>20, <1>21, <1>22, <1>23, <2>1, <2>2, <2>3, PastStays
<1>8. KeepsNames(a)
  <2>1. oTable'.name = oTable.name /\ UNCHANGED oObjects
    BY <1>1, <1>2, <1>20, <1>21, <1>22, <1>23 DEF Refers, Adds, HoldsMore, Drops
  <2>2. \A p \in Hosts : ~Naming(oCall'[a], p)
    BY <1>1, <1>2, <1>20, <1>21, <1>22, <1>23 DEF Naming, Fields
  <2>3. \A b \in Bodies : Inserts(oCall'[a], b) /\ oCall'[a].at # "contain" =>
          Inserts(oCall[a], b) /\ oCall[a].at # "contain"
    BY <1>1, <1>2, <1>20, <1>21, <1>22, <1>23 DEF Inserts, Fields, Calling, Opening, Has
  <2> QED
    BY <1>1, <1>2, <1>20, <1>21, <1>22, <1>23, <2>1, <2>2, <2>3, NamesStay
<1>9. GainsRefs(a, ObjectOf(h), 1)
  BY <1>1, <1>2, <1>20, <1>21, <1>22, <1>23, ConstantFacts
     DEF GainsRefs, Mine, Num, Fields, Calling, Has, Obj!Idle
<1>10. KeepsHandles(a, h, -1)
  <2> SUFFICES ASSUME NEW x \in Slots
      PROVE  oOwned'[x] + Num(HasHandle(oCall'[a], x))
               = oOwned[x] + Num(HasHandle(oCall[a], x)) + (IF x = h THEN -1 ELSE 0)
    BY DEF KeepsHandles, Claims
  <2>1. HasHandle(oCall'[a], x) <=> FALSE
    BY <1>1, <1>2, <1>20, <1>21, <1>22, <1>23, ConstantFacts
       DEF HasHandle, Fields, Calling, Has, Obj!Idle
  <2>2. HasHandle(oCall[a], x) <=> FALSE
    BY <1>1, <1>2, <1>20, <1>21, <1>22, <1>23, ConstantFacts
       DEF HasHandle, Fields, Calling, Has, Obj!Idle
  <2>3. oOwned[x] \in Nat /\ oOwned'[x] = IF x = h THEN oOwned[x] - 1 ELSE oOwned[x]
    BY <1>1, <1>2, <1>20, <1>21, <1>22, <1>23 DEF Base, Types, Gives
  <2> QED
    BY <1>1, <1>2, <1>20, <1>21, <1>22, <1>23, <2>1, <2>2, <2>3, ConstantFacts DEF Num
<1>11. Rest(a)
  BY <1>1, <1>3, <1>4, <1>5, <1>6, <1>7, <1>8 DEF Rest
<1> QED
  BY <1>1, <1>2, <1>20, <1>21, <1>22, <1>23, <1>9, <1>10, <1>11, DropsStep

LEMMA LookupFoundKeeps ==
  ASSUME Base, NEW a \in oSetting.threads, NEW op \in ByName, NEW n \in ObjectNames,
         NEW bias \in 0..1, Obj!LookupByName(a, op, n, bias), UNCHANGED oSetting,
         oTable.names[n] # -1, Careful,
         op = "open_named" => bias = 1
  PROVE  Base'
<1>1. /\ Calling(a, "idle") /\ Moved(a)
      /\ Fields(oCall'[a], "named", op, none, oTable.names[n], none, none, n, bias, 0)
      /\ oTable.names[n] \in Slots /\ ObjectOf(oTable.names[n]) \in Hosts /\ op \in oSetting.ops
      /\ HoldsMore(ObjectOf(oTable.names[n]), oTable.names[n])
      /\ UNCHANGED <<oObjects, oByBody, oNative, oHeader, oOwned, oHeld>>
  BY LookupFoundDoes
<1>2. a \in Users /\ oCall[a] \in CallRec /\ Has(oCall[a]) /\ oSetting.threads \subseteq Users
  BY <1>1, UserIs DEF Calling
<1>3. Types'
  BY <1>1, <1>2 DEF Base, Types, Moved, CallRec
<1>4. Within'
  BY <1>1, <1>2, ConstantFacts DEF Base, Within, Moved, SameBut, Fields, Calling, ByName, Types
<1>5. Mapped'
  BY <1>1, <1>2 DEF Base, Mapped
<1>6. Has(oCall[a])'
  <2>1. (oCall[a].at = "idle" => oCall[a] = Obj!Idle)'
    BY <1>1, <1>2, ConstantFacts DEF Has, Opening, Closing, ByName, Fields, Calling, Obj!Idle
  <2>2. (oCall[a].at \in Opening => oCall[a].op \in {"insert", "open", "duplicate", "open_named"}
          /\ oCall[a].body # none)'
    BY <1>1, <1>2, ConstantFacts DEF Has, Opening, Closing, ByName, Fields, Calling, Obj!Idle
  <2>3. (oCall[a].at \in Opening
          => (oCall[a].outer = none <=> oCall[a].op \in {"insert", "open"}))'
    BY <1>1, <1>2, ConstantFacts DEF Has, Opening, Closing, ByName, Fields, Calling, Obj!Idle
  <2>4. (oCall[a].at \in Opening /\ oCall[a].op # "insert" => oCall[a].bias = 1)'
    BY <1>1, <1>2, ConstantFacts DEF Has, Opening, Closing, ByName, Fields, Calling, Obj!Idle
  <2>5. (oCall[a].at \in {"find", "create", "add"} /\ oCall[a].op # "duplicate"
          => oCall[a].handle = -1)'
    BY <1>1, <1>2, ConstantFacts DEF Has, Opening, Closing, ByName, Fields, Calling, Obj!Idle
  <2>6. (oCall[a].at \notin {"add", "register", "count"} => oCall[a].object = none)'
    BY <1>1, <1>2, ConstantFacts DEF Has, Opening, Closing, ByName, Fields, Calling, Obj!Idle
  <2>7. (oCall[a].at \in {"add", "register", "count"} =>
       oCall[a].object # none /\ oObjects[oCall[a].object] \in [kind : {"standin", "wrapper"},
         body : {oCall[a].body}])'
    BY <1>1, <1>2, ConstantFacts DEF Has, Opening, Closing, ByName, Fields, Calling, Obj!Idle
  <2>8. (oCall[a].at \in {"register", "count"} => oCall[a].handle # -1
          /\ ObjectOf(oCall[a].handle) = oCall[a].object)'
    BY <1>1, <1>2, ConstantFacts DEF Has, Opening, Closing, ByName, Fields, Calling, Obj!Idle
  <2>9. (oCall[a].at \in {"attributes", "contain"} =>
       oCall[a].op \in {"insert", "create_named"}
         /\ (oCall[a].at = "contain" => oCall[a].op = "insert"))'
    BY <1>1, <1>2, ConstantFacts DEF Has, Opening, Closing, ByName, Fields, Calling, Obj!Idle
  <2>10. (oCall[a].at \in {"attributes", "contain"} =>
       oCall[a].handle # -1 /\ oCall[a].outer # none /\ ObjectOf(oCall[a].handle) = oCall[a].outer
         /\ oCall[a].name # none)'
    BY <1>1, <1>2, ConstantFacts DEF Has, Opening, Closing, ByName, Fields, Calling, Obj!Idle
  <2>11. (oCall[a].at \in {"attributes", "contain"} /\ oCall[a].op = "insert"
           => oCall[a].body # none /\ oObjects[oCall[a].outer].body = oCall[a].body)'
    BY <1>1, <1>2, ConstantFacts DEF Has, Opening, Closing, ByName, Fields, Calling, Obj!Idle
  <2>12. (oCall[a].at \in {"attributes", "contain"} /\ oCall[a].op = "create_named"
           => oCall[a].body = none /\ oObjects[oCall[a].outer].kind = "plain")'
    BY <1>1, <1>2, ConstantFacts DEF Has, Opening, Closing, ByName, Fields, Calling, Obj!Idle
  <2>13. (oCall[a].at \in Closing => oCall[a].op \in {"close", "replace", "deref", "duplicate"}
           /\ oCall[a].body # none)'
    BY <1>1, <1>2, ConstantFacts DEF Has, Opening, Closing, ByName, Fields, Calling, Obj!Idle
  <2>14. (oCall[a].at \in {"close", "unlink"} => oCall[a].op \in {"close", "replace"})'
    BY <1>1, <1>2, ConstantFacts DEF Has, Opening, Closing, ByName, Fields, Calling, Obj!Idle
  <2>15. (oCall[a].at = "deref" => oCall[a].derefs >= 1)'
    BY <1>1, <1>2, ConstantFacts DEF Has, Opening, Closing, ByName, Fields, Calling, Obj!Idle
  <2>16. (oCall[a].at = "delete" => oCall[a].derefs <= 1)'
    BY <1>1, <1>2, ConstantFacts DEF Has, Opening, Closing, ByName, Fields, Calling, Obj!Idle
  <2>17. (oCall[a].at = "recount" => oCall[a].op = "replace")'
    BY <1>1, <1>2, ConstantFacts DEF Has, Opening, Closing, ByName, Fields, Calling, Obj!Idle
  <2>18. (oCall[a].op = "replace" => oCall[a].at \in Closing /\ oCall[a].handle # -1)'
    BY <1>1, <1>2, ConstantFacts DEF Has, Opening, Closing, ByName, Fields, Calling, Obj!Idle
  <2>19. (oCall[a].op = "replace" => ObjectOf(oCall[a].handle) # none
           /\ oObjects[ObjectOf(oCall[a].handle)].body = oCall[a].body)'
    BY <1>1, <1>2, ConstantFacts DEF Has, Opening, Closing, ByName, Fields, Calling, Obj!Idle
  <2>20. (oCall[a].op \in {"close", "deref"} => oCall[a].handle = -1)'
    BY <1>1, <1>2, ConstantFacts DEF Has, Opening, Closing, ByName, Fields, Calling, Obj!Idle
  <2>21. (oCall[a].at \in {"named", "unname"} => oCall[a].op \in ByName /\ oCall[a].handle # -1
           /\ oCall[a].name # none)'
    BY <1>1, <1>2, ConstantFacts DEF Has, Opening, Closing, ByName, Fields, Calling, Obj!Idle
  <2>22. (oCall[a].at \in {"named", "unname"} /\ oCall[a].op = "open_named" => oCall[a].bias = 1)'
    BY <1>1, <1>2, ConstantFacts DEF Has, Opening, Closing, ByName, Fields, Calling, Obj!Idle
  <2>23. (oCall[a].at = "named" => oCall[a].outer = none /\ oCall[a].body = none)'
    BY <1>1, <1>2, ConstantFacts DEF Has, Opening, Closing, ByName, Fields, Calling, Obj!Idle
  <2>24. (oCall[a].at = "unname" => oCall[a].outer # none /\ ObjectOf(oCall[a].handle)
           = oCall[a].outer)'
    BY <1>1, <1>2, ConstantFacts DEF Has, Opening, Closing, ByName, Fields, Calling, Obj!Idle
  <2>25. (oCall[a].at = "unname" => oObjects[oCall[a].outer].body = oCall[a].body)'
    BY <1>1, <1>2, ConstantFacts DEF Has, Opening, Closing, ByName, Fields, Calling, Obj!Idle
  <2>26. (oCall[a].at = "unname" /\ oCall[a].op = "open_named" => oCall[a].body # none)'
    BY <1>1, <1>2, ConstantFacts DEF Has, Opening, Closing, ByName, Fields, Calling, Obj!Idle
  <2>27. (oCall[a].at = "construct" => oCall[a].op = "create_named" /\ oCall[a].outer = none
           /\ oCall[a].body = none)'
    BY <1>1, <1>2, ConstantFacts DEF Has, Opening, Closing, ByName, Fields, Calling, Obj!Idle
  <2>28. (oCall[a].at = "construct" => oCall[a].handle = -1 /\ oCall[a].name # none)'
    BY <1>1, <1>2, ConstantFacts DEF Has, Opening, Closing, ByName, Fields, Calling, Obj!Idle
  <2>29. (oCall[a].at = "return" => oCall[a].op # "none"
           /\ (oCall[a].op \in {"insert", "open"} => oCall[a].body # none))'
    BY <1>1, <1>2, ConstantFacts DEF Has, Opening, Closing, ByName, Fields, Calling, Obj!Idle
  <2>30. (oCall[a].at = "destroy" => oCall[a].outer # none /\ oCall[a].handle = -1
           /\ oCall[a].body = none)'
    BY <1>1, <1>2, ConstantFacts DEF Has, Opening, Closing, ByName, Fields, Calling, Obj!Idle
  <2> QED
    BY <2>1, <2>2, <2>3, <2>4, <2>5, <2>6, <2>7, <2>8, <2>9, <2>10, <2>11, <2>12, <2>13, <2>14,
       <2>15, <2>16, <2>17, <2>18, <2>19, <2>20, <2>21, <2>22, <2>23, <2>24, <2>25, <2>26, <2>27,
       <2>28, <2>29, <2>30 DEF Has, Opening, Closing
<1>7. KeepsPast(a)
  <2>1. \A x \in Bodies : Past(x) => Past(x)'
    BY <1>1, <1>2 DEF Past
  <2>2. \A x \in Bodies : Inserts(oCall'[a], x) => Inserts(oCall[a], x)
    BY <1>1, <1>2 DEF Inserts, Fields, Calling, Opening, Has
  <2>3. oCall'[a].at \in Opening => /\ oCall'[a].body \in Bodies
                                    /\ oHeader[oCall'[a].body].state \notin {"none", "new"}
    BY <1>1, <1>2 DEF Fields, Opening, Calling, CallRec, Has, Base, Inserted, Past, BodyOf
  <2> QED
    BY <1>1, <1>2, <2>1, <2>2, <2>3, PastStays
<1>8. KeepsNames(a)
  <2>1. oTable'.name = oTable.name /\ UNCHANGED oObjects
    BY <1>1, <1>2 DEF Refers, Adds, HoldsMore, Drops
  <2>2. \A p \in Hosts : ~Naming(oCall'[a], p)
    BY <1>1, <1>2 DEF Naming, Fields
  <2>3. \A b \in Bodies : Inserts(oCall'[a], b) /\ oCall'[a].at # "contain" =>
          Inserts(oCall[a], b) /\ oCall[a].at # "contain"
    BY <1>1, <1>2 DEF Inserts, Fields, Calling, Opening, Has
  <2> QED
    BY <1>1, <1>2, <2>1, <2>2, <2>3, NamesStay
<1>9. GainsRefs(a, ObjectOf(oTable.names[n]), 0)
  BY <1>1, <1>2, ConstantFacts DEF GainsRefs, Mine, Num, Fields, Calling, Has, Obj!Idle
<1>10. KeepsHandles(a, oTable.names[n], 1)
  <2> SUFFICES ASSUME NEW x \in Slots
      PROVE  oOwned'[x] + Num(HasHandle(oCall'[a], x))
               = oOwned[x] + Num(HasHandle(oCall[a], x)) + (IF x = oTable.names[n] THEN 1 ELSE 0)
    BY DEF KeepsHandles, Claims
  <2>1. HasHandle(oCall'[a], x) <=> x = oTable.names[n]
    BY <1>1, <1>2, ConstantFacts DEF HasHandle, Fields, Calling, Has, Obj!Idle
  <2>2. HasHandle(oCall[a], x) <=> FALSE
    BY <1>1, <1>2, ConstantFacts DEF HasHandle, Fields, Calling, Has, Obj!Idle
  <2>3. oOwned[x] \in Nat /\ oOwned'[x] = oOwned[x]
    BY <1>1, <1>2 DEF Base, Types, Gives
  <2> QED
    BY <1>1, <1>2, <2>1, <2>2, <2>3, ConstantFacts DEF Num
<1>11. Rest(a)
  BY <1>1, <1>3, <1>4, <1>5, <1>6, <1>7, <1>8 DEF Rest
<1> QED
  BY <1>1, <1>2, <1>9, <1>10, <1>11, HoldsStep

LEMMA CreateStandInKeeps ==
  ASSUME Base, NEW a \in oSetting.threads, NEW o \in Hosts, NEW h \in Slots,
         CreateStandInWith(a, o, h), UNCHANGED oSetting
  PROVE  Base'
<1>1. /\ Calling(a, "create") /\ Moved(a)
      /\ Fields(oCall'[a], "register", oCall[a].op, oCall[a].body, h, o, oCall[a].outer,
           oCall[a].name, oCall[a].bias, oCall[a].derefs)
      /\ Obj!IsNewObject(o) /\ ObjectOf(h) = none /\ oCall[a].body \in Bodies
      /\ Adds(o, h, 2)
      /\ oObjects' = [oObjects EXCEPT ![o] = [kind |-> "standin", body |-> oCall[a].body]]
      /\ UNCHANGED <<oByBody, oNative, oHeader, oOwned, oHeld>>
  BY CreateStandInDoes
<1>2. a \in Users /\ oCall[a] \in CallRec /\ Has(oCall[a]) /\ oSetting.threads \subseteq Users
  BY <1>1, UserIs DEF Calling
<1>20. /\ o # none /\ oObjects[o].kind = "none"
       /\ \A x \in Users : oCall[x].object # o /\ (oCall[x].outer = o => oCall[x].at = "destroy")
  BY <1>1, <1>2, NewObjectIs, ConstantFacts
<1>21. ObjectOf(h)' = o
  BY <1>1, <1>2, <1>20, CountTypes DEF Adds, ObjectOf, AllSlots
<1>22. oObjects'[o] = [kind |-> "standin", body |-> oCall[a].body]
  BY <1>1, <1>2, <1>20, <1>21 DEF Base, Types
<1>3. Types'
  BY <1>1, <1>2, <1>20, <1>21, <1>22 DEF Base, Types, Moved, CallRec
<1>4. Within'
  BY <1>1, <1>2, <1>20, <1>21, <1>22, ConstantFacts
     DEF Base, Within, Moved, SameBut, Fields, Calling, ByName, Types
<1>5. Mapped'
  BY <1>1, <1>2, <1>20, <1>21, <1>22 DEF Base, Mapped, Types
<1>6. Has(oCall[a])'
  <2>1. (oCall[a].at = "idle" => oCall[a] = Obj!Idle)'
    BY <1>1, <1>2, <1>20, <1>21, <1>22, ConstantFacts
       DEF Has, Opening, Closing, ByName, Fields, Calling, Obj!Idle, ObjectOf
  <2>2. (oCall[a].at \in Opening => oCall[a].op \in {"insert", "open", "duplicate", "open_named"}
          /\ oCall[a].body # none)'
    BY <1>1, <1>2, <1>20, <1>21, <1>22, ConstantFacts
       DEF Has, Opening, Closing, ByName, Fields, Calling, Obj!Idle, ObjectOf
  <2>3. (oCall[a].at \in Opening
          => (oCall[a].outer = none <=> oCall[a].op \in {"insert", "open"}))'
    BY <1>1, <1>2, <1>20, <1>21, <1>22, ConstantFacts
       DEF Has, Opening, Closing, ByName, Fields, Calling, Obj!Idle, ObjectOf
  <2>4. (oCall[a].at \in Opening /\ oCall[a].op # "insert" => oCall[a].bias = 1)'
    BY <1>1, <1>2, <1>20, <1>21, <1>22, ConstantFacts
       DEF Has, Opening, Closing, ByName, Fields, Calling, Obj!Idle, ObjectOf
  <2>5. (oCall[a].at \in {"find", "create", "add"} /\ oCall[a].op # "duplicate"
          => oCall[a].handle = -1)'
    BY <1>1, <1>2, <1>20, <1>21, <1>22, ConstantFacts
       DEF Has, Opening, Closing, ByName, Fields, Calling, Obj!Idle, ObjectOf
  <2>6. (oCall[a].at \notin {"add", "register", "count"} => oCall[a].object = none)'
    BY <1>1, <1>2, <1>20, <1>21, <1>22, ConstantFacts
       DEF Has, Opening, Closing, ByName, Fields, Calling, Obj!Idle, ObjectOf
  <2>7. (oCall[a].at \in {"add", "register", "count"} =>
       oCall[a].object # none /\ oObjects[oCall[a].object] \in [kind : {"standin", "wrapper"},
         body : {oCall[a].body}])'
    BY <1>1, <1>2, <1>20, <1>21, <1>22, ConstantFacts
       DEF Has, Opening, Closing, ByName, Fields, Calling, Obj!Idle, ObjectOf
  <2>8. (oCall[a].at \in {"register", "count"} => oCall[a].handle # -1
          /\ ObjectOf(oCall[a].handle) = oCall[a].object)'
    BY <1>1, <1>2, <1>20, <1>21, <1>22, ConstantFacts
       DEF Has, Opening, Closing, ByName, Fields, Calling, Obj!Idle, ObjectOf
  <2>9. (oCall[a].at \in {"attributes", "contain"} =>
       oCall[a].op \in {"insert", "create_named"}
         /\ (oCall[a].at = "contain" => oCall[a].op = "insert"))'
    BY <1>1, <1>2, <1>20, <1>21, <1>22, ConstantFacts
       DEF Has, Opening, Closing, ByName, Fields, Calling, Obj!Idle, ObjectOf
  <2>10. (oCall[a].at \in {"attributes", "contain"} =>
       oCall[a].handle # -1 /\ oCall[a].outer # none /\ ObjectOf(oCall[a].handle) = oCall[a].outer
         /\ oCall[a].name # none)'
    BY <1>1, <1>2, <1>20, <1>21, <1>22, ConstantFacts
       DEF Has, Opening, Closing, ByName, Fields, Calling, Obj!Idle, ObjectOf
  <2>11. (oCall[a].at \in {"attributes", "contain"} /\ oCall[a].op = "insert"
           => oCall[a].body # none /\ oObjects[oCall[a].outer].body = oCall[a].body)'
    BY <1>1, <1>2, <1>20, <1>21, <1>22, ConstantFacts
       DEF Has, Opening, Closing, ByName, Fields, Calling, Obj!Idle, ObjectOf
  <2>12. (oCall[a].at \in {"attributes", "contain"} /\ oCall[a].op = "create_named"
           => oCall[a].body = none /\ oObjects[oCall[a].outer].kind = "plain")'
    BY <1>1, <1>2, <1>20, <1>21, <1>22, ConstantFacts
       DEF Has, Opening, Closing, ByName, Fields, Calling, Obj!Idle, ObjectOf
  <2>13. (oCall[a].at \in Closing => oCall[a].op \in {"close", "replace", "deref", "duplicate"}
           /\ oCall[a].body # none)'
    BY <1>1, <1>2, <1>20, <1>21, <1>22, ConstantFacts
       DEF Has, Opening, Closing, ByName, Fields, Calling, Obj!Idle, ObjectOf
  <2>14. (oCall[a].at \in {"close", "unlink"} => oCall[a].op \in {"close", "replace"})'
    BY <1>1, <1>2, <1>20, <1>21, <1>22, ConstantFacts
       DEF Has, Opening, Closing, ByName, Fields, Calling, Obj!Idle, ObjectOf
  <2>15. (oCall[a].at = "deref" => oCall[a].derefs >= 1)'
    BY <1>1, <1>2, <1>20, <1>21, <1>22, ConstantFacts
       DEF Has, Opening, Closing, ByName, Fields, Calling, Obj!Idle, ObjectOf
  <2>16. (oCall[a].at = "delete" => oCall[a].derefs <= 1)'
    BY <1>1, <1>2, <1>20, <1>21, <1>22, ConstantFacts
       DEF Has, Opening, Closing, ByName, Fields, Calling, Obj!Idle, ObjectOf
  <2>17. (oCall[a].at = "recount" => oCall[a].op = "replace")'
    BY <1>1, <1>2, <1>20, <1>21, <1>22, ConstantFacts
       DEF Has, Opening, Closing, ByName, Fields, Calling, Obj!Idle, ObjectOf
  <2>18. (oCall[a].op = "replace" => oCall[a].at \in Closing /\ oCall[a].handle # -1)'
    BY <1>1, <1>2, <1>20, <1>21, <1>22, ConstantFacts
       DEF Has, Opening, Closing, ByName, Fields, Calling, Obj!Idle, ObjectOf
  <2>19. (oCall[a].op = "replace" => ObjectOf(oCall[a].handle) # none
           /\ oObjects[ObjectOf(oCall[a].handle)].body = oCall[a].body)'
    BY <1>1, <1>2, <1>20, <1>21, <1>22, ConstantFacts
       DEF Has, Opening, Closing, ByName, Fields, Calling, Obj!Idle, ObjectOf
  <2>20. (oCall[a].op \in {"close", "deref"} => oCall[a].handle = -1)'
    BY <1>1, <1>2, <1>20, <1>21, <1>22, ConstantFacts
       DEF Has, Opening, Closing, ByName, Fields, Calling, Obj!Idle, ObjectOf
  <2>21. (oCall[a].at \in {"named", "unname"} => oCall[a].op \in ByName /\ oCall[a].handle # -1
           /\ oCall[a].name # none)'
    BY <1>1, <1>2, <1>20, <1>21, <1>22, ConstantFacts
       DEF Has, Opening, Closing, ByName, Fields, Calling, Obj!Idle, ObjectOf
  <2>22. (oCall[a].at \in {"named", "unname"} /\ oCall[a].op = "open_named" => oCall[a].bias = 1)'
    BY <1>1, <1>2, <1>20, <1>21, <1>22, ConstantFacts
       DEF Has, Opening, Closing, ByName, Fields, Calling, Obj!Idle, ObjectOf
  <2>23. (oCall[a].at = "named" => oCall[a].outer = none /\ oCall[a].body = none)'
    BY <1>1, <1>2, <1>20, <1>21, <1>22, ConstantFacts
       DEF Has, Opening, Closing, ByName, Fields, Calling, Obj!Idle, ObjectOf
  <2>24. (oCall[a].at = "unname" => oCall[a].outer # none /\ ObjectOf(oCall[a].handle)
           = oCall[a].outer)'
    BY <1>1, <1>2, <1>20, <1>21, <1>22, ConstantFacts
       DEF Has, Opening, Closing, ByName, Fields, Calling, Obj!Idle, ObjectOf
  <2>25. (oCall[a].at = "unname" => oObjects[oCall[a].outer].body = oCall[a].body)'
    BY <1>1, <1>2, <1>20, <1>21, <1>22, ConstantFacts
       DEF Has, Opening, Closing, ByName, Fields, Calling, Obj!Idle, ObjectOf
  <2>26. (oCall[a].at = "unname" /\ oCall[a].op = "open_named" => oCall[a].body # none)'
    BY <1>1, <1>2, <1>20, <1>21, <1>22, ConstantFacts
       DEF Has, Opening, Closing, ByName, Fields, Calling, Obj!Idle, ObjectOf
  <2>27. (oCall[a].at = "construct" => oCall[a].op = "create_named" /\ oCall[a].outer = none
           /\ oCall[a].body = none)'
    BY <1>1, <1>2, <1>20, <1>21, <1>22, ConstantFacts
       DEF Has, Opening, Closing, ByName, Fields, Calling, Obj!Idle, ObjectOf
  <2>28. (oCall[a].at = "construct" => oCall[a].handle = -1 /\ oCall[a].name # none)'
    BY <1>1, <1>2, <1>20, <1>21, <1>22, ConstantFacts
       DEF Has, Opening, Closing, ByName, Fields, Calling, Obj!Idle, ObjectOf
  <2>29. (oCall[a].at = "return" => oCall[a].op # "none"
           /\ (oCall[a].op \in {"insert", "open"} => oCall[a].body # none))'
    BY <1>1, <1>2, <1>20, <1>21, <1>22, ConstantFacts
       DEF Has, Opening, Closing, ByName, Fields, Calling, Obj!Idle, ObjectOf
  <2>30. (oCall[a].at = "destroy" => oCall[a].outer # none /\ oCall[a].handle = -1
           /\ oCall[a].body = none)'
    BY <1>1, <1>2, <1>20, <1>21, <1>22, ConstantFacts
       DEF Has, Opening, Closing, ByName, Fields, Calling, Obj!Idle, ObjectOf
  <2> QED
    BY <2>1, <2>2, <2>3, <2>4, <2>5, <2>6, <2>7, <2>8, <2>9, <2>10, <2>11, <2>12, <2>13, <2>14,
       <2>15, <2>16, <2>17, <2>18, <2>19, <2>20, <2>21, <2>22, <2>23, <2>24, <2>25, <2>26, <2>27,
       <2>28, <2>29, <2>30 DEF Has, Opening, Closing
<1>7. KeepsPast(a)
  <2>1. \A x \in Bodies : Inserts(oCall'[a], x) => Inserts(oCall[a], x)
    BY <1>1, <1>2, <1>20, <1>21, <1>22 DEF Inserts, Fields, Calling, Opening, Has
  <2>2. oCall'[a].at \in Opening => oCall[a].at \in Opening /\ oCall'[a].body = oCall[a].body
    BY <1>1, <1>2, <1>20, <1>21, <1>22 DEF Fields, Opening, Calling
  <2>3. \A p \in Hosts : \/ oObjects'[p] = oObjects[p]
                         \/ oObjects'[p].body = none
                         \/ oObjects'[p].body = oCall[a].body /\ oCall[a].at \in Opening
    BY <1>1, <1>2, <1>20, <1>21, <1>22 DEF Base, Types, Opening, Calling
  <2> QED
    BY <1>1, <1>2, <1>20, <1>21, <1>22, <2>1, <2>2, <2>3, PastGrows
<1>8. KeepsNames(a)
  <2>1. oTable'.name = oTable.name /\ Obj!IsNewObject(o)
    BY <1>1, <1>2, <1>20, <1>21, <1>22 DEF Adds
  <2>2. \A p \in Hosts : p # o => oObjects'[p] = oObjects[p]
    BY <1>1, <1>2, <1>20, <1>21, <1>22 DEF Base, Types
  <2>3. \A p \in Hosts : Naming(oCall'[a], p) => p = o
    BY <1>1, <1>2, <1>20, <1>21, <1>22 DEF Naming, Fields
  <2>4. \A b \in Bodies : Inserts(oCall'[a], b) /\ oCall'[a].at # "contain" =>
          Inserts(oCall[a], b) /\ oCall[a].at # "contain"
    BY <1>1, <1>2, <1>20, <1>21, <1>22 DEF Inserts, Fields, Calling, Opening, Has
  <2> QED
    BY <1>1, <1>2, <1>20, <1>21, <1>22, <2>1, <2>2, <2>3, <2>4, NewNames
<1>9. GainsRefs(a, o, 1)
  BY <1>1, <1>2, <1>20, <1>21, <1>22, ConstantFacts
     DEF GainsRefs, Mine, Num, Fields, Calling, Has, Obj!Idle
<1>10. KeepsHandles(a, h, 1)
  <2> SUFFICES ASSUME NEW x \in Slots
      PROVE  oOwned'[x] + Num(HasHandle(oCall'[a], x))
               = oOwned[x] + Num(HasHandle(oCall[a], x)) + (IF x = h THEN 1 ELSE 0)
    BY DEF KeepsHandles, Claims
  <2>1. HasHandle(oCall'[a], x) <=> x = h
    BY <1>1, <1>2, <1>20, <1>21, <1>22, ConstantFacts
       DEF HasHandle, Fields, Calling, Has, Obj!Idle
  <2>2. HasHandle(oCall[a], x) <=> FALSE
    BY <1>1, <1>2, <1>20, <1>21, <1>22, ConstantFacts
       DEF HasHandle, Fields, Calling, Has, Obj!Idle
  <2>3. oOwned[x] \in Nat /\ oOwned'[x] = oOwned[x]
    BY <1>1, <1>2, <1>20, <1>21, <1>22 DEF Base, Types, Gives
  <2> QED
    BY <1>1, <1>2, <1>20, <1>21, <1>22, <2>1, <2>2, <2>3, ConstantFacts DEF Num
<1>11. Rest(a)
  BY <1>1, <1>3, <1>4, <1>5, <1>6, <1>7, <1>8 DEF Rest
<1>12. ObjectKinds'
  <2>1. \A x \in HostSlots : ObjectOf(x)' = IF x = h THEN o ELSE ObjectOf(x)
    BY <1>1, <1>2, <1>20, <1>21, <1>22, CountTypes DEF Adds, ObjectOf, AllSlots
  <2>2. \A p \in Hosts : oObjects'[p] = IF p = o THEN [kind |-> "standin", body |-> oCall[a].body]
          ELSE oObjects[p]
    BY <1>1, <1>2, <1>20, <1>21, <1>22 DEF Base, Types
  <2>3. oTable'.name = oTable.name /\ oTable.name[o] = none
          /\ (\A x \in AllSlots : ObjectOf(x) # o)
    BY <1>1, <1>2, <1>20, <1>21, <1>22, NewObjectIs DEF Adds
  <2>4. o # none /\ (h \in Slots => h \notin HostSlots)
    BY ConstantFacts
  <2>5. \A x \in HostSlots : ObjectOf(x) \in Hosts \cup {none}
    BY CountTypes DEF ObjectOf, AllSlots
  <2> QED
    BY <1>1, <1>2, <1>20, <1>21, <1>22, ConstantFacts, <2>1, <2>2, <2>3, <2>4, <2>5
       DEF Base, ObjectKinds, AllSlots
<1>13. AddsFit(a, o)
  <2>1. oTable.refs[o] = 0 /\ oObjects[o].kind = "none"
    BY <1>1, <1>2, <1>20, <1>21, <1>22, NewObjectIs
  <2>2. oObjects'[o].kind # "none"
    BY <1>1, <1>2, <1>20, <1>21, <1>22 DEF Base, Types
  <2> QED
    BY <1>1, <1>2, <1>20, <1>21, <1>22, <2>1, <2>2 DEF AddsFit, Destroying, Calling, Base, Types
<1>14. Adds(o, h, 1 + 1) /\ h \in AllSlots
  BY <1>1, <1>2, <1>20, <1>21, <1>22 DEF AllSlots
<1> QED
  BY <1>1, <1>2, <1>20, <1>21, <1>22, <1>9, <1>10, <1>11, <1>12, <1>13, <1>14, AddsStep

LEMMA AddCountedHandleKeeps ==
  ASSUME Base, NEW a \in oSetting.threads, NEW h \in Slots, AddCountedHandleWith(a, h),
           UNCHANGED oSetting
  PROVE  Base'
<1>1. /\ Calling(a, "add") /\ Moved(a)
      /\ Fields(oCall'[a], "count", oCall[a].op, oCall[a].body, h, oCall[a].object,
           oCall[a].outer, oCall[a].name, oCall[a].bias, oCall[a].derefs)
      /\ ObjectOf(h) = none /\ oCall[a].object \in Hosts
      /\ Adds(oCall[a].object, h, 1)
      /\ UNCHANGED <<oObjects, oByBody, oNative, oHeader, oOwned, oHeld>>
  BY AddCountedHandleDoes
<1>2. a \in Users /\ oCall[a] \in CallRec /\ Has(oCall[a]) /\ oSetting.threads \subseteq Users
  BY <1>1, UserIs DEF Calling
<1>20. ObjectOf(h)' = oCall[a].object
  BY <1>1, <1>2, CountTypes DEF Adds, ObjectOf, AllSlots
<1>21. oTable.refs[oCall[a].object] > 0
  <2>1. oTable.refs[oCall[a].object] >= Mine(oCall[a], oCall[a].object)
          /\ oTable.refs[oCall[a].object] \in Nat
    BY <1>1, <1>2, <1>20, RefFacts
  <2>2. Mine(oCall[a], oCall[a].object) >= 1
    BY <1>1, <1>2, <1>20, NumType DEF Mine, Num, Calling
  <2> QED
    BY <1>1, <1>2, <1>20, <2>1, <2>2, MineType
<1>22. oObjects[oCall[a].object].kind # "none"
  BY <1>1, <1>2, <1>20, <1>21 DEF Base, Referred
<1>3. Types'
  BY <1>1, <1>2, <1>20, <1>21, <1>22 DEF Base, Types, Moved, CallRec
<1>4. Within'
  BY <1>1, <1>2, <1>20, <1>21, <1>22, ConstantFacts
     DEF Base, Within, Moved, SameBut, Fields, Calling, ByName, Types
<1>5. Mapped'
  BY <1>1, <1>2, <1>20, <1>21, <1>22 DEF Base, Mapped
<1>6. Has(oCall[a])'
  BY <1>1, <1>2, <1>20, <1>21, <1>22, ConstantFacts
     DEF Has, Opening, Closing, ByName, Fields, Calling, ObjectOf, Obj!Idle
<1>7. KeepsPast(a)
  <2>1. \A x \in Bodies : Past(x) => Past(x)'
    BY <1>1, <1>2, <1>20, <1>21, <1>22 DEF Past
  <2>2. \A x \in Bodies : Inserts(oCall'[a], x) => Inserts(oCall[a], x)
    BY <1>1, <1>2, <1>20, <1>21, <1>22 DEF Inserts, Fields, Calling, Opening, Has
  <2>3. oCall'[a].at \in Opening => /\ oCall'[a].body \in Bodies
                                    /\ oHeader[oCall'[a].body].state \notin {"none", "new"}
    BY <1>1, <1>2, <1>20, <1>21, <1>22 DEF Fields, Opening, Calling, CallRec, Has, Base, Inserted,
       Past, BodyOf
  <2> QED
    BY <1>1, <1>2, <1>20, <1>21, <1>22, <2>1, <2>2, <2>3, PastStays
<1>8. KeepsNames(a)
  <2>1. oTable'.name = oTable.name /\ UNCHANGED oObjects
    BY <1>1, <1>2, <1>20, <1>21, <1>22 DEF Refers, Adds, HoldsMore, Drops
  <2>2. \A p \in Hosts : ~Naming(oCall'[a], p)
    BY <1>1, <1>2, <1>20, <1>21, <1>22 DEF Naming, Fields
  <2>3. \A b \in Bodies : Inserts(oCall'[a], b) /\ oCall'[a].at # "contain" =>
          Inserts(oCall[a], b) /\ oCall[a].at # "contain"
    BY <1>1, <1>2, <1>20, <1>21, <1>22 DEF Inserts, Fields, Calling, Opening, Has
  <2> QED
    BY <1>1, <1>2, <1>20, <1>21, <1>22, <2>1, <2>2, <2>3, NamesStay
<1>9. GainsRefs(a, oCall[a].object, 0)
  BY <1>1, <1>2, <1>20, <1>21, <1>22, ConstantFacts
     DEF GainsRefs, Mine, Num, Fields, Calling, Has, Obj!Idle
<1>10. KeepsHandles(a, h, 1)
  <2> SUFFICES ASSUME NEW x \in Slots
      PROVE  oOwned'[x] + Num(HasHandle(oCall'[a], x))
               = oOwned[x] + Num(HasHandle(oCall[a], x)) + (IF x = h THEN 1 ELSE 0)
    BY DEF KeepsHandles, Claims
  <2>1. HasHandle(oCall'[a], x) <=> x = h
    BY <1>1, <1>2, <1>20, <1>21, <1>22, ConstantFacts
       DEF HasHandle, Fields, Calling, Has, Obj!Idle
  <2>2. HasHandle(oCall[a], x) <=> FALSE
    BY <1>1, <1>2, <1>20, <1>21, <1>22, ConstantFacts
       DEF HasHandle, Fields, Calling, Has, Obj!Idle
  <2>3. oOwned[x] \in Nat /\ oOwned'[x] = oOwned[x]
    BY <1>1, <1>2, <1>20, <1>21, <1>22 DEF Base, Types, Gives
  <2> QED
    BY <1>1, <1>2, <1>20, <1>21, <1>22, <2>1, <2>2, <2>3, ConstantFacts DEF Num
<1>11. Rest(a)
  BY <1>1, <1>3, <1>4, <1>5, <1>6, <1>7, <1>8 DEF Rest
<1>12. ObjectKinds'
  <2>1. \A x \in HostSlots : ObjectOf(x)' = ObjectOf(x)
    BY <1>1, <1>2, <1>20, <1>21, <1>22, CountTypes, ConstantFacts DEF Adds, ObjectOf, AllSlots
  <2>2. oTable'.name = oTable.name
    BY <1>1, <1>2, <1>20, <1>21, <1>22 DEF Adds
  <2> QED
    BY <1>1, <1>2, <1>20, <1>21, <1>22, <2>1, <2>2 DEF Base, ObjectKinds
<1>13. AddsFit(a, oCall[a].object)
  BY <1>1, <1>2, <1>20, <1>21, <1>22 DEF AddsFit, Destroying, Calling
<1>14. Adds(oCall[a].object, h, 0 + 1) /\ h \in AllSlots
  BY <1>1, <1>2, <1>20, <1>21, <1>22 DEF AllSlots
<1> QED
  BY <1>1, <1>2, <1>20, <1>21, <1>22, <1>9, <1>10, <1>11, <1>12, <1>13, <1>14, AddsStep

LEMMA ConstructKeeps ==
  ASSUME Base, NEW a \in oSetting.threads, NEW o \in Hosts, NEW h \in Slots,
         ConstructWith(a, o, h), UNCHANGED oSetting
  PROVE  Base'
<1>1. /\ Calling(a, "construct") /\ Moved(a)
      /\ Fields(oCall'[a], "attributes", oCall[a].op, oCall[a].body, h, oCall[a].object, o,
           oCall[a].name, oCall[a].bias, oCall[a].derefs)
      /\ Obj!IsNewObject(o) /\ ObjectOf(h) = none
      /\ Adds(o, h, 2)
      /\ oObjects' = [oObjects EXCEPT ![o] = [kind |-> "plain", body |-> none]]
      /\ UNCHANGED <<oByBody, oNative, oHeader, oOwned, oHeld>>
  BY ConstructDoes
<1>2. a \in Users /\ oCall[a] \in CallRec /\ Has(oCall[a]) /\ oSetting.threads \subseteq Users
  BY <1>1, UserIs DEF Calling
<1>20. /\ o # none /\ oObjects[o].kind = "none"
       /\ \A x \in Users : oCall[x].object # o /\ (oCall[x].outer = o => oCall[x].at = "destroy")
  BY <1>1, <1>2, NewObjectIs, ConstantFacts
<1>21. ObjectOf(h)' = o
  BY <1>1, <1>2, <1>20, CountTypes DEF Adds, ObjectOf, AllSlots
<1>22. oObjects'[o] = [kind |-> "plain", body |-> none]
  BY <1>1, <1>2, <1>20, <1>21 DEF Base, Types
<1>3. Types'
  BY <1>1, <1>2, <1>20, <1>21, <1>22 DEF Base, Types, Moved, CallRec
<1>4. Within'
  BY <1>1, <1>2, <1>20, <1>21, <1>22, ConstantFacts
     DEF Base, Within, Moved, SameBut, Fields, Calling, ByName, Types
<1>5. Mapped'
  BY <1>1, <1>2, <1>20, <1>21, <1>22 DEF Base, Mapped, Types
<1>6. Has(oCall[a])'
  <2>1. (oCall[a].at = "idle" => oCall[a] = Obj!Idle)'
    BY <1>1, <1>2, <1>20, <1>21, <1>22, ConstantFacts
       DEF Has, Opening, Closing, ByName, Fields, Calling, Obj!Idle, ObjectOf
  <2>2. (oCall[a].at \in Opening => oCall[a].op \in {"insert", "open", "duplicate", "open_named"}
          /\ oCall[a].body # none)'
    BY <1>1, <1>2, <1>20, <1>21, <1>22, ConstantFacts
       DEF Has, Opening, Closing, ByName, Fields, Calling, Obj!Idle, ObjectOf
  <2>3. (oCall[a].at \in Opening
          => (oCall[a].outer = none <=> oCall[a].op \in {"insert", "open"}))'
    BY <1>1, <1>2, <1>20, <1>21, <1>22, ConstantFacts
       DEF Has, Opening, Closing, ByName, Fields, Calling, Obj!Idle, ObjectOf
  <2>4. (oCall[a].at \in Opening /\ oCall[a].op # "insert" => oCall[a].bias = 1)'
    BY <1>1, <1>2, <1>20, <1>21, <1>22, ConstantFacts
       DEF Has, Opening, Closing, ByName, Fields, Calling, Obj!Idle, ObjectOf
  <2>5. (oCall[a].at \in {"find", "create", "add"} /\ oCall[a].op # "duplicate"
          => oCall[a].handle = -1)'
    BY <1>1, <1>2, <1>20, <1>21, <1>22, ConstantFacts
       DEF Has, Opening, Closing, ByName, Fields, Calling, Obj!Idle, ObjectOf
  <2>6. (oCall[a].at \notin {"add", "register", "count"} => oCall[a].object = none)'
    BY <1>1, <1>2, <1>20, <1>21, <1>22, ConstantFacts
       DEF Has, Opening, Closing, ByName, Fields, Calling, Obj!Idle, ObjectOf
  <2>7. (oCall[a].at \in {"add", "register", "count"} =>
       oCall[a].object # none /\ oObjects[oCall[a].object] \in [kind : {"standin", "wrapper"},
         body : {oCall[a].body}])'
    BY <1>1, <1>2, <1>20, <1>21, <1>22, ConstantFacts
       DEF Has, Opening, Closing, ByName, Fields, Calling, Obj!Idle, ObjectOf
  <2>8. (oCall[a].at \in {"register", "count"} => oCall[a].handle # -1
          /\ ObjectOf(oCall[a].handle) = oCall[a].object)'
    BY <1>1, <1>2, <1>20, <1>21, <1>22, ConstantFacts
       DEF Has, Opening, Closing, ByName, Fields, Calling, Obj!Idle, ObjectOf
  <2>9. (oCall[a].at \in {"attributes", "contain"} =>
       oCall[a].op \in {"insert", "create_named"}
         /\ (oCall[a].at = "contain" => oCall[a].op = "insert"))'
    BY <1>1, <1>2, <1>20, <1>21, <1>22, ConstantFacts
       DEF Has, Opening, Closing, ByName, Fields, Calling, Obj!Idle, ObjectOf
  <2>10. (oCall[a].at \in {"attributes", "contain"} =>
       oCall[a].handle # -1 /\ oCall[a].outer # none /\ ObjectOf(oCall[a].handle) = oCall[a].outer
         /\ oCall[a].name # none)'
    BY <1>1, <1>2, <1>20, <1>21, <1>22, ConstantFacts
       DEF Has, Opening, Closing, ByName, Fields, Calling, Obj!Idle, ObjectOf
  <2>11. (oCall[a].at \in {"attributes", "contain"} /\ oCall[a].op = "insert"
           => oCall[a].body # none /\ oObjects[oCall[a].outer].body = oCall[a].body)'
    BY <1>1, <1>2, <1>20, <1>21, <1>22, ConstantFacts
       DEF Has, Opening, Closing, ByName, Fields, Calling, Obj!Idle, ObjectOf
  <2>12. (oCall[a].at \in {"attributes", "contain"} /\ oCall[a].op = "create_named"
           => oCall[a].body = none /\ oObjects[oCall[a].outer].kind = "plain")'
    BY <1>1, <1>2, <1>20, <1>21, <1>22, ConstantFacts
       DEF Has, Opening, Closing, ByName, Fields, Calling, Obj!Idle, ObjectOf
  <2>13. (oCall[a].at \in Closing => oCall[a].op \in {"close", "replace", "deref", "duplicate"}
           /\ oCall[a].body # none)'
    BY <1>1, <1>2, <1>20, <1>21, <1>22, ConstantFacts
       DEF Has, Opening, Closing, ByName, Fields, Calling, Obj!Idle, ObjectOf
  <2>14. (oCall[a].at \in {"close", "unlink"} => oCall[a].op \in {"close", "replace"})'
    BY <1>1, <1>2, <1>20, <1>21, <1>22, ConstantFacts
       DEF Has, Opening, Closing, ByName, Fields, Calling, Obj!Idle, ObjectOf
  <2>15. (oCall[a].at = "deref" => oCall[a].derefs >= 1)'
    BY <1>1, <1>2, <1>20, <1>21, <1>22, ConstantFacts
       DEF Has, Opening, Closing, ByName, Fields, Calling, Obj!Idle, ObjectOf
  <2>16. (oCall[a].at = "delete" => oCall[a].derefs <= 1)'
    BY <1>1, <1>2, <1>20, <1>21, <1>22, ConstantFacts
       DEF Has, Opening, Closing, ByName, Fields, Calling, Obj!Idle, ObjectOf
  <2>17. (oCall[a].at = "recount" => oCall[a].op = "replace")'
    BY <1>1, <1>2, <1>20, <1>21, <1>22, ConstantFacts
       DEF Has, Opening, Closing, ByName, Fields, Calling, Obj!Idle, ObjectOf
  <2>18. (oCall[a].op = "replace" => oCall[a].at \in Closing /\ oCall[a].handle # -1)'
    BY <1>1, <1>2, <1>20, <1>21, <1>22, ConstantFacts
       DEF Has, Opening, Closing, ByName, Fields, Calling, Obj!Idle, ObjectOf
  <2>19. (oCall[a].op = "replace" => ObjectOf(oCall[a].handle) # none
           /\ oObjects[ObjectOf(oCall[a].handle)].body = oCall[a].body)'
    BY <1>1, <1>2, <1>20, <1>21, <1>22, ConstantFacts
       DEF Has, Opening, Closing, ByName, Fields, Calling, Obj!Idle, ObjectOf
  <2>20. (oCall[a].op \in {"close", "deref"} => oCall[a].handle = -1)'
    BY <1>1, <1>2, <1>20, <1>21, <1>22, ConstantFacts
       DEF Has, Opening, Closing, ByName, Fields, Calling, Obj!Idle, ObjectOf
  <2>21. (oCall[a].at \in {"named", "unname"} => oCall[a].op \in ByName /\ oCall[a].handle # -1
           /\ oCall[a].name # none)'
    BY <1>1, <1>2, <1>20, <1>21, <1>22, ConstantFacts
       DEF Has, Opening, Closing, ByName, Fields, Calling, Obj!Idle, ObjectOf
  <2>22. (oCall[a].at \in {"named", "unname"} /\ oCall[a].op = "open_named" => oCall[a].bias = 1)'
    BY <1>1, <1>2, <1>20, <1>21, <1>22, ConstantFacts
       DEF Has, Opening, Closing, ByName, Fields, Calling, Obj!Idle, ObjectOf
  <2>23. (oCall[a].at = "named" => oCall[a].outer = none /\ oCall[a].body = none)'
    BY <1>1, <1>2, <1>20, <1>21, <1>22, ConstantFacts
       DEF Has, Opening, Closing, ByName, Fields, Calling, Obj!Idle, ObjectOf
  <2>24. (oCall[a].at = "unname" => oCall[a].outer # none /\ ObjectOf(oCall[a].handle)
           = oCall[a].outer)'
    BY <1>1, <1>2, <1>20, <1>21, <1>22, ConstantFacts
       DEF Has, Opening, Closing, ByName, Fields, Calling, Obj!Idle, ObjectOf
  <2>25. (oCall[a].at = "unname" => oObjects[oCall[a].outer].body = oCall[a].body)'
    BY <1>1, <1>2, <1>20, <1>21, <1>22, ConstantFacts
       DEF Has, Opening, Closing, ByName, Fields, Calling, Obj!Idle, ObjectOf
  <2>26. (oCall[a].at = "unname" /\ oCall[a].op = "open_named" => oCall[a].body # none)'
    BY <1>1, <1>2, <1>20, <1>21, <1>22, ConstantFacts
       DEF Has, Opening, Closing, ByName, Fields, Calling, Obj!Idle, ObjectOf
  <2>27. (oCall[a].at = "construct" => oCall[a].op = "create_named" /\ oCall[a].outer = none
           /\ oCall[a].body = none)'
    BY <1>1, <1>2, <1>20, <1>21, <1>22, ConstantFacts
       DEF Has, Opening, Closing, ByName, Fields, Calling, Obj!Idle, ObjectOf
  <2>28. (oCall[a].at = "construct" => oCall[a].handle = -1 /\ oCall[a].name # none)'
    BY <1>1, <1>2, <1>20, <1>21, <1>22, ConstantFacts
       DEF Has, Opening, Closing, ByName, Fields, Calling, Obj!Idle, ObjectOf
  <2>29. (oCall[a].at = "return" => oCall[a].op # "none"
           /\ (oCall[a].op \in {"insert", "open"} => oCall[a].body # none))'
    BY <1>1, <1>2, <1>20, <1>21, <1>22, ConstantFacts
       DEF Has, Opening, Closing, ByName, Fields, Calling, Obj!Idle, ObjectOf
  <2>30. (oCall[a].at = "destroy" => oCall[a].outer # none /\ oCall[a].handle = -1
           /\ oCall[a].body = none)'
    BY <1>1, <1>2, <1>20, <1>21, <1>22, ConstantFacts
       DEF Has, Opening, Closing, ByName, Fields, Calling, Obj!Idle, ObjectOf
  <2> QED
    BY <2>1, <2>2, <2>3, <2>4, <2>5, <2>6, <2>7, <2>8, <2>9, <2>10, <2>11, <2>12, <2>13, <2>14,
       <2>15, <2>16, <2>17, <2>18, <2>19, <2>20, <2>21, <2>22, <2>23, <2>24, <2>25, <2>26, <2>27,
       <2>28, <2>29, <2>30 DEF Has, Opening, Closing
<1>7. KeepsPast(a)
  <2>1. \A x \in Bodies : Inserts(oCall'[a], x) => Inserts(oCall[a], x)
    BY <1>1, <1>2, <1>20, <1>21, <1>22 DEF Inserts, Fields, Calling, Opening, Has
  <2>2. oCall'[a].at \in Opening => oCall[a].at \in Opening /\ oCall'[a].body = oCall[a].body
    BY <1>1, <1>2, <1>20, <1>21, <1>22 DEF Fields, Opening, Calling
  <2>3. \A p \in Hosts : \/ oObjects'[p] = oObjects[p]
                         \/ oObjects'[p].body = none
                         \/ oObjects'[p].body = oCall[a].body /\ oCall[a].at \in Opening
    BY <1>1, <1>2, <1>20, <1>21, <1>22 DEF Base, Types, Opening, Calling
  <2> QED
    BY <1>1, <1>2, <1>20, <1>21, <1>22, <2>1, <2>2, <2>3, PastGrows
<1>8. KeepsNames(a)
  <2>1. oTable'.name = oTable.name /\ Obj!IsNewObject(o)
    BY <1>1, <1>2, <1>20, <1>21, <1>22 DEF Adds
  <2>2. \A p \in Hosts : p # o => oObjects'[p] = oObjects[p]
    BY <1>1, <1>2, <1>20, <1>21, <1>22 DEF Base, Types
  <2>3. \A p \in Hosts : Naming(oCall'[a], p) => p = o
    BY <1>1, <1>2, <1>20, <1>21, <1>22 DEF Naming, Fields
  <2>4. \A b \in Bodies : Inserts(oCall'[a], b) /\ oCall'[a].at # "contain" =>
          Inserts(oCall[a], b) /\ oCall[a].at # "contain"
    BY <1>1, <1>2, <1>20, <1>21, <1>22 DEF Inserts, Fields, Calling, Opening, Has
  <2> QED
    BY <1>1, <1>2, <1>20, <1>21, <1>22, <2>1, <2>2, <2>3, <2>4, NewNames
<1>9. GainsRefs(a, o, 1)
  BY <1>1, <1>2, <1>20, <1>21, <1>22, ConstantFacts
     DEF GainsRefs, Mine, Num, Fields, Calling, Has, Obj!Idle
<1>10. KeepsHandles(a, h, 1)
  <2> SUFFICES ASSUME NEW x \in Slots
      PROVE  oOwned'[x] + Num(HasHandle(oCall'[a], x))
               = oOwned[x] + Num(HasHandle(oCall[a], x)) + (IF x = h THEN 1 ELSE 0)
    BY DEF KeepsHandles, Claims
  <2>1. HasHandle(oCall'[a], x) <=> x = h
    BY <1>1, <1>2, <1>20, <1>21, <1>22, ConstantFacts
       DEF HasHandle, Fields, Calling, Has, Obj!Idle
  <2>2. HasHandle(oCall[a], x) <=> FALSE
    BY <1>1, <1>2, <1>20, <1>21, <1>22, ConstantFacts
       DEF HasHandle, Fields, Calling, Has, Obj!Idle
  <2>3. oOwned[x] \in Nat /\ oOwned'[x] = oOwned[x]
    BY <1>1, <1>2, <1>20, <1>21, <1>22 DEF Base, Types, Gives
  <2> QED
    BY <1>1, <1>2, <1>20, <1>21, <1>22, <2>1, <2>2, <2>3, ConstantFacts DEF Num
<1>11. Rest(a)
  BY <1>1, <1>3, <1>4, <1>5, <1>6, <1>7, <1>8 DEF Rest
<1>12. ObjectKinds'
  <2>1. \A x \in HostSlots : ObjectOf(x)' = IF x = h THEN o ELSE ObjectOf(x)
    BY <1>1, <1>2, <1>20, <1>21, <1>22, CountTypes DEF Adds, ObjectOf, AllSlots
  <2>2. \A p \in Hosts : oObjects'[p] = IF p = o THEN [kind |-> "plain", body |-> none]
          ELSE oObjects[p]
    BY <1>1, <1>2, <1>20, <1>21, <1>22 DEF Base, Types
  <2>3. oTable'.name = oTable.name /\ oTable.name[o] = none
          /\ (\A x \in AllSlots : ObjectOf(x) # o)
    BY <1>1, <1>2, <1>20, <1>21, <1>22, NewObjectIs DEF Adds
  <2>4. o # none /\ (h \in Slots => h \notin HostSlots)
    BY ConstantFacts
  <2>5. \A x \in HostSlots : ObjectOf(x) \in Hosts \cup {none}
    BY CountTypes DEF ObjectOf, AllSlots
  <2> QED
    BY <1>1, <1>2, <1>20, <1>21, <1>22, ConstantFacts, <2>1, <2>2, <2>3, <2>4, <2>5
       DEF Base, ObjectKinds, AllSlots
<1>13. AddsFit(a, o)
  <2>1. oTable.refs[o] = 0 /\ oObjects[o].kind = "none"
    BY <1>1, <1>2, <1>20, <1>21, <1>22, NewObjectIs
  <2>2. oObjects'[o].kind # "none"
    BY <1>1, <1>2, <1>20, <1>21, <1>22 DEF Base, Types
  <2> QED
    BY <1>1, <1>2, <1>20, <1>21, <1>22, <2>1, <2>2 DEF AddsFit, Destroying, Calling, Base, Types
<1>14. Adds(o, h, 1 + 1) /\ h \in AllSlots
  BY <1>1, <1>2, <1>20, <1>21, <1>22 DEF AllSlots
<1> QED
  BY <1>1, <1>2, <1>20, <1>21, <1>22, <1>9, <1>10, <1>11, <1>12, <1>13, <1>14, AddsStep

LEMMA FindWrapperNewKeeps ==
  ASSUME Base, NEW a \in oSetting.threads, NEW o \in Hosts, NEW h \in HostSlots,
         FindWrapperWith(a, o, h), UNCHANGED oSetting
  PROVE  Base'
<1>1. /\ Calling(a, "find") /\ Moved(a)
      /\ Fields(oCall'[a], "add", oCall[a].op, oCall[a].body, oCall[a].handle, o, oCall[a].outer,
           oCall[a].name, oCall[a].bias, oCall[a].derefs)
      /\ oCall[a].body \in Dispatchers /\ oCall[a].body \in Bodies
           /\ oHeader[oCall[a].body].pointers > 0
      /\ Obj!IsNewObject(o) /\ ObjectOf(h) = none
      /\ Adds(o, h, 2)
      /\ oObjects' = [oObjects EXCEPT ![o] = [kind |-> "wrapper", body |-> oCall[a].body]]
      /\ oNative' = [oNative EXCEPT ![oCall[a].body] = h]
      /\ UNCHANGED <<oByBody, oHeader, oOwned, oHeld>>
  BY FindWrapperNewDoes
<1>2. a \in Users /\ oCall[a] \in CallRec /\ Has(oCall[a]) /\ oSetting.threads \subseteq Users
  BY <1>1, UserIs DEF Calling
<1>20. /\ o # none /\ oObjects[o].kind = "none"
       /\ \A x \in Users : oCall[x].object # o /\ (oCall[x].outer = o => oCall[x].at = "destroy")
  BY <1>1, <1>2, NewObjectIs, ConstantFacts
<1>21. oObjects'[o] = [kind |-> "wrapper", body |-> oCall[a].body]
  BY <1>1, <1>2, <1>20 DEF Base, Types
<1>3. Types'
  BY <1>1, <1>2, <1>20, <1>21 DEF Base, Types, Moved, CallRec
<1>4. Within'
  BY <1>1, <1>2, <1>20, <1>21, ConstantFacts
     DEF Base, Within, Moved, SameBut, Fields, Calling, ByName, Types
<1>5. Mapped'
  BY <1>1, <1>2, <1>20, <1>21 DEF Base, Mapped, Types
<1>6. Has(oCall[a])'
  <2>1. (oCall[a].at = "idle" => oCall[a] = Obj!Idle)'
    BY <1>1, <1>2, <1>20, <1>21, ConstantFacts
       DEF Has, Opening, Closing, ByName, Fields, Calling, Obj!Idle, ObjectOf
  <2>2. (oCall[a].at \in Opening => oCall[a].op \in {"insert", "open", "duplicate", "open_named"}
          /\ oCall[a].body # none)'
    BY <1>1, <1>2, <1>20, <1>21, ConstantFacts
       DEF Has, Opening, Closing, ByName, Fields, Calling, Obj!Idle, ObjectOf
  <2>3. (oCall[a].at \in Opening
          => (oCall[a].outer = none <=> oCall[a].op \in {"insert", "open"}))'
    BY <1>1, <1>2, <1>20, <1>21, ConstantFacts
       DEF Has, Opening, Closing, ByName, Fields, Calling, Obj!Idle, ObjectOf
  <2>4. (oCall[a].at \in Opening /\ oCall[a].op # "insert" => oCall[a].bias = 1)'
    BY <1>1, <1>2, <1>20, <1>21, ConstantFacts
       DEF Has, Opening, Closing, ByName, Fields, Calling, Obj!Idle, ObjectOf
  <2>5. (oCall[a].at \in {"find", "create", "add"} /\ oCall[a].op # "duplicate"
          => oCall[a].handle = -1)'
    BY <1>1, <1>2, <1>20, <1>21, ConstantFacts
       DEF Has, Opening, Closing, ByName, Fields, Calling, Obj!Idle, ObjectOf
  <2>6. (oCall[a].at \notin {"add", "register", "count"} => oCall[a].object = none)'
    BY <1>1, <1>2, <1>20, <1>21, ConstantFacts
       DEF Has, Opening, Closing, ByName, Fields, Calling, Obj!Idle, ObjectOf
  <2>7. (oCall[a].at \in {"add", "register", "count"} =>
       oCall[a].object # none /\ oObjects[oCall[a].object] \in [kind : {"standin", "wrapper"},
         body : {oCall[a].body}])'
    BY <1>1, <1>2, <1>20, <1>21, ConstantFacts
       DEF Has, Opening, Closing, ByName, Fields, Calling, Obj!Idle, ObjectOf
  <2>8. (oCall[a].at \in {"register", "count"} => oCall[a].handle # -1
          /\ ObjectOf(oCall[a].handle) = oCall[a].object)'
    BY <1>1, <1>2, <1>20, <1>21, ConstantFacts
       DEF Has, Opening, Closing, ByName, Fields, Calling, Obj!Idle, ObjectOf
  <2>9. (oCall[a].at \in {"attributes", "contain"} =>
       oCall[a].op \in {"insert", "create_named"}
         /\ (oCall[a].at = "contain" => oCall[a].op = "insert"))'
    BY <1>1, <1>2, <1>20, <1>21, ConstantFacts
       DEF Has, Opening, Closing, ByName, Fields, Calling, Obj!Idle, ObjectOf
  <2>10. (oCall[a].at \in {"attributes", "contain"} =>
       oCall[a].handle # -1 /\ oCall[a].outer # none /\ ObjectOf(oCall[a].handle) = oCall[a].outer
         /\ oCall[a].name # none)'
    BY <1>1, <1>2, <1>20, <1>21, ConstantFacts
       DEF Has, Opening, Closing, ByName, Fields, Calling, Obj!Idle, ObjectOf
  <2>11. (oCall[a].at \in {"attributes", "contain"} /\ oCall[a].op = "insert"
           => oCall[a].body # none /\ oObjects[oCall[a].outer].body = oCall[a].body)'
    BY <1>1, <1>2, <1>20, <1>21, ConstantFacts
       DEF Has, Opening, Closing, ByName, Fields, Calling, Obj!Idle, ObjectOf
  <2>12. (oCall[a].at \in {"attributes", "contain"} /\ oCall[a].op = "create_named"
           => oCall[a].body = none /\ oObjects[oCall[a].outer].kind = "plain")'
    BY <1>1, <1>2, <1>20, <1>21, ConstantFacts
       DEF Has, Opening, Closing, ByName, Fields, Calling, Obj!Idle, ObjectOf
  <2>13. (oCall[a].at \in Closing => oCall[a].op \in {"close", "replace", "deref", "duplicate"}
           /\ oCall[a].body # none)'
    BY <1>1, <1>2, <1>20, <1>21, ConstantFacts
       DEF Has, Opening, Closing, ByName, Fields, Calling, Obj!Idle, ObjectOf
  <2>14. (oCall[a].at \in {"close", "unlink"} => oCall[a].op \in {"close", "replace"})'
    BY <1>1, <1>2, <1>20, <1>21, ConstantFacts
       DEF Has, Opening, Closing, ByName, Fields, Calling, Obj!Idle, ObjectOf
  <2>15. (oCall[a].at = "deref" => oCall[a].derefs >= 1)'
    BY <1>1, <1>2, <1>20, <1>21, ConstantFacts
       DEF Has, Opening, Closing, ByName, Fields, Calling, Obj!Idle, ObjectOf
  <2>16. (oCall[a].at = "delete" => oCall[a].derefs <= 1)'
    BY <1>1, <1>2, <1>20, <1>21, ConstantFacts
       DEF Has, Opening, Closing, ByName, Fields, Calling, Obj!Idle, ObjectOf
  <2>17. (oCall[a].at = "recount" => oCall[a].op = "replace")'
    BY <1>1, <1>2, <1>20, <1>21, ConstantFacts
       DEF Has, Opening, Closing, ByName, Fields, Calling, Obj!Idle, ObjectOf
  <2>18. (oCall[a].op = "replace" => oCall[a].at \in Closing /\ oCall[a].handle # -1)'
    BY <1>1, <1>2, <1>20, <1>21, ConstantFacts
       DEF Has, Opening, Closing, ByName, Fields, Calling, Obj!Idle, ObjectOf
  <2>19. (oCall[a].op = "replace" => ObjectOf(oCall[a].handle) # none
           /\ oObjects[ObjectOf(oCall[a].handle)].body = oCall[a].body)'
    BY <1>1, <1>2, <1>20, <1>21, ConstantFacts
       DEF Has, Opening, Closing, ByName, Fields, Calling, Obj!Idle, ObjectOf
  <2>20. (oCall[a].op \in {"close", "deref"} => oCall[a].handle = -1)'
    BY <1>1, <1>2, <1>20, <1>21, ConstantFacts
       DEF Has, Opening, Closing, ByName, Fields, Calling, Obj!Idle, ObjectOf
  <2>21. (oCall[a].at \in {"named", "unname"} => oCall[a].op \in ByName /\ oCall[a].handle # -1
           /\ oCall[a].name # none)'
    BY <1>1, <1>2, <1>20, <1>21, ConstantFacts
       DEF Has, Opening, Closing, ByName, Fields, Calling, Obj!Idle, ObjectOf
  <2>22. (oCall[a].at \in {"named", "unname"} /\ oCall[a].op = "open_named" => oCall[a].bias = 1)'
    BY <1>1, <1>2, <1>20, <1>21, ConstantFacts
       DEF Has, Opening, Closing, ByName, Fields, Calling, Obj!Idle, ObjectOf
  <2>23. (oCall[a].at = "named" => oCall[a].outer = none /\ oCall[a].body = none)'
    BY <1>1, <1>2, <1>20, <1>21, ConstantFacts
       DEF Has, Opening, Closing, ByName, Fields, Calling, Obj!Idle, ObjectOf
  <2>24. (oCall[a].at = "unname" => oCall[a].outer # none /\ ObjectOf(oCall[a].handle)
           = oCall[a].outer)'
    BY <1>1, <1>2, <1>20, <1>21, ConstantFacts
       DEF Has, Opening, Closing, ByName, Fields, Calling, Obj!Idle, ObjectOf
  <2>25. (oCall[a].at = "unname" => oObjects[oCall[a].outer].body = oCall[a].body)'
    BY <1>1, <1>2, <1>20, <1>21, ConstantFacts
       DEF Has, Opening, Closing, ByName, Fields, Calling, Obj!Idle, ObjectOf
  <2>26. (oCall[a].at = "unname" /\ oCall[a].op = "open_named" => oCall[a].body # none)'
    BY <1>1, <1>2, <1>20, <1>21, ConstantFacts
       DEF Has, Opening, Closing, ByName, Fields, Calling, Obj!Idle, ObjectOf
  <2>27. (oCall[a].at = "construct" => oCall[a].op = "create_named" /\ oCall[a].outer = none
           /\ oCall[a].body = none)'
    BY <1>1, <1>2, <1>20, <1>21, ConstantFacts
       DEF Has, Opening, Closing, ByName, Fields, Calling, Obj!Idle, ObjectOf
  <2>28. (oCall[a].at = "construct" => oCall[a].handle = -1 /\ oCall[a].name # none)'
    BY <1>1, <1>2, <1>20, <1>21, ConstantFacts
       DEF Has, Opening, Closing, ByName, Fields, Calling, Obj!Idle, ObjectOf
  <2>29. (oCall[a].at = "return" => oCall[a].op # "none"
           /\ (oCall[a].op \in {"insert", "open"} => oCall[a].body # none))'
    BY <1>1, <1>2, <1>20, <1>21, ConstantFacts
       DEF Has, Opening, Closing, ByName, Fields, Calling, Obj!Idle, ObjectOf
  <2>30. (oCall[a].at = "destroy" => oCall[a].outer # none /\ oCall[a].handle = -1
           /\ oCall[a].body = none)'
    BY <1>1, <1>2, <1>20, <1>21, ConstantFacts
       DEF Has, Opening, Closing, ByName, Fields, Calling, Obj!Idle, ObjectOf
  <2> QED
    BY <2>1, <2>2, <2>3, <2>4, <2>5, <2>6, <2>7, <2>8, <2>9, <2>10, <2>11, <2>12, <2>13, <2>14,
       <2>15, <2>16, <2>17, <2>18, <2>19, <2>20, <2>21, <2>22, <2>23, <2>24, <2>25, <2>26, <2>27,
       <2>28, <2>29, <2>30 DEF Has, Opening, Closing
<1>7. KeepsPast(a)
  <2>1. \A x \in Bodies : Inserts(oCall'[a], x) => Inserts(oCall[a], x)
    BY <1>1, <1>2, <1>20, <1>21 DEF Inserts, Fields, Calling, Opening, Has
  <2>2. oCall'[a].at \in Opening => oCall[a].at \in Opening /\ oCall'[a].body = oCall[a].body
    BY <1>1, <1>2, <1>20, <1>21 DEF Fields, Opening, Calling
  <2>3. \A p \in Hosts : \/ oObjects'[p] = oObjects[p]
                         \/ oObjects'[p].body = none
                         \/ oObjects'[p].body = oCall[a].body /\ oCall[a].at \in Opening
    BY <1>1, <1>2, <1>20, <1>21 DEF Base, Types, Opening, Calling
  <2> QED
    BY <1>1, <1>2, <1>20, <1>21, <2>1, <2>2, <2>3, PastGrows
<1>8. KeepsNames(a)
  <2>1. oTable'.name = oTable.name /\ Obj!IsNewObject(o)
    BY <1>1, <1>2, <1>20, <1>21 DEF Adds
  <2>2. \A p \in Hosts : p # o => oObjects'[p] = oObjects[p]
    BY <1>1, <1>2, <1>20, <1>21 DEF Base, Types
  <2>3. \A p \in Hosts : Naming(oCall'[a], p) => p = o
    BY <1>1, <1>2, <1>20, <1>21 DEF Naming, Fields
  <2>4. \A b \in Bodies : Inserts(oCall'[a], b) /\ oCall'[a].at # "contain" =>
          Inserts(oCall[a], b) /\ oCall[a].at # "contain"
    BY <1>1, <1>2, <1>20, <1>21 DEF Inserts, Fields, Calling, Opening, Has
  <2> QED
    BY <1>1, <1>2, <1>20, <1>21, <2>1, <2>2, <2>3, <2>4, NewNames
<1>9. GainsRefs(a, o, 1)
  BY <1>1, <1>2, <1>20, <1>21, ConstantFacts
     DEF GainsRefs, Mine, Num, Fields, Calling, Has, Obj!Idle
<1>10. KeepsHandles(a, h, 1)
  <2> SUFFICES ASSUME NEW x \in Slots
      PROVE  oOwned'[x] + Num(HasHandle(oCall'[a], x))
               = oOwned[x] + Num(HasHandle(oCall[a], x)) + (IF x = h THEN 1 ELSE 0)
    BY DEF KeepsHandles, Claims
  <2>1. HasHandle(oCall'[a], x) <=> FALSE
    BY <1>1, <1>2, <1>20, <1>21, ConstantFacts DEF HasHandle, Fields, Calling, Has, Obj!Idle
  <2>2. HasHandle(oCall[a], x) <=> FALSE
    BY <1>1, <1>2, <1>20, <1>21, ConstantFacts DEF HasHandle, Fields, Calling, Has, Obj!Idle
  <2>3. oOwned[x] \in Nat /\ oOwned'[x] = oOwned[x]
    BY <1>1, <1>2, <1>20, <1>21 DEF Base, Types, Gives
  <2> QED
    BY <1>1, <1>2, <1>20, <1>21, <2>1, <2>2, <2>3, ConstantFacts DEF Num
<1>11. Rest(a)
  BY <1>1, <1>3, <1>4, <1>5, <1>6, <1>7, <1>8 DEF Rest
<1>12. ObjectKinds'
  <2>1. \A x \in HostSlots : ObjectOf(x)' = IF x = h THEN o ELSE ObjectOf(x)
    BY <1>1, <1>2, <1>20, <1>21, CountTypes DEF Adds, ObjectOf, AllSlots
  <2>2. \A p \in Hosts : oObjects'[p] = IF p = o THEN [kind |-> "wrapper", body |-> oCall[a].body]
          ELSE oObjects[p]
    BY <1>1, <1>2, <1>20, <1>21 DEF Base, Types
  <2>3. oTable'.name = oTable.name /\ oTable.name[o] = none
          /\ (\A x \in AllSlots : ObjectOf(x) # o)
    BY <1>1, <1>2, <1>20, <1>21, NewObjectIs DEF Adds
  <2>4. o # none /\ (h \in Slots => h \notin HostSlots)
    BY ConstantFacts
  <2>5. \A x \in HostSlots : ObjectOf(x) \in Hosts \cup {none}
    BY CountTypes DEF ObjectOf, AllSlots
  <2> QED
    BY <1>1, <1>2, <1>20, <1>21, ConstantFacts, <2>1, <2>2, <2>3, <2>4, <2>5
       DEF Base, ObjectKinds, AllSlots
<1>13. AddsFit(a, o)
  <2>1. oTable.refs[o] = 0 /\ oObjects[o].kind = "none"
    BY <1>1, <1>2, <1>20, <1>21, NewObjectIs
  <2>2. oObjects'[o].kind # "none"
    BY <1>1, <1>2, <1>20, <1>21 DEF Base, Types
  <2> QED
    BY <1>1, <1>2, <1>20, <1>21, <2>1, <2>2 DEF AddsFit, Destroying, Calling, Base, Types
<1>14. Adds(o, h, 1 + 1) /\ h \in AllSlots
  BY <1>1, <1>2, <1>20, <1>21 DEF AllSlots
<1> QED
  BY <1>1, <1>2, <1>20, <1>21, <1>9, <1>10, <1>11, <1>12, <1>13, <1>14, AddsStep

-----------------------------------------------------------------------------
\* The steps that only pass a reference on, to the call itself or to the title.
LEMMA StillStep ==
  ASSUME Base, NEW a \in Users, Types', Within', Mapped', Moved(a), Has(oCall[a])', KeepsPast(a),
         KeepsNames(a), UNCHANGED <<oTable, oObjects>>,
         \A o \in Hosts : Mine(oCall'[a], o) = Mine(oCall[a], o),
         \A h \in Slots : Claims(oOwned', oCall'[a], h) = Claims(oOwned, oCall[a], h),
         oCall[a].at # "destroy", oCall'[a].at # "destroy"
  PROVE  Base'
<1>1. Sound(oTable)' /\ ObjectKinds'
  BY DEF Base, Sound, Tables, First, ObjectKinds, ObjectOf
<1>2. KeepsOthers(a)
  BY DEF KeepsOthers, ObjectOf
<1>3. MovesRefs(a, 0)
  <2>1. SameBut(AllSlots, oTable.entry, oTable'.entry, 0)
    BY DEF SameBut
  <2>2. \A o \in Hosts : ~Destroying(oCall[a], o) /\ ~Destroying(oCall'[a], o)
    BY DEF Destroying
  <2>3. \A o \in Hosts : oTable'.refs[o] > 0 => oObjects'[o].kind # "none"
    BY DEF Base, Referred
  <2> QED
    BY <2>1, <2>2, <2>3 DEF MovesRefs
<1>4. MovesHandles(a)
  <2> SUFFICES ASSUME NEW h \in Slots
      PROVE  oTable'.entry[h].refs + oOwned[h] + Num(HasHandle(oCall[a], h))
               = oTable.entry[h].refs + oOwned'[h] + Num(HasHandle(oCall'[a], h))
    BY DEF MovesHandles
  <2>1. oOwned[h] \in Nat /\ oOwned'[h] \in Nat /\ oTable.entry[h].refs \in Nat
    BY CountTypes DEF AllSlots, Types
  <2>2. oOwned'[h] + Num(HasHandle(oCall'[a], h)) = oOwned[h] + Num(HasHandle(oCall[a], h))
    BY DEF Claims
  <2> QED
    BY <2>1, <2>2, NumType
<1> QED
  BY <1>1, <1>2, <1>3, <1>4, CallStep

LEMMA FindStandInNotKeeps ==
  ASSUME Base, NEW a \in oSetting.threads, Obj!FindStandIn(a), UNCHANGED oSetting,
         ~(oByBody[oCall[a].body] # none /\ oTable.refs[oByBody[oCall[a].body]] > 0)
  PROVE  Base'
<1>1. /\ Calling(a, "find") /\ Moved(a)
      /\ Fields(oCall'[a], "create", oCall[a].op, oCall[a].body, oCall[a].handle, oCall[a].object,
           oCall[a].outer, oCall[a].name, oCall[a].bias, oCall[a].derefs)
      /\ UNCHANGED <<oTable, oObjects, oByBody, oNative, oHeader, oOwned, oHeld>>
  BY FindStandInNotDoes
<1>2. a \in Users /\ oCall[a] \in CallRec /\ Has(oCall[a]) /\ oSetting.threads \subseteq Users
  BY <1>1, UserIs DEF Calling
<1>3. Types'
  BY <1>1, <1>2 DEF Base, Types, Moved, CallRec
<1>4. Within'
  BY <1>1, <1>2, ConstantFacts DEF Base, Within, Moved, SameBut, Fields, Calling, ByName, Types
<1>5. Has(oCall[a])'
  BY <1>1, <1>2, ConstantFacts DEF Has, Opening, Closing, ByName, Fields, Calling, ObjectOf
<1>11. Mapped'
  BY <1>1, <1>2 DEF Base, Mapped, Types, Has, Calling, CallRec
<1>6. KeepsPast(a)
  <2>1. \A x \in Bodies : Past(x) => Past(x)'
    BY <1>1, <1>2 DEF Past
  <2>2. \A x \in Bodies : Inserts(oCall'[a], x) => Inserts(oCall[a], x)
    BY <1>1, <1>2 DEF Inserts, Fields, Calling, Opening, Has
  <2>3. oCall'[a].at \in Opening => /\ oCall'[a].body \in Bodies
                                    /\ oHeader[oCall'[a].body].state \notin {"none", "new"}
    BY <1>1, <1>2 DEF Fields, Opening, Calling, CallRec, Has, Base, Inserted, Past
  <2> QED
    BY <1>1, <1>2, <2>1, <2>2, <2>3, PastStays
<1>7. /\ \A o \in Hosts : Mine(oCall'[a], o) = Mine(oCall[a], o)
      /\ \A h \in Slots : HasHandle(oCall'[a], h) <=> HasHandle(oCall[a], h)
      /\ oCall[a].at # "destroy" /\ oCall'[a].at # "destroy"
      /\ \A o \in Hosts : ~Naming(oCall'[a], o)
  BY <1>1, <1>2, ConstantFacts DEF Mine, HasHandle, Naming, Fields, Calling, Has, Num, Obj!Idle
<1>8. \A x \in Bodies : Inserts(oCall'[a], x) /\ oCall'[a].at # "contain" =>
        \/ Inserts(oCall[a], x) /\ oCall[a].at # "contain"
        \/ \A o \in Hosts : oObjects[o].body # x
  BY <1>1, <1>2 DEF Inserts, Fields, Calling, Opening, Closing, Has
<1> QED
  BY <1>1, <1>2, <1>3, <1>4, <1>5, <1>6, <1>7, <1>8, <1>11, QuietStep

LEMMA LookupNoneKeeps ==
  ASSUME Base, NEW a \in oSetting.threads, NEW op \in ByName, NEW n \in ObjectNames,
         NEW bias \in 0..1, Obj!LookupByName(a, op, n, bias), UNCHANGED oSetting,
         oTable.names[n] = -1
  PROVE  Base'
<1>1. /\ Calling(a, "idle") /\ Moved(a)
      /\ Fields(oCall'[a], "construct", op, none, -1, none, none, n, 0, 0)
      /\ op = "create_named" /\ op \in oSetting.ops
      /\ UNCHANGED <<oTable, oObjects, oByBody, oNative, oHeader, oOwned, oHeld>>
  BY LookupNoneDoes
<1>2. a \in Users /\ oCall[a] \in CallRec /\ Has(oCall[a]) /\ oSetting.threads \subseteq Users
  BY <1>1, UserIs DEF Calling
<1>3. Types'
  BY <1>1, <1>2 DEF Base, Types, Moved, CallRec
<1>4. Within'
  BY <1>1, <1>2, ConstantFacts DEF Base, Within, Moved, SameBut, Fields, Calling, ByName, Types
<1>5. Has(oCall[a])'
  BY <1>1, <1>2, ConstantFacts DEF Has, Opening, Closing, ByName, Fields, Calling, ObjectOf
<1>11. Mapped'
  BY <1>1, <1>2 DEF Base, Mapped, Types, Has, Calling, CallRec
<1>6. KeepsPast(a)
  <2>1. \A x \in Bodies : Past(x) => Past(x)'
    BY <1>1, <1>2 DEF Past
  <2>2. \A x \in Bodies : Inserts(oCall'[a], x) => Inserts(oCall[a], x)
    BY <1>1, <1>2 DEF Inserts, Fields, Calling, Opening, Has
  <2>3. oCall'[a].at \in Opening => /\ oCall'[a].body \in Bodies
                                    /\ oHeader[oCall'[a].body].state \notin {"none", "new"}
    BY <1>1, <1>2 DEF Fields, Opening, Calling, CallRec, Has, Base, Inserted, Past
  <2> QED
    BY <1>1, <1>2, <2>1, <2>2, <2>3, PastStays
<1>7. /\ \A o \in Hosts : Mine(oCall'[a], o) = Mine(oCall[a], o)
      /\ \A h \in Slots : HasHandle(oCall'[a], h) <=> HasHandle(oCall[a], h)
      /\ oCall[a].at # "destroy" /\ oCall'[a].at # "destroy"
      /\ \A o \in Hosts : ~Naming(oCall'[a], o)
  BY <1>1, <1>2, ConstantFacts DEF Mine, HasHandle, Naming, Fields, Calling, Has, Num, Obj!Idle
<1>8. \A x \in Bodies : Inserts(oCall'[a], x) /\ oCall'[a].at # "contain" =>
        \/ Inserts(oCall[a], x) /\ oCall[a].at # "contain"
        \/ \A o \in Hosts : oObjects[o].body # x
  BY <1>1, <1>2 DEF Inserts, Fields, Calling, Opening, Closing, Has
<1> QED
  BY <1>1, <1>2, <1>3, <1>4, <1>5, <1>6, <1>7, <1>8, <1>11, QuietStep

LEMMA InsertKeeps ==
  ASSUME Base, NEW a \in oSetting.threads, NEW b \in Bodies, NEW n \in ObjectNames \cup {none},
         NEW bias \in oSetting.biases, Obj!Insert(a, b, n, bias), UNCHANGED oSetting
  PROVE  Base'
<1>1. /\ Calling(a, "idle") /\ Moved(a)
      /\ Fields(oCall'[a], "find", "insert", b, -1, none, none, n, bias, 0)
      /\ Becomes(b, oHeader[b].pointers, oHeader[b].handles, oHeader[b].contained, "live")
      /\ oHeader[b].state = "new" /\ oHeld[b] = 1 /\ oHeld' = [oHeld EXCEPT ![b] = 0]
           /\ bias \in 0..MaxHeld
      /\ UNCHANGED <<oTable, oObjects, oByBody, oNative, oOwned>>
  BY InsertDoes
<1>2. a \in Users /\ oCall[a] \in CallRec /\ Has(oCall[a]) /\ oSetting.threads \subseteq Users
  BY <1>1, UserIs DEF Calling
<1>3. Types'
  BY <1>1, <1>2 DEF Base, Types, Moved, Becomes
<1>4. b \in oSetting.bodies /\ b # none /\ ~Past(b)
  BY <1>1, ConstantFacts DEF Base, Within, Past
<1>5. Within'
  <2>1. oCall'[a].op \notin ByName \cup {"replace"} /\ oCall'[a].body = b
    BY <1>1 DEF ByName, Fields
  <2>2. \A o \in Hosts : oObjects'[o].body \in oSetting.bodies \cup {none}
    BY <1>1 DEF Base, Within
  <2>3. \A x \in Bodies : oHeader'[x].state # "none" \/ oHeld'[x] > 0 => x \in oSetting.bodies
    BY <1>1, <1>4 DEF Base, Within, Becomes, SameBut, Types
  <2> QED
    BY <1>1, <1>2, <1>4, <2>1, <2>2, <2>3, WithinStep
<1>6. Mapped'
  BY <1>1 DEF Base, Mapped
<1>7. Has(oCall[a])'
  BY <1>1, <1>2, <1>4, ConstantFacts DEF Has, Opening, Closing, ByName, Fields, Calling
<1>8. \A o \in Hosts : oObjects[o].body # b
  BY <1>4 DEF Base, Inserted
<1>9. KeepsPast(a)
  <2>1. \A x \in Bodies : Past(x) => Past(x)'
    BY <1>1 DEF Past, Becomes, SameBut
  <2>2. Past(b)'
    BY <1>1 DEF Past, Becomes
  <2>3. oCall'[a].body = b
    BY <1>1 DEF Fields
  <2>4. \A x \in Bodies : Inserts(oCall'[a], x) => x = b
    BY <2>3 DEF Inserts
  <2>5. \A o \in Hosts : (oObjects[o].body # none => Past(oObjects[o].body))'
    <3> SUFFICES ASSUME NEW o \in Hosts, oObjects[o].body # none PROVE Past(oObjects[o].body)'
      BY <1>1
    <3>1. Past(oObjects[o].body) /\ oObjects[o].body \in Bodies
      BY DEF Base, Inserted, Types
    <3> QED
      BY <3>1, <2>1, <1>1 DEF Past
  <2>6. (oCall[a].at \in Opening => Past(oCall[a].body))'
    BY <2>2, <2>3 DEF Past
  <2> QED
    BY <2>1, <2>2, <2>4, <2>5, <2>6, <1>4 DEF KeepsPast
<1>10. /\ \A o \in Hosts : Mine(oCall'[a], o) = Mine(oCall[a], o)
       /\ \A h \in Slots : HasHandle(oCall'[a], h) <=> HasHandle(oCall[a], h)
       /\ oCall[a].at # "destroy" /\ oCall'[a].at # "destroy"
       /\ \A o \in Hosts : ~Naming(oCall'[a], o)
  BY <1>1, <1>2, ConstantFacts DEF Mine, HasHandle, Naming, Fields, Calling, Has, Num, Obj!Idle
<1>11. \A x \in Bodies : Inserts(oCall'[a], x) /\ oCall'[a].at # "contain" =>
        \/ Inserts(oCall[a], x) /\ oCall[a].at # "contain"
        \/ \A o \in Hosts : oObjects[o].body # x
  BY <1>1, <1>8 DEF Inserts, Fields
<1> QED
  BY <1>1, <1>2, <1>3, <1>5, <1>6, <1>7, <1>9, <1>10, <1>11, QuietStep

LEMMA CountInsertKeeps ==
  ASSUME Base, NEW a \in oSetting.threads, Obj!Count(a), UNCHANGED oSetting,
         oCall[a].op = "insert"
  PROVE  Base'
<1>1. /\ Calling(a, "count") /\ Moved(a)
      /\ Fields(oCall'[a],
                IF oCall[a].name # none THEN "attributes" ELSE "return", oCall[a].op,
                  oCall[a].body, oCall[a].handle, none, oCall[a].object, oCall[a].name,
                  oCall[a].bias, 0)
      /\ oCall[a].body \in Bodies /\ oCall[a].object \in Hosts
      /\ Becomes(oCall[a].body, oHeader[oCall[a].body].pointers + oCall[a].bias,
                 oHeader[oCall[a].body].handles + 1, oHeader[oCall[a].body].contained,
                 oHeader[oCall[a].body].state)
      /\ UNCHANGED <<oTable, oObjects, oByBody, oNative, oOwned, oHeld>>
  BY CountInsertDoes
<1>2. a \in Users /\ oCall[a] \in CallRec /\ Has(oCall[a]) /\ oSetting.threads \subseteq Users
  BY <1>1, UserIs DEF Calling
<1>3. Types'
  BY <1>1, <1>2 DEF Base, Types, Moved, CallRec, Becomes
<1>4. Within'
  <2>1. oCall'[a].op \in ByName \cup {"replace"} => oCall'[a].op \in oSetting.ops
    BY <1>1, <1>2 DEF ByName, Fields, Calling, Base, Within
  <2>2. oCall'[a].body \in oSetting.bodies \cup {none}
    BY <1>1, <1>2 DEF Fields, Calling, Base, Within
  <2>3. \A o \in Hosts : oObjects'[o].body \in oSetting.bodies \cup {none}
    BY <1>1, <1>2 DEF Base, Within, Types
  <2>4. \A b \in Bodies : oHeader'[b].state # "none" \/ oHeld'[b] > 0 => b \in oSetting.bodies
    BY <1>1, <1>2 DEF Base, Within, Becomes, SameBut
  <2> QED
    BY <1>1, <1>2, <2>1, <2>2, <2>3, <2>4, WithinStep
<1>5. Mapped'
  BY <1>1 DEF Base, Mapped
<1>6. /\ oObjects[oCall[a].object].body = oCall[a].body /\ oCall[a].body # none
      /\ oObjects[oCall[a].object].kind \in {"standin", "wrapper"}
      /\ oCall[a].handle # -1 /\ ObjectOf(oCall[a].handle) = oCall[a].object
           /\ oCall[a].outer = none
      /\ oCall[a].object # none
  BY <1>1, <1>2 DEF Calling, Has, Opening
<1>7. Has(oCall[a])'
  <2>1. ObjectOf(oCall[a].handle)' = ObjectOf(oCall[a].handle)
    BY <1>1 DEF ObjectOf, Fields
  <2>2. oObjects' = oObjects
    BY <1>1
  <2> QED
    BY <1>1, <1>6, <2>1, <2>2 DEF Has, Opening, Closing, ByName, Fields
<1>8. Inserts(oCall[a], oCall[a].body)
  BY <1>1 DEF Inserts, Calling, Opening
<1>9. KeepsPast(a)
  <2>1. \A x \in Bodies : Past(x) => Past(x)'
    BY <1>1 DEF Past, Becomes, SameBut
  <2>2. \A x \in Bodies : Inserts(oCall'[a], x) => Inserts(oCall[a], x)
    BY <1>1, <1>2 DEF Inserts, Fields, Calling, Opening
  <2>3. oCall'[a].at \notin Opening
    BY <1>1 DEF Fields, Opening
  <2> QED
    BY <1>1, <1>2, <2>1, <2>2, <2>3, PastStays
<1>10. KeepsNames(a)
  <2>1. \A p \in Hosts : Naming(oCall'[a], p) => p = oCall[a].object
    BY <1>1 DEF Naming, Fields
  <2>2. oTable.name[oCall[a].object] = none
    BY <1>1, <1>2, <1>6, <1>8 DEF Base, Named, Calling
  <2>3. ASSUME NEW x \in Users, x # a PROVE ~Naming(oCall[x], oCall[a].object)
    <3> SUFFICES ASSUME Naming(oCall[x], oCall[a].object) PROVE FALSE
      OBVIOUS
    <3>1. Has(oCall[x])
      BY UserIs
    <3>2. oCall[x].at = "attributes" /\ oCall[x].outer = oCall[a].object
      BY DEF Naming
    <3>3. oCall[x].op = "insert" /\ oCall[x].body = oCall[a].body
      BY <3>1, <3>2, <1>6 DEF Has
    <3>4. Inserts(oCall[x], oCall[a].body)
      BY <3>2, <3>3 DEF Inserts
    <3> QED
      BY <1>1, <1>2, <1>8, <2>3, <3>4 DEF Base, Inserted
  <2>4. \A p \in Hosts : Inserts(oCall[a], oObjects[p].body) /\ oObjects[p].body # none
          => oTable.name[p] = none
    BY <1>1, <1>2 DEF Base, Named, Calling
  <2>5. \A p \in Hosts : Inserts(oCall'[a], oObjects[p].body)
          => Inserts(oCall[a], oObjects[p].body)
    BY <1>1, <1>2 DEF Inserts, Fields, Calling, Opening
  <2>6. oTable' = oTable /\ oObjects' = oObjects
    BY <1>1
  <2> QED
    BY <2>1, <2>2, <2>3, <2>4, <2>5, <2>6 DEF KeepsNames
<1>11. \A o \in Hosts : Mine(oCall'[a], o) = Mine(oCall[a], o)
  BY <1>1, <1>6, ConstantFacts DEF Mine, Fields, Calling, Num
<1>12. \A h \in Slots : HasHandle(oCall'[a], h) <=> HasHandle(oCall[a], h)
  BY <1>1 DEF HasHandle, Fields, Calling
<1>13. \A h \in Slots : Claims(oOwned', oCall'[a], h) = Claims(oOwned, oCall[a], h)
  BY <1>1, <1>12 DEF Claims, Num
<1>14. oCall[a].at # "destroy" /\ oCall'[a].at # "destroy"
  BY <1>1 DEF Fields, Calling
<1> QED
  BY <1>1, <1>2, <1>3, <1>4, <1>5, <1>7, <1>9, <1>10, <1>11, <1>13, <1>14, StillStep

LEMMA ReturnQuietKeeps ==
  ASSUME Base, NEW a \in oSetting.threads, Obj!Return(a), UNCHANGED oSetting,
         oCall[a].outer = none
  PROVE  Base'
<1>1. /\ Calling(a, "return") /\ Moved(a)
      /\ Fields(oCall'[a], "idle", "none", none, -1, none, none, none, 0, 0)
      /\ Gives(oCall[a])
      /\ UNCHANGED oTable
      /\ UNCHANGED <<oObjects, oByBody, oNative, oHeader>>
  BY ReturnQuietDoes
<1>2. a \in Users /\ oCall[a] \in CallRec /\ Has(oCall[a]) /\ oSetting.threads \subseteq Users
  BY <1>1, UserIs DEF Calling
<1>20. /\ oOwned' \in [Slots -> Nat] /\ oHeld' \in [Bodies -> Nat]
       /\ \A x \in Slots : oOwned'[x] = oOwned[x] + (IF x = oCall[a].handle THEN 1 ELSE 0)
       /\ \A b \in Bodies : oHeld'[b] > 0 => b \in oSetting.bodies
  BY <1>1, <1>2, GivesTypes DEF Calling
<1>3. Types'
  BY <1>1, <1>2, <1>20 DEF Base, Types, Moved
<1>4. Within'
  <2>1. oCall'[a].op \in ByName \cup {"replace"} => oCall'[a].op \in oSetting.ops
    BY <1>1, <1>2 DEF ByName, Fields, Calling, Base, Within
  <2>2. oCall'[a].body \in oSetting.bodies \cup {none}
    BY <1>1, <1>2 DEF Fields, Calling, Base, Within
  <2>3. \A o \in Hosts : oObjects'[o].body \in oSetting.bodies \cup {none}
    BY <1>1, <1>2 DEF Base, Within, Types
  <2>4. \A b \in Bodies : oHeader'[b].state # "none" \/ oHeld'[b] > 0 => b \in oSetting.bodies
    <3>1. \A b \in Bodies : oHeader'[b].state # "none" => b \in oSetting.bodies
      <4>1. oHeader' = oHeader
        BY <1>1
      <4> QED
        BY <4>1 DEF Base, Within
    <3> QED
      BY <1>20, <3>1
  <2> QED
    BY <1>1, <1>2, <2>1, <2>2, <2>3, <2>4, WithinStep
<1>5. Mapped'
  BY <1>1 DEF Base, Mapped
<1>9. KeepsPast(a)
  <2>1. \A x \in Bodies : Past(x) => Past(x)'
    BY <1>1 DEF Past
  <2>2. \A x \in Bodies : ~Inserts(oCall'[a], x)
    BY <1>1 DEF Inserts, Fields
  <2>3. oCall'[a].at \notin Opening
    BY <1>1 DEF Fields, Opening
  <2> QED
    BY <1>1, <1>2, <2>1, <2>2, <2>3, PastStays
<1>10. KeepsNames(a)
  <2>1. oTable'.name = oTable.name /\ UNCHANGED oObjects
    BY <1>1 DEF Refers
  <2>2. \A p \in Hosts : ~Naming(oCall'[a], p)
    BY <1>1 DEF Naming, Fields
  <2>3. \A b \in Bodies : ~Inserts(oCall'[a], b)
    BY <1>1 DEF Inserts, Fields
  <2> QED
    BY <1>1, <1>2, <2>1, <2>2, <2>3, NamesStay
<1>12. \A h \in Slots : HasHandle(oCall'[a], h) <=> FALSE
  BY <1>1, ConstantFacts DEF HasHandle, Fields
<1>15. \A h \in Slots : HasHandle(oCall[a], h) <=> h = oCall[a].handle
  BY <1>1 DEF HasHandle, Calling
<1>13. \A h \in Slots : Claims(oOwned', oCall'[a], h) = Claims(oOwned, oCall[a], h)
  <2> SUFFICES ASSUME NEW h \in Slots
      PROVE  oOwned'[h] + Num(HasHandle(oCall'[a], h)) = oOwned[h] + Num(HasHandle(oCall[a], h))
    BY DEF Claims
  <2>1. oOwned[h] \in Nat
    BY DEF Base, Types
  <2> QED
    BY <2>1, <1>12, <1>15, <1>20 DEF Num
<1>7. Has(oCall[a])'
  <2>1. oCall'[a] = Obj!Idle
    BY <1>1, <1>2, IdleIs DEF Moved
  <2> QED
    BY <2>1, <1>1 DEF Has, Opening, Closing, ByName, Fields
<1>11. \A o \in Hosts : Mine(oCall'[a], o) = Mine(oCall[a], o)
  BY <1>1, <1>2, ConstantFacts DEF Mine, Fields, Calling, Num, Has
<1>14. oCall[a].at # "destroy" /\ oCall'[a].at # "destroy"
  BY <1>1 DEF Fields, Calling
<1> QED
  BY <1>1, <1>2, <1>3, <1>4, <1>5, <1>7, <1>9, <1>10, <1>11, <1>13, <1>14, StillStep

LEMMA ReturnLastKeeps ==
  ASSUME Base, NEW a \in oSetting.threads, Obj!Return(a), UNCHANGED oSetting,
         oCall[a].outer # none, oTable.refs[oCall[a].outer] = 1
  PROVE  Base'
<1>1. /\ Calling(a, "return") /\ Moved(a)
      /\ Fields(oCall'[a], "destroy", "none", none, -1, none, oCall[a].outer, none, 0, 0)
      /\ oCall[a].outer \in Hosts
      /\ Gives(oCall[a])
      /\ Refers(oCall[a].outer, -1)
      /\ UNCHANGED <<oObjects, oByBody, oNative, oHeader>>
  BY ReturnLastDoes
<1>2. a \in Users /\ oCall[a] \in CallRec /\ Has(oCall[a]) /\ oSetting.threads \subseteq Users
  BY <1>1, UserIs DEF Calling
<1>20. /\ oOwned' \in [Slots -> Nat] /\ oHeld' \in [Bodies -> Nat]
       /\ \A x \in Slots : oOwned'[x] = oOwned[x] + (IF x = oCall[a].handle THEN 1 ELSE 0)
       /\ \A b \in Bodies : oHeld'[b] > 0 => b \in oSetting.bodies
  BY <1>1, <1>2, GivesTypes DEF Calling
<1>3. Types'
  BY <1>1, <1>2, <1>20 DEF Base, Types, Moved
<1>4. Within'
  <2>1. oCall'[a].op \in ByName \cup {"replace"} => oCall'[a].op \in oSetting.ops
    BY <1>1, <1>2 DEF ByName, Fields, Calling, Base, Within
  <2>2. oCall'[a].body \in oSetting.bodies \cup {none}
    BY <1>1, <1>2 DEF Fields, Calling, Base, Within
  <2>3. \A o \in Hosts : oObjects'[o].body \in oSetting.bodies \cup {none}
    BY <1>1, <1>2 DEF Base, Within, Types
  <2>4. \A b \in Bodies : oHeader'[b].state # "none" \/ oHeld'[b] > 0 => b \in oSetting.bodies
    <3>1. \A b \in Bodies : oHeader'[b].state # "none" => b \in oSetting.bodies
      <4>1. oHeader' = oHeader
        BY <1>1
      <4> QED
        BY <4>1 DEF Base, Within
    <3> QED
      BY <1>20, <3>1
  <2> QED
    BY <1>1, <1>2, <2>1, <2>2, <2>3, <2>4, WithinStep
<1>5. Mapped'
  BY <1>1 DEF Base, Mapped
<1>9. KeepsPast(a)
  <2>1. \A x \in Bodies : Past(x) => Past(x)'
    BY <1>1 DEF Past
  <2>2. \A x \in Bodies : ~Inserts(oCall'[a], x)
    BY <1>1 DEF Inserts, Fields
  <2>3. oCall'[a].at \notin Opening
    BY <1>1 DEF Fields, Opening
  <2> QED
    BY <1>1, <1>2, <2>1, <2>2, <2>3, PastStays
<1>10. KeepsNames(a)
  <2>1. oTable'.name = oTable.name /\ UNCHANGED oObjects
    BY <1>1 DEF Refers
  <2>2. \A p \in Hosts : ~Naming(oCall'[a], p)
    BY <1>1 DEF Naming, Fields
  <2>3. \A b \in Bodies : ~Inserts(oCall'[a], b)
    BY <1>1 DEF Inserts, Fields
  <2> QED
    BY <1>1, <1>2, <2>1, <2>2, <2>3, NamesStay
<1>12. \A h \in Slots : HasHandle(oCall'[a], h) <=> FALSE
  BY <1>1, ConstantFacts DEF HasHandle, Fields
<1>15. \A h \in Slots : HasHandle(oCall[a], h) <=> h = oCall[a].handle
  BY <1>1 DEF HasHandle, Calling
<1>13. \A h \in Slots : Claims(oOwned', oCall'[a], h) = Claims(oOwned, oCall[a], h)
  <2> SUFFICES ASSUME NEW h \in Slots
      PROVE  oOwned'[h] + Num(HasHandle(oCall'[a], h)) = oOwned[h] + Num(HasHandle(oCall[a], h))
    BY DEF Claims
  <2>1. oOwned[h] \in Nat
    BY DEF Base, Types
  <2> QED
    BY <2>1, <1>12, <1>15, <1>20 DEF Num
<1>7. Has(oCall[a])'
  BY <1>1 DEF Has, Opening, Closing, ByName, Fields
<1>6. Sound(oTable)' /\ oTable'.entry = oTable.entry /\ oTable'.name = oTable.name
        /\ oObjects' = oObjects
  BY <1>1 DEF Refers
<1>8. ObjectKinds'
  <2>1. \A h \in HostSlots : ObjectOf(h)' = ObjectOf(h)
    BY <1>6 DEF ObjectOf
  <2> QED
    BY <1>6, <2>1 DEF Base, ObjectKinds
<1>11. KeepsOthers(a)
  BY <1>6 DEF KeepsOthers, ObjectOf
<1>14. /\ \A p \in Hosts : Mine(oCall[a], p) = IF p = oCall[a].outer THEN 1 ELSE 0
       /\ \A p \in Hosts : Mine(oCall'[a], p) = 0
  BY <1>1, <1>2, ConstantFacts DEF Mine, Fields, Calling, Num, Has
<1>16. MovesHandles(a)
  <2> SUFFICES ASSUME NEW h \in Slots
      PROVE  oTable'.entry[h].refs + oOwned[h] + Num(HasHandle(oCall[a], h))
               = oTable.entry[h].refs + oOwned'[h] + Num(HasHandle(oCall'[a], h))
    BY DEF MovesHandles
  <2>1. oOwned[h] \in Nat /\ oOwned'[h] \in Nat /\ oTable.entry[h].refs \in Nat
    BY <1>2, <1>3, CountTypes DEF AllSlots, Types
  <2>2. oOwned'[h] + Num(HasHandle(oCall'[a], h)) = oOwned[h] + Num(HasHandle(oCall[a], h))
    BY <1>13 DEF Claims
  <2>3. oTable'.entry = oTable.entry
    BY <1>1 DEF Refers, Names
  <2> QED
    BY <2>1, <2>2, <2>3, NumType
<1>17. MovesRefs(a, 0)
  <2>1. SameBut(AllSlots, oTable.entry, oTable'.entry, 0)
    BY <1>1 DEF SameBut, Refers, Names
  <2>2. \A p \in Hosts : Slot(oTable'.entry, 0, p) = Slot(oTable.entry, 0, p)
    BY <1>1 DEF Slot, Refers, Names
  <2>3. /\ oTable'.refs[oCall[a].outer] = 0 /\ oTable.refs[oCall[a].outer] = 1
        /\ \A p \in Hosts : p # oCall[a].outer => oTable'.refs[p] = oTable.refs[p]
    BY <1>1, CountTypes DEF Refers
  <2>4. /\ \A p \in Hosts : ~Destroying(oCall[a], p)
        /\ \A p \in Hosts : Destroying(oCall'[a], p) <=> p = oCall[a].outer
    BY <1>1 DEF Destroying, Fields, Calling
  <2>5. \A p \in Hosts : oTable.refs[p] > 0 => oObjects'[p].kind # "none"
    BY <1>6 DEF Base, Referred
  <2>6. ASSUME NEW p \in Hosts
        PROVE  oTable'.refs[p] + Slot(oTable.entry, 0, p) + Mine(oCall[a], p)
                 = oTable.refs[p] + Slot(oTable'.entry, 0, p) + Mine(oCall'[a], p)
    <3>1. oTable.refs[p] \in Nat /\ Slot(oTable.entry, 0, p) \in Nat
      BY CountTypes, NumType DEF Slot
    <3> QED
      BY <3>1, <2>2, <2>3, <1>14
  <2>7. \A p \in Hosts : oTable'.refs[p] > 0 => oObjects'[p].kind # "none"
    BY <2>3, <2>5
  <2>8. \A p \in Hosts : oTable.refs[p] = 0 /\ oObjects[p].kind # "none" => oTable'.refs[p] = 0
          /\ oObjects'[p].kind # "none"
    BY <2>3, <1>6
  <2>9. \A p \in Hosts : oTable'.refs[p] = 0 /\ oObjects'[p].kind # "none" =>
            \/ Destroying(oCall'[a], p)
            \/ oTable.refs[p] = 0 /\ oObjects[p].kind # "none" /\ ~Destroying(oCall[a], p)
    BY <2>3, <2>4, <1>6
  <2>10. \A p \in Hosts : Destroying(oCall'[a], p) =>
            oTable.refs[p] > 0 /\ oTable'.refs[p] = 0 /\ oObjects'[p].kind # "none"
    BY <1>1, <2>3, <2>4, <2>5
  <2>11. oCall'[a].outer \in Hosts
    BY <1>1 DEF Fields
  <2> QED
    BY <2>1, <2>6, <2>7, <2>8, <2>9, <2>10, <2>11 DEF MovesRefs
<1> QED
  BY <1>1, <1>2, <1>3, <1>4, <1>5, <1>6, <1>7, <1>8, <1>9, <1>10, <1>11, <1>16, <1>17, CallStep

LEMMA NameObjectKeeps ==
  ASSUME Base, NEW a \in oSetting.threads, Obj!NameObject(a), UNCHANGED oSetting
  PROVE  Base'
<1>1. /\ Calling(a, "attributes") /\ Moved(a)
      /\ Fields(oCall'[a],
                IF oCall[a].op = "insert" THEN "contain" ELSE "return", oCall[a].op,
                  oCall[a].body, oCall[a].handle, oCall[a].object, oCall[a].outer, oCall[a].name,
                  oCall[a].bias, oCall[a].derefs)
      /\ oCall[a].outer \in Hosts /\ oCall[a].name \in ObjectNames /\ oTable.name[oCall[a].outer]
           = none
      /\ Names(oCall[a].outer, oCall[a].name)
      /\ UNCHANGED <<oObjects, oByBody, oNative, oHeader, oOwned, oHeld>>
  BY NameObjectDoes
<1>2. a \in Users /\ oCall[a] \in CallRec /\ Has(oCall[a]) /\ oSetting.threads \subseteq Users
  BY <1>1, UserIs DEF Calling
<1>3. Types'
  BY <1>1, <1>2 DEF Base, Types, Moved
<1>4. Within'
  <2>1. oCall'[a].op \in ByName \cup {"replace"} => oCall'[a].op \in oSetting.ops
    BY <1>1, <1>2 DEF ByName, Fields, Calling, Base, Within
  <2>2. oCall'[a].body \in oSetting.bodies \cup {none}
    BY <1>1, <1>2 DEF Fields, Calling, Base, Within
  <2>3. \A o \in Hosts : oObjects'[o].body \in oSetting.bodies \cup {none}
    BY <1>1, <1>2 DEF Base, Within, Types
  <2>4. \A b \in Bodies : oHeader'[b].state # "none" \/ oHeld'[b] > 0 => b \in oSetting.bodies
    BY <1>1 DEF Base, Within
  <2> QED
    BY <1>1, <1>2, <2>1, <2>2, <2>3, <2>4, WithinStep
<1>5. Mapped'
  BY <1>1 DEF Base, Mapped
<1>6. /\ Sound(oTable)' /\ oTable'.name = [oTable.name EXCEPT ![oCall[a].outer] = oCall[a].name]
      /\ oTable'.entry = oTable.entry /\ oTable'.refs = oTable.refs
           /\ oTable.name \in [Hosts -> ObjectNames \cup {none}]
  BY <1>1, TableParts DEF Names, Base, Sound
<1>18. oTable.refs[oCall[a].outer] > 0 /\ oObjects[oCall[a].outer].kind # "none"
  <2>1. oTable.refs[oCall[a].outer] >= Mine(oCall[a], oCall[a].outer)
          /\ oTable.refs[oCall[a].outer] \in Nat
    BY <1>1, <1>2, RefFacts
  <2>2. Mine(oCall[a], oCall[a].outer) >= 1
    BY <1>1, NumType DEF Mine, Num, Calling
  <2>3. oTable.refs[oCall[a].outer] > 0
    BY <2>1, <2>2, MineType
  <2> QED
    BY <2>3, <1>1 DEF Base, Referred
<1>8. ObjectKinds'
  <2>1. \A h \in HostSlots : ObjectOf(h)' = ObjectOf(h)
    BY <1>6 DEF ObjectOf
  <2>2. \A p \in Hosts : oTable'.name[p] # oTable.name[p] => p = oCall[a].outer
    BY <1>6
  <2> QED
    BY <1>1, <1>18, <2>1, <2>2 DEF Base, ObjectKinds
<1>7. Has(oCall[a])'
  <2>1. ObjectOf(oCall[a].handle)' = ObjectOf(oCall[a].handle)
    BY <1>1, <1>6 DEF ObjectOf, Fields
  <2>2. oObjects' = oObjects
    BY <1>1
  <2> QED
    BY <1>1, <2>1, <2>2 DEF Has, Opening, Closing, ByName, Fields, Calling
<1>9. KeepsPast(a)
  <2>1. \A x \in Bodies : Past(x) => Past(x)'
    BY <1>1 DEF Past
  <2>2. \A x \in Bodies : Inserts(oCall'[a], x) => Inserts(oCall[a], x)
    BY <1>1 DEF Inserts, Fields, Calling, Opening
  <2>3. oCall'[a].at \notin Opening
    BY <1>1 DEF Fields, Opening
  <2> QED
    BY <1>1, <1>2, <2>1, <2>2, <2>3, PastStays
<1>10. KeepsNames(a)
  <2>1. \A p \in Hosts : oTable'.name[p] # none => oTable.name[p] # none \/ p = oCall[a].outer
    BY <1>6
  <2>2. Naming(oCall[a], oCall[a].outer)
    BY <1>1 DEF Naming, Calling
  <2>3. \A p \in Hosts : ~Naming(oCall'[a], p)
    BY <1>1 DEF Naming, Fields
  <2>4. \A b : Inserts(oCall'[a], b) => oCall'[a].at = "contain"
    BY <1>1 DEF Inserts, Fields, Opening
  <2>5. oObjects' = oObjects
    BY <1>1
  <2> QED
    BY <2>1, <2>2, <2>3, <2>4, <2>5 DEF KeepsNames
<1>11. KeepsOthers(a)
  BY <1>1, <1>6 DEF KeepsOthers, ObjectOf
<1>12. \A h \in Slots : HasHandle(oCall'[a], h) <=> HasHandle(oCall[a], h)
  BY <1>1 DEF HasHandle, Fields, Calling
<1>13. \A h \in Slots : Claims(oOwned', oCall'[a], h) = Claims(oOwned, oCall[a], h)
  BY <1>1, <1>12 DEF Claims, Num
<1>14. \A o \in Hosts : Mine(oCall'[a], o) = Mine(oCall[a], o)
  BY <1>1, ConstantFacts DEF Mine, Fields, Calling, Num
<1>16. MovesHandles(a)
  <2> SUFFICES ASSUME NEW h \in Slots
      PROVE  oTable'.entry[h].refs + oOwned[h] + Num(HasHandle(oCall[a], h))
               = oTable.entry[h].refs + oOwned'[h] + Num(HasHandle(oCall'[a], h))
    BY DEF MovesHandles
  <2>1. oOwned[h] \in Nat /\ oOwned'[h] \in Nat /\ oTable.entry[h].refs \in Nat
    BY <1>2, <1>3, CountTypes DEF AllSlots, Types
  <2>2. oOwned'[h] + Num(HasHandle(oCall'[a], h)) = oOwned[h] + Num(HasHandle(oCall[a], h))
    BY <1>13 DEF Claims
  <2>3. oTable'.entry = oTable.entry
    BY <1>1 DEF Refers, Names
  <2> QED
    BY <2>1, <2>2, <2>3, NumType
<1>17. MovesRefs(a, 0)
  <2>1. SameBut(AllSlots, oTable.entry, oTable'.entry, 0)
    BY <1>1 DEF SameBut, Refers, Names
  <2>2. \A p \in Hosts : Slot(oTable'.entry, 0, p) = Slot(oTable.entry, 0, p)
    BY <1>1 DEF Slot, Refers, Names
  <2>3. \A p \in Hosts : ~Destroying(oCall[a], p) /\ ~Destroying(oCall'[a], p)
    BY <1>1 DEF Destroying, Fields, Calling
  <2>4. \A p \in Hosts : oTable.refs[p] > 0 => oObjects'[p].kind # "none"
    BY <1>1 DEF Base, Referred
  <2>5. oCall'[a].at # "destroy"
    BY <1>1 DEF Fields
  <2>6. oObjects' = oObjects
    BY <1>1
  <2> QED
    BY <1>6, <1>14, <2>1, <2>2, <2>3, <2>4, <2>5, <2>6 DEF MovesRefs
<1> QED
  BY <1>1, <1>2, <1>3, <1>4, <1>5, <1>6, <1>7, <1>8, <1>9, <1>10, <1>11, <1>16, <1>17, CallStep

LEMMA DestroyKeeps ==
  ASSUME Base, NEW a \in oSetting.threads, Obj!Destroy(a), UNCHANGED oSetting
  PROVE  Base'
<1>1. /\ Calling(a, "destroy") /\ Moved(a)
      /\ Fields(oCall'[a], "idle", "none", none, -1, none, none, none, 0, 0)
      /\ oCall[a].outer \in Hosts
      /\ Sound(oTable)' /\ oTable'.name = [oTable.name EXCEPT ![oCall[a].outer] = none]
      /\ oTable'.entry = oTable.entry /\ oTable'.refs = oTable.refs
           /\ oTable'.names = oTable.names
      /\ oObjects' = [oObjects EXCEPT ![oCall[a].outer] = [kind |-> "none", body |-> none]]
      /\ oByBody' = IF oObjects[oCall[a].outer].body # none
           /\ oByBody[oObjects[oCall[a].outer].body] = oCall[a].outer
                  THEN [oByBody EXCEPT ![oObjects[oCall[a].outer].body] = none] ELSE oByBody
      /\ UNCHANGED <<oNative, oHeader, oOwned, oHeld>>
  BY DestroyDoes
<1>2. a \in Users /\ oCall[a] \in CallRec /\ Has(oCall[a]) /\ oSetting.threads \subseteq Users
  BY <1>1, UserIs DEF Calling
<1> DEFINE o == oCall[a].outer
<1>18. /\ oTable.refs[o] = 0 /\ oObjects[o].kind # "none" /\ \A h \in AllSlots : ObjectOf(h) # o
  <2>1. oTable.refs[o] = 0 /\ oObjects[o].kind # "none"
    BY <1>1, <1>2 DEF Base, Destroys, Calling
  <2> QED
    BY <1>1, <2>1, RefFacts
<1>19. /\ \A p \in Hosts : oObjects'[p] = IF p = o THEN [kind |-> "none", body |-> none]
            ELSE oObjects[p]
       /\ oObjects' \in [Hosts -> [kind : {"none", "standin", "wrapper", "plain"}, body : Bodies
            \cup {none}]]
  BY <1>1 DEF Base, Types
<1>20. /\ oByBody' \in [Bodies -> Hosts \cup {none}]
       /\ \A b \in Bodies : oByBody'[b] = oByBody[b] \/ oByBody'[b] = none
       /\ \A b \in Bodies : oByBody'[b] = o => oObjects[o].body # b
  <2>1. oByBody \in [Bodies -> Hosts \cup {none}] /\ o # none
    BY <1>1, ConstantFacts DEF Base, Types
  <2>2. CASE oObjects[o].body # none /\ oByBody[oObjects[o].body] = o
    <3>1. oByBody' = [oByBody EXCEPT ![oObjects[o].body] = none]
      BY <1>1, <2>2
    <3> QED
      BY <2>1, <3>1
  <2>3. CASE ~(oObjects[o].body # none /\ oByBody[oObjects[o].body] = o)
    <3>1. oByBody' = oByBody
      BY <1>1, <2>3
    <3>2. \A b \in Bodies : b # none
      BY ConstantFacts
    <3> QED
      BY <2>1, <2>3, <3>1, <3>2
  <2> QED
    BY <2>2, <2>3
<1>3. Types'
  BY <1>1, <1>2, <1>19, <1>20 DEF Base, Types, Moved
<1>4. Within'
  <2>1. oCall'[a].op \notin ByName \cup {"replace"} /\ oCall'[a].body = none
    BY <1>1 DEF ByName, Fields
  <2>3. \A p \in Hosts : oObjects'[p].body \in oSetting.bodies \cup {none}
    BY <1>19 DEF Base, Within
  <2>4. \A b \in Bodies : oHeader'[b].state # "none" \/ oHeld'[b] > 0 => b \in oSetting.bodies
    BY <1>1 DEF Base, Within
  <2> QED
    BY <1>1, <1>2, <2>1, <2>3, <2>4, WithinStep
<1>5. Mapped'
  <2> SUFFICES ASSUME NEW b \in Bodies, oByBody'[b] # none
      PROVE  oObjects'[oByBody'[b]].kind \in {"standin", "wrapper"} /\ oObjects'[oByBody'[b]].body
               = b
    BY DEF Mapped
  <2>1. oByBody'[b] = oByBody[b] /\ oByBody[b] \in Hosts
    BY <1>20 DEF Base, Types
  <2>2. oObjects[oByBody[b]].kind \in {"standin", "wrapper"} /\ oObjects[oByBody[b]].body = b
    BY <2>1 DEF Base, Mapped
  <2>3. oByBody[b] # o
    BY <2>1, <2>2, <1>20
  <2> QED
    BY <2>1, <2>2, <2>3, <1>19
<1>8. ObjectKinds'
  <2>1. \A h \in HostSlots : ObjectOf(h)' = ObjectOf(h) /\ ObjectOf(h) # o
          /\ ObjectOf(h) \in Hosts \cup {none}
    BY <1>1, <1>18, CountTypes DEF ObjectOf, AllSlots
  <2>2. \A p \in Hosts : oTable'.name[p] = IF p = o THEN none ELSE oTable.name[p]
    BY <1>1, TableParts DEF Base, Sound
  <2> QED
    BY <1>19, <2>1, <2>2 DEF Base, ObjectKinds
<1>7. Has(oCall[a])'
  <2>1. oCall'[a] = Obj!Idle
    BY <1>1, <1>2, IdleIs DEF Moved
  <2> QED
    BY <2>1, <1>1 DEF Has, Opening, Closing, ByName, Fields
<1>9. KeepsPast(a)
  <2>1. \A x \in Bodies : ~Inserts(oCall'[a], x)
    BY <1>1 DEF Inserts, Fields
  <2>2. oCall'[a].at \notin Opening
    BY <1>1 DEF Fields, Opening
  <2>3. \A p \in Hosts : \/ oObjects'[p] = oObjects[p]
                         \/ oObjects'[p].body = none
    BY <1>19
  <2> QED
    BY <1>1, <1>2, <2>1, <2>2, <2>3, PastGrows
<1>10. KeepsNames(a)
  <2>1. \A p \in Hosts : oTable'.name[p] # none => oTable.name[p] # none /\ p # o
    BY <1>1, TableParts DEF Base, Sound
  <2>2. \A p \in Hosts : ~Naming(oCall'[a], p)
    BY <1>1 DEF Naming, Fields
  <2>3. \A b : ~Inserts(oCall'[a], b)
    BY <1>1 DEF Inserts, Fields
  <2> QED
    BY <1>19, <2>1, <2>2, <2>3 DEF KeepsNames
<1>11. KeepsOthers(a)
  <2>1. \A p \in Hosts : oTable.refs[p] > Mine(oCall[a], p) => p # o
    BY <1>18, MineType
  <2> QED
    BY <1>1, <1>19, <2>1 DEF KeepsOthers, ObjectOf
<1>12. \A h \in Slots : ~HasHandle(oCall'[a], h) /\ ~HasHandle(oCall[a], h)
  BY <1>1, ConstantFacts DEF HasHandle, Fields, Calling, Has
<1>13. \A h \in Slots : Claims(oOwned', oCall'[a], h) = Claims(oOwned, oCall[a], h)
  BY <1>1, <1>12 DEF Claims, Num
<1>14. \A p \in Hosts : Mine(oCall'[a], p) = 0 /\ Mine(oCall[a], p) = 0
  BY <1>1, ConstantFacts DEF Mine, Fields, Calling, Num, Has
<1>16. MovesHandles(a)
  <2> SUFFICES ASSUME NEW h \in Slots
      PROVE  oTable'.entry[h].refs + oOwned[h] + Num(HasHandle(oCall[a], h))
               = oTable.entry[h].refs + oOwned'[h] + Num(HasHandle(oCall'[a], h))
    BY DEF MovesHandles
  <2>1. oOwned[h] \in Nat /\ oOwned'[h] \in Nat /\ oTable.entry[h].refs \in Nat
    BY <1>2, <1>3, CountTypes DEF AllSlots, Types
  <2>2. oOwned'[h] + Num(HasHandle(oCall'[a], h)) = oOwned[h] + Num(HasHandle(oCall[a], h))
    BY <1>13 DEF Claims
  <2>3. oTable'.entry = oTable.entry
    BY <1>1 DEF Refers, Names
  <2> QED
    BY <2>1, <2>2, <2>3, NumType
<1>17. MovesRefs(a, 0)
  <2>1. SameBut(AllSlots, oTable.entry, oTable'.entry, 0)
    BY <1>1 DEF SameBut, Refers, Names
  <2>2. \A p \in Hosts : Slot(oTable'.entry, 0, p) = Slot(oTable.entry, 0, p)
    BY <1>1 DEF Slot, Refers, Names
  <2>3. /\ \A p \in Hosts : ~Destroying(oCall'[a], p)
        /\ \A p \in Hosts : Destroying(oCall[a], p) <=> p = o
    BY <1>1 DEF Destroying, Fields, Calling
  <2>4. \A p \in Hosts : oTable.refs[p] > 0 => oObjects'[p].kind # "none"
    BY <1>18, <1>19 DEF Base, Referred
  <2>5. oCall'[a].at # "destroy"
    BY <1>1 DEF Fields
  <2>6. oTable'.refs = oTable.refs /\ oObjects'[o].kind = "none" /\ \A p \in Hosts : p # o
          => oObjects'[p] = oObjects[p]
    BY <1>1, <1>19
  <2> HIDE DEF o
  <2> QED
    BY <1>14, <2>1, <2>2, <2>3, <2>4, <2>5, <2>6 DEF MovesRefs
<1> QED
  BY <1>1, <1>2, <1>3, <1>4, <1>5, <1>7, <1>8, <1>9, <1>10, <1>11, <1>16, <1>17, CallStep

-----------------------------------------------------------------------------
\* The calls that take one step of no thread.
LEMMA CountStep ==
  ASSUME Base, UNCHANGED <<oTable, oObjects, oByBody, oNative, oOwned, oCall, oSetting>>,
         oHeader' \in Headers, oHeld' \in [Bodies -> Nat],
         \A b \in Bodies : Past(b) => oHeader'[b].state \notin {"none", "new"},
         \A b \in Bodies : oHeader'[b].state # "none" \/ oHeld'[b] > 0 => b \in oSetting.bodies
  PROVE  Base'
<1>1. Types'
  BY DEF Base, Types
<1>2. Sound(oTable)' /\ Places' /\ ObjectKinds' /\ Mapped'
  <2>1. Sound(oTable)' /\ ObjectKinds' /\ Mapped'
    BY DEF Base, Sound, Tables, First, ObjectKinds, Mapped, ObjectOf
  <2>2. ASSUME NEW a \in Users PROVE Has(oCall[a])'
    <3>1. PICK c \in CallRec : c = oCall[a]
      BY DEF Base, Types
    <3>2. Has(c) /\ oCall'[a] = c
      BY <3>1 DEF Base, Places
    <3>3. \A h : ObjectOf(h)' = ObjectOf(h)
      BY DEF ObjectOf
    <3>4. Has(c)'
      BY <3>2, <3>3, HasStays
    <3> QED
      BY <3>2, <3>4
  <2> QED
    BY <2>1, <2>2 DEF Places
<1>3. Within'
  BY DEF Base, Within
<1>4. Referred' /\ Destroys' /\ Handled' /\ Named'
  BY DEF Base, Referred, Destroys, Handled, Named
<1>5. Inserted'
  <2>1. \A a \in Users, b \in Bodies : Inserts(oCall[a], b)
          => oHeader'[b].state \notin {"none", "new"}
    BY DEF Base, Inserted
  <2>2. \A a \in Users : oCall[a].at \in Opening => oCall[a].body \in Bodies
          /\ Past(oCall[a].body)
    BY ConstantFacts DEF Base, Inserted, Types, CallRec, Places, Has
  <2>3. \A o \in Hosts : oObjects[o].body # none => oObjects[o].body \in Bodies
          /\ Past(oObjects[o].body)
    BY DEF Base, Inserted, Types
  <2>4. \A a, x \in Users, b \in Bodies : Inserts(oCall[a], b) /\ Inserts(oCall[x], b) => a = x
    BY DEF Base, Inserted
  <2>5. (\A a \in Users, b \in Bodies : Inserts(oCall[a], b) => Past(b))'
    BY <2>1 DEF Past
  <2>6. (\A a \in Users : oCall[a].at \in Opening => Past(oCall[a].body))'
    BY <2>2 DEF Past
  <2>7. (\A o \in Hosts : oObjects[o].body # none => Past(oObjects[o].body))'
    BY <2>3 DEF Past
  <2>8. (\A a, x \in Users, b \in Bodies : Inserts(oCall[a], b) /\ Inserts(oCall[x], b) => a = x)'
    BY <2>4
  <2> QED
    BY <2>5, <2>6, <2>7, <2>8 DEF Inserted
<1> QED
  BY <1>1, <1>2, <1>3, <1>4, <1>5 DEF Base

LEMMA CreateObjectKeeps ==
  ASSUME Base, NEW b \in Bodies, Obj!CreateObject(b), UNCHANGED oSetting
  PROVE  Base'
<1> DEFINE r == [[oHeader[b] EXCEPT !.pointers = 1] EXCEPT !.state = "new"]
<1>1. /\ b \in oSetting.bodies /\ oHeader[b].state = "none"
      /\ oHeader' = [oHeader EXCEPT ![b] = [oHeader[b] EXCEPT !.pointers = 1, !.state = "new"]]
      /\ oHeld' = [oHeld EXCEPT ![b] = 1]
      /\ UNCHANGED <<oTable, oObjects, oByBody, oNative, oOwned, oCall>>
  BY DEF Obj!CreateObject
<1>2. oHeader[b] \in HeaderRec /\ oHeader \in Headers /\ oHeld \in [Bodies -> Nat]
  BY HeaderIs DEF Base, Types
<1>3. [oHeader[b] EXCEPT !.pointers = 1, !.state = "new"] \in HeaderRec
  <2>1. [oHeader[b] EXCEPT !.pointers = 1] \in HeaderRec
    <3>1. 1 \in Int
      OBVIOUS
    <3> QED
      BY <1>2, <3>1, HeaderTypes, Zenon
  <2>2. [[oHeader[b] EXCEPT !.pointers = 1] EXCEPT !.state = "new"] \in HeaderRec
    BY <2>1, HeaderTypes
  <2> QED
    BY <2>2
<1>4. oHeader' \in Headers /\ \A x \in Bodies : x # b => oHeader'[x] = oHeader[x]
  BY <1>1, <1>2, <1>3 DEF Headers, HeaderRec
<1>5. oHeld' \in [Bodies -> Nat] /\ \A x \in Bodies : x # b => oHeld'[x] = oHeld[x]
  BY <1>1, <1>2
<1>6. \A x \in Bodies : oHeader'[x].state # "none" \/ oHeld'[x] > 0 => x \in oSetting.bodies
  BY <1>1, <1>4, <1>5 DEF Base, Within
<1>7. \A x \in Bodies : Past(x) => oHeader'[x].state \notin {"none", "new"}
  BY <1>1, <1>4 DEF Past
<1> QED
  BY <1>1, <1>4, <1>5, <1>6, <1>7, CountStep

LEMMA ReferenceByHandleKeeps ==
  ASSUME Base, NEW h \in Slots, Obj!ReferenceByHandle(h), UNCHANGED oSetting
  PROVE  Base'
<1>1. /\ oOwned[h] > 0 /\ BodyOf(h) # none
      /\ oHeader' = [oHeader EXCEPT ![BodyOf(h)] = Obj!Referenced(oHeader[BodyOf(h)])]
      /\ oHeld' = [oHeld EXCEPT ![BodyOf(h)] = oHeld[BodyOf(h)] + 1]
      /\ UNCHANGED <<oTable, oObjects, oByBody, oNative, oOwned, oCall>>
  BY CountedBodyIs DEF Obj!ReferenceByHandle
<1>2. PICK b \in Bodies : b = BodyOf(h) /\ b \in oSetting.bodies
  <2>1. ObjectOf(h) \in Hosts /\ BodyOf(h) = oObjects[ObjectOf(h)].body
    BY <1>1, HoldFacts, ConstantFacts DEF BodyOf
  <2> QED
    BY <1>1, <2>1 DEF Base, Types, Within
<1>3. oHeader[b] \in HeaderRec /\ oHeader \in Headers /\ oHeld \in [Bodies -> Nat]
  BY HeaderIs DEF Base, Types
<1>4. Obj!Referenced(oHeader[b]) \in HeaderRec /\ Obj!Referenced(oHeader[b]).state
        = oHeader[b].state
  BY <1>3 DEF HeaderRec, Obj!Referenced
<1>5. oHeader' = [oHeader EXCEPT ![b] = Obj!Referenced(oHeader[b])]
  BY <1>1, <1>2
<1>6. oHeader' \in Headers /\ \A x \in Bodies : oHeader'[x].state = oHeader[x].state
  BY <1>3, <1>4, <1>5 DEF Headers, HeaderRec
<1>7. oHeld' \in [Bodies -> Nat] /\ \A x \in Bodies : x # b => oHeld'[x] = oHeld[x]
  BY <1>1, <1>2, <1>3
<1>8. \A x \in Bodies : oHeader'[x].state # "none" \/ oHeld'[x] > 0 => x \in oSetting.bodies
  BY <1>2, <1>6, <1>7 DEF Base, Within
<1>9. \A x \in Bodies : Past(x) => oHeader'[x].state \notin {"none", "new"}
  BY <1>6 DEF Past
<1> QED
  BY <1>1, <1>6, <1>7, <1>8, <1>9, CountStep

LEMMA DuplicatePlainKeeps ==
  ASSUME Base, NEW h \in Slots, NEW g \in Slots, Obj!DuplicatePlain(h, g), UNCHANGED oSetting
  PROVE  Base'
<1>1. PICK o \in Hosts :
        /\ o = ObjectOf(h) /\ ObjectOf(g) = none /\ oTable' = Obj!AddHandle(oTable, o, g)
        /\ oOwned' = [oOwned EXCEPT ![g] = oOwned[g] + 1]
        /\ UNCHANGED <<oObjects, oByBody, oNative, oHeader, oHeld, oCall>>
  <2>1. ObjectOf(h) \in Hosts \cup {none}
    BY CountTypes DEF ObjectOf, AllSlots
  <2> QED
    BY <2>1, CountedBodyIs, FreeSlotIs DEF Obj!DuplicatePlain
<1>2. /\ h \in AllSlots /\ g \in AllSlots /\ o # none /\ g # h
      /\ oTable.refs \in [Hosts -> Nat] /\ oTable.entry \in [AllSlots -> Entries]
      /\ oOwned \in [Slots -> Nat] /\ o # none /\ g \notin HostSlots
  BY <1>1, CountTypes, ConstantFacts DEF AllSlots, Base, Types
<1>3. Adds(o, g, 1)
  BY <1>1, <1>2, AddsHandle
<1>4. /\ Sound(oTable)' /\ oTable'.refs = [oTable.refs EXCEPT ![o] = oTable.refs[o] + 1]
      /\ oTable'.entry = [oTable.entry EXCEPT ![g] = [object |-> o, refs |-> 1]]
      /\ oTable'.name = oTable.name
  BY <1>3 DEF Adds
<1>5. /\ \A x \in AllSlots : ObjectOf(x)' = IF x = g THEN o ELSE ObjectOf(x)
      /\ \A x \in AllSlots : x # g => oTable'.entry[x] = oTable.entry[x]
      /\ oTable'.entry[g].refs = 1 /\ oTable.entry[g].refs = 0
  <2>1. oTable.entry[g].refs = 0
    BY <1>1, <1>2 DEF Base, Sound, ObjectOf
  <2> QED
    BY <1>2, <1>4, <2>1 DEF ObjectOf
<1>6. Types'
  BY <1>1, <1>2 DEF Base, Types
<1>7. Within'
  BY <1>1 DEF Base, Within
<1>8. Mapped'
  BY <1>1 DEF Base, Mapped
<1>9. Inserted' /\ Named'
  BY <1>1, <1>4 DEF Base, Inserted, Named, Past
<1>10. ObjectKinds'
  <2>1. \A x \in HostSlots : ObjectOf(x)' = ObjectOf(x)
    BY <1>2, <1>5 DEF AllSlots
  <2> QED
    BY <1>1, <1>4, <2>1 DEF Base, ObjectKinds
<1>11. oTable.refs[o] >= 1
  BY <1>1, <1>2, RefFacts
<1>12. Referred' /\ Destroys'
  <2>1. \A p \in Hosts : oTable'.refs[p] = IF p = o THEN oTable.refs[p] + 1 ELSE oTable.refs[p]
    BY <1>2, <1>4
  <2>2. ASSUME NEW p \in Hosts
        PROVE  nHandles(oTable'.entry, p) = nHandles(oTable.entry, p) + (IF p = o THEN 1 ELSE 0)
    <3>1. SameBut(AllSlots, oTable.entry, oTable'.entry, g)
      BY <1>5 DEF SameBut
    <3>2. /\ nHandles(oTable.entry, p) \in Nat /\ nHandles(oTable'.entry, p) \in Nat
          /\ nHandles(oTable'.entry, p) + Num(oTable.entry[g].object = p)
               = nHandles(oTable.entry, p) + Num(oTable'.entry[g].object = p)
      BY <1>2, <3>1, HandleMoves
    <3>3. oTable.entry[g].object # p /\ (oTable'.entry[g].object = p <=> p = o)
      BY <1>1, <1>2, <1>5, ConstantFacts DEF ObjectOf
    <3> QED
      BY <3>2, <3>3 DEF Num
  <2>3. ASSUME NEW p \in Hosts
        PROVE  oTable'.refs[p] = nHandles(oTable'.entry, p) + nObject(oCall, p) + nOuter(oCall, p)
    <3>1. oTable.refs[p] = nHandles(oTable.entry, p) + nObject(oCall, p) + nOuter(oCall, p)
      BY DEF Base, Referred
    <3>2. nHandles(oTable.entry, p) \in Nat /\ nObject(oCall, p) \in Nat
            /\ nOuter(oCall, p) \in Nat
      BY HandleFacts, nObjectFacts, nOuterFacts
    <3> QED
      BY <2>1, <2>2, <3>1, <3>2
  <2>4. \A p \in Hosts : /\ oTable'.refs[p] > 0 <=> oTable.refs[p] > 0
                         /\ oTable'.refs[p] = 0 <=> oTable.refs[p] = 0
    BY <1>2, <1>11, <2>1
  <2>5. Referred'
    BY <1>1, <2>3, <2>4 DEF Base, Referred
  <2>6. Destroys'
    <3>1. \A a \in Users : oCall[a].at = "destroy" => oCall[a].outer \in Hosts
      BY DEF Base, Types, CallRec, Places, Has
    <3> QED
      BY <1>1, <2>4, <3>1 DEF Base, Destroys
  <2> QED
    BY <2>5, <2>6
<1>13. Handled'
  <2>1. ASSUME NEW x \in Slots PROVE oTable'.entry[x].refs = oOwned'[x] + nHolds(oCall, x)
    <3>1. oTable.entry[x].refs = oOwned[x] + nHolds(oCall, x)
      BY DEF Base, Handled
    <3>2. oOwned'[x] = IF x = g THEN oOwned[x] + 1 ELSE oOwned[x]
      BY <1>1, <1>2
    <3>3. oTable'.entry[x].refs = IF x = g THEN oTable.entry[x].refs + 1 ELSE oTable.entry[x].refs
      BY <1>5 DEF AllSlots
    <3>4. oOwned[x] \in Nat /\ nHolds(oCall, x) \in Nat
      BY <1>2, nHoldsFacts
    <3> QED
      BY <3>1, <3>2, <3>3, <3>4
  <2> QED
    BY <1>1, <2>1 DEF Handled
<1>14. Places'
  <2> SUFFICES ASSUME NEW a \in Users PROVE Has(oCall[a])'
    BY DEF Places
  <2>1. PICK c \in CallRec : c = oCall[a]
    BY DEF Base, Types
  <2>2. Has(c) /\ oCall'[a] = c
    BY <1>1, <2>1 DEF Base, Places
  <2>3. ASSUME HasHandle(c, c.handle), c.handle # -1
        PROVE  ObjectOf(c.handle)' = ObjectOf(c.handle)
    <3>1. c.handle \in Slots
      BY <2>3 DEF CallRec
    <3>2. ObjectOf(c.handle) \in Hosts
      BY <2>1, <2>3, <3>1, HoldFacts
    <3> QED
      BY <1>1, <1>2, <1>5, <3>1, <3>2, ConstantFacts DEF AllSlots
  <2>4. Has(c)'
    BY <1>1, <2>2, <2>3, HasStays
  <2> QED
    BY <2>2, <2>4
<1> QED
  BY <1>4, <1>6, <1>7, <1>8, <1>9, <1>10, <1>12, <1>13, <1>14 DEF Base

-----------------------------------------------------------------------------
\* A step of a call.
LEMMA LookupKeeps ==
  ASSUME Base, NEW a \in oSetting.threads, NEW op \in ByName, NEW n \in ObjectNames,
         NEW bias \in 0..1, Obj!LookupByName(a, op, n, bias), UNCHANGED oSetting, Careful,
         op = "open_named" => bias = 1
  PROVE  Base'
<1>1. CASE oTable.names[n] # -1
  BY <1>1, LookupFoundKeeps
<1>2. CASE oTable.names[n] = -1
  BY <1>2, LookupNoneKeeps
<1> QED
  BY <1>1, <1>2

LEMMA ReturnKeeps ==
  ASSUME Base, NEW a \in oSetting.threads, Obj!Return(a), UNCHANGED oSetting
  PROVE  Base'
<1>1. CASE oCall[a].outer = none
  BY <1>1, ReturnQuietKeeps
<1>2. CASE oCall[a].outer # none /\ oTable.refs[oCall[a].outer] # 1
  BY <1>2, ReturnMoreKeeps
<1>3. CASE oCall[a].outer # none /\ oTable.refs[oCall[a].outer] = 1
  BY <1>3, ReturnLastKeeps
<1> QED
  BY <1>1, <1>2, <1>3

LEMMA FindKeeps ==
  ASSUME Base, NEW a \in oSetting.threads, Obj!FindStandIn(a) \/ Obj!FindWrapper(a),
           UNCHANGED oSetting
  PROVE  Base'
<1>1. CASE Obj!FindStandIn(a)
        /\ ~(oByBody[oCall[a].body] # none /\ oTable.refs[oByBody[oCall[a].body]] > 0)
  BY <1>1, FindStandInNotKeeps
<1>2. CASE Obj!FindStandIn(a) /\ oByBody[oCall[a].body] # none
        /\ oTable.refs[oByBody[oCall[a].body]] > 0
  BY <1>2, FindStandInKnownKeeps
<1>3. CASE Obj!FindWrapper(a) /\ oNative[oCall[a].body] # -1 /\ BodyOf(oNative[oCall[a].body])
        = oCall[a].body
  BY <1>3, FindWrapperKnownKeeps
<1>4. CASE \E o \in Hosts, h \in HostSlots : FindWrapperWith(a, o, h)
  BY <1>4, FindWrapperNewKeeps
<1> QED
  BY <1>1, <1>2, <1>3, <1>4, FindWrapperIs

LEMMA StepKeeps ==
  ASSUME Base, Careful, NEW a \in oSetting.threads, Obj!Step(a), UNCHANGED oSetting
  PROVE  Base'
<1>1. CASE \E b \in Bodies, n \in ObjectNames \cup {none}, bias \in oSetting.biases :
        Obj!Insert(a, b, n, bias)
  BY <1>1, InsertKeeps
<1>2. CASE \E b \in Bodies : Obj!OpenByPointer(a, b)
  BY <1>2, OpenByPointerKeeps
<1>3. CASE \E b \in Bodies : Obj!Dereference(a, b)
  BY <1>3, DereferenceKeeps
<1>4. CASE \E h \in Slots : Obj!NtClose(a, h)
  BY <1>4, NtCloseKeeps
<1>5. CASE \E h \in Slots, source \in BOOLEAN : Obj!Duplicate(a, h, source)
  <2>1. PICK h \in Slots, source \in BOOLEAN : Obj!Duplicate(a, h, source)
    BY <1>5
  <2>2. Obj!Duplicate(a, h, TRUE) \/ Obj!Duplicate(a, h, FALSE)
    BY <2>1
  <2> QED
    BY <2>2, DuplicateKeeps, ReplaceKeeps
<1>6. CASE \E n \in ObjectNames : Obj!OpenByName(a, n)
  <2>1. PICK n \in ObjectNames : Obj!LookupByName(a, "open_named", n, 1)
    BY <1>6 DEF Obj!OpenByName
  <2>2. "open_named" \in ByName /\ 1 \in 0..1
    BY DEF ByName
  <2> QED
    BY <2>1, <2>2, LookupKeeps
<1>7. CASE \E n \in ObjectNames, openIf \in 0..1 : Obj!CreateNamed(a, n, openIf)
  <2>1. PICK n \in ObjectNames, openIf \in 0..1 : Obj!LookupByName(a, "create_named", n, openIf)
    BY <1>7 DEF Obj!CreateNamed
  <2>2. "create_named" \in ByName
    BY DEF ByName
  <2> QED
    BY <2>1, <2>2, LookupKeeps
<1>8. CASE Obj!Named(a) \/ Obj!Unname(a)
  BY <1>8, NamedKeeps, UnnameKeeps
<1>9. CASE Obj!FindWrapper(a) \/ Obj!FindStandIn(a)
  BY <1>9, FindKeeps
<1>10. CASE Obj!CreateStandIn(a)
  BY <1>10, WithIs, CreateStandInKeeps
<1>11. CASE Obj!Register(a)
  BY <1>11, RegisterKeeps
<1>12. CASE Obj!AddCountedHandle(a)
  BY <1>12, WithIs, AddCountedHandleKeeps
<1>13. CASE Obj!Count(a)
  BY <1>13, CountInsertKeeps, CountOtherKeeps
<1>14. CASE Obj!NameObject(a) \/ Obj!Contain(a)
  BY <1>14, NameObjectKeeps, ContainKeeps
<1>15. CASE Obj!CloseHandle(a) \/ Obj!UnlinkFromDirectory(a)
  BY <1>15, CloseHandleKeeps, UnlinkFromDirectoryKeeps
<1>16. CASE Obj!DereferenceCounted(a) \/ Obj!DeleteBody(a) \/ Obj!Recount(a)
  BY <1>16, DereferenceCountedKeeps, DeleteBodyKeeps, RecountKeeps
<1>17. CASE Obj!Construct(a)
  BY <1>17, WithIs, ConstructKeeps
<1>18. CASE Obj!Return(a) \/ Obj!Destroy(a)
  BY <1>18, ReturnKeeps, DestroyKeeps
<1> QED
  BY <1>1, <1>2, <1>3, <1>4, <1>5, <1>6, <1>7, <1>8, <1>9, <1>10, <1>11, <1>12, <1>13, <1>14,
     <1>15, <1>16, <1>17, <1>18 DEF Obj!Step

LEMMA NextKeeps ==
  ASSUME Base, Careful, [ObjectsNext]_<<part, vars, oVars>>
  PROVE  Base'
<1>1. CASE UNCHANGED oVars
  BY <1>1, CountStep DEF oVars, Base, Types, Within, Past
<1>2. CASE Obj!Next
  <2>1. UNCHANGED oSetting /\ Obj!Calls
    BY <1>2 DEF Obj!Next
  <2>2. CASE \E b \in Bodies : Obj!CreateObject(b)
    BY <2>1, <2>2, CreateObjectKeeps
  <2>3. CASE \E h \in Slots : Obj!ReferenceByHandle(h)
    BY <2>1, <2>3, ReferenceByHandleKeeps
  <2>4. CASE \E h \in Slots, g \in Slots : Obj!DuplicatePlain(h, g)
    BY <2>1, <2>4, DuplicatePlainKeeps
  <2>5. CASE \E a \in oSetting.threads : Obj!Step(a)
    BY <2>1, <2>5, StepKeeps
  <2> QED
    BY <2>1, <2>2, <2>3, <2>4, <2>5 DEF Obj!Calls
<1> QED
  BY <1>1, <1>2 DEF ObjectsNext, oVars

LEMMA InitBase ==
  ASSUME ObjectsInit PROVE Base
<1>1. /\ oTable = Obj!NewTable
      /\ oObjects = [o \in Hosts |-> [kind |-> "none", body |-> none]]
      /\ oByBody = [b \in Bodies |-> none] /\ oNative = [b \in Bodies |-> -1]
      /\ oHeader = [b \in Bodies |-> [pointers |-> 0, handles |-> 0, contained |-> FALSE,
           state |-> "none"]]
      /\ oOwned = [h \in Slots |-> 0] /\ oHeld = [b \in Bodies |-> 0]
      /\ oCall = [a \in Users |-> Obj!Idle] /\ oSetting \in ObjectSettings
  BY DEF ObjectsInit, Obj!Init, Obj!NoOne, Obj!Unused
<1>2. Obj!Idle \in CallRec
  BY IdleType
<1>3. Types
  BY <1>1, <1>2 DEF Types, Headers
<1>4. /\ oTable.entry = [h \in AllSlots |-> [object |-> none, refs |-> 0]]
      /\ oTable.handles = [o \in Hosts |-> <<>>] /\ oTable.refs = [o \in Hosts |-> 0]
      /\ oTable.name = [o \in Hosts |-> none] /\ oTable.names = [n \in ObjectNames |-> -1]
      /\ oTable \in Tables
  <2>1. Obj!Handles = AllSlots
    BY ConstantFacts
  <2>2. oTable = [entry |-> [h \in AllSlots |-> [object |-> none, refs |-> 0]],
                  handles |-> [o \in Hosts |-> <<>>], refs |-> [o \in Hosts |-> 0],
                  name |-> [o \in Hosts |-> none], names |-> [n \in ObjectNames |-> -1]]
    BY <1>1, <2>1 DEF Obj!NewTable, Obj!NoEntry
  <2>3. [h \in AllSlots |-> [object |-> none, refs |-> 0]] \in [AllSlots -> Entries]
    BY DEF Entries
  <2>4. /\ [o \in Hosts |-> <<>>] \in [Hosts -> Seq(AllSlots)]
             /\ [o \in Hosts |-> 0] \in [Hosts -> Nat]
        /\ [o \in Hosts |-> none] \in [Hosts -> ObjectNames \cup {none}]
        /\ [n \in ObjectNames |-> -1] \in [ObjectNames -> Slots \cup {-1}]
    OBVIOUS
  <2> QED
    BY <2>2, <2>3, <2>4 DEF Tables
<1>5. Sound(oTable)
  <2>1. \A o \in Hosts : Distinct(oTable.handles[o]) /\ Elems(oTable.handles[o]) = {}
    BY <1>4 DEF Distinct, Elems
  <2> QED
    BY <1>4, <2>1, ConstantFacts DEF Sound
<1>6. \A a \in Users : /\ oCall[a].at = "idle" /\ oCall[a].op = "none" /\ oCall[a].body = none
                       /\ oCall[a].handle = -1 /\ oCall[a].object = none /\ oCall[a].outer = none
                       /\ oCall[a] = Obj!Idle
  BY <1>1 DEF Obj!Idle
<1>7. Places
  BY <1>6 DEF Places, Has, Opening, Closing, ByName
<1>8. Within
  BY <1>1, <1>6 DEF Within, ByName
<1>9. ObjectKinds /\ Mapped
  BY <1>1, <1>4 DEF ObjectKinds, Mapped, ObjectOf, AllSlots
<1>10. Referred
  <2>1. ASSUME NEW o \in Hosts
        PROVE  nHandles(oTable.entry, o) = 0 /\ nObject(oCall, o) = 0 /\ nOuter(oCall, o) = 0
    <3>1. /\ \A h \in AllSlots : oTable.entry[h].object # o
          /\ \A a \in Users : oCall[a].object # o /\ oCall[a].outer # o
      BY <1>4, <1>6, ConstantFacts
    <3> QED
      BY <3>1, HandleFacts, nObjectFacts, nOuterFacts
  <2>2. \A o \in Hosts : oTable.refs[o] = 0 /\ oObjects[o].kind = "none"
    BY <1>1, <1>4
  <2> QED
    BY <2>1, <2>2 DEF Referred
<1>11. Destroys
  BY <1>6 DEF Destroys
<1>12. Handled
  <2>1. ASSUME NEW h \in Slots PROVE nHolds(oCall, h) = 0
    <3>1. \A a \in Users : ~HasHandle(oCall[a], h)
      BY <1>6, ConstantFacts DEF HasHandle
    <3> QED
      BY <3>1, nHoldsFacts
  <2> QED
    BY <1>1, <1>4, <2>1 DEF Handled, AllSlots
<1>13. Inserted /\ Named
  BY <1>1, <1>6 DEF Inserted, Named, Inserts, Naming, Opening
<1> QED
  BY <1>3, <1>5, <1>7, <1>8, <1>9, <1>10, <1>11, <1>12, <1>13 DEF Base

-----------------------------------------------------------------------------
\* What the invariant says of the tables.
LEMMA TablesAgree ==
  ASSUME Base
  PROVE  Obj!TableConsistent
<1> SUFFICES ASSUME NEW o \in Hosts
    PROVE  /\ Obj!Elems(oTable.handles[o]) = Obj!HandlesOf(oTable, o)
           /\ Obj!Distinct(oTable.handles[o])
  BY DEF Obj!TableConsistent
<1>1. Distinct(oTable.handles[o]) /\ \A h \in AllSlots : h \in Elems(oTable.handles[o])
        <=> oTable.entry[h].object = o
  BY DEF Base, Sound
<1>2. oTable.handles[o] \in Seq(AllSlots)
  BY TableParts DEF Base, Sound
<1>3. Elems(oTable.handles[o]) \subseteq AllSlots
  BY <1>2 DEF Elems
<1>4. Elems(oTable.handles[o]) = Obj!HandlesOf(oTable, o)
  BY <1>1, <1>3, ConstantFacts DEF Obj!HandlesOf
<1> QED
  BY <1>1, <1>4, SameLists DEF Elems, Obj!Elems, Distinct, Obj!Distinct

LEMMA RefsAgree ==
  ASSUME Base
  PROVE  Obj!RefsExact
<1> SUFFICES ASSUME NEW o \in Hosts
    PROVE  /\ oTable.refs[o] = Obj!Cardinality(Obj!HandlesOf(oTable, o))
                       + Obj!Cardinality({a \in Users : oCall[a].object = o})
                       + Obj!Cardinality({a \in Users : oCall[a].outer = o
                         /\ ~Obj!At(a, "destroy")})
           /\ oTable.refs[o] > 0 => oObjects[o].kind # "none"
           /\ oObjects[o].kind # "none" /\ oTable.refs[o] = 0 =>
                \E a \in Users : Obj!At(a, "destroy") /\ oCall[a].outer = o
  BY DEF Obj!RefsExact
<1>1. /\ oTable.refs[o] = nHandles(oTable.entry, o) + nObject(oCall, o) + nOuter(oCall, o)
      /\ oTable.refs[o] > 0 => oObjects[o].kind # "none"
      /\ oObjects[o].kind # "none" /\ oTable.refs[o] = 0 =>
           \E a \in Users : oCall[a].at = "destroy" /\ oCall[a].outer = o
  BY DEF Base, Referred
<1>2. Obj!HandlesOf(oTable, o) = {h \in AllSlots : oTable.entry[h].object = o}
  BY ConstantFacts DEF Obj!HandlesOf
<1>3. {a \in Users : oCall[a].outer = o /\ ~Obj!At(a, "destroy")}
        = {a \in Users : oCall[a].outer = o /\ oCall[a].at # "destroy"}
  BY DEF Obj!At
<1>4. /\ Obj!Cardinality(Obj!HandlesOf(oTable, o)) = nHandles(oTable.entry, o)
      /\ Obj!Cardinality({a \in Users : oCall[a].object = o}) = nObject(oCall, o)
      /\ Obj!Cardinality({a \in Users : oCall[a].outer = o /\ ~Obj!At(a, "destroy")})
           = nOuter(oCall, o)
  BY <1>2, <1>3, SameCardinality DEF nHandles, nObject, nOuter
<1> QED
  BY <1>1, <1>4 DEF Obj!At

LEMMA NamesAgree ==
  ASSUME Base
  PROVE  Obj!NamesLive
<1> SUFFICES ASSUME NEW n \in ObjectNames, oTable.names[n] # -1
    PROVE  /\ oTable.names[n] \in Slots
           /\ Obj!LookupObject(oTable, oTable.names[n]) # none
           /\ oTable.name[Obj!LookupObject(oTable, oTable.names[n])] = n
  BY DEF Obj!NamesLive
<1>1. oTable.names[n] \in Slots
  BY TableParts DEF Base, Sound
<1>2. oTable.entry[oTable.names[n]].object # none
        /\ oTable.name[oTable.entry[oTable.names[n]].object] = n
  BY DEF Base, Sound
<1> QED
  BY <1>1, <1>2 DEF Obj!LookupObject

LEMMA HandlesAgree ==
  ASSUME Base
  PROVE  Obj!OwnedHandlesOpen
<1> SUFFICES ASSUME NEW h \in Slots
    PROVE  /\ oOwned[h] > 0 => Obj!LookupObject(oTable, h) # none
           /\ oTable.entry[h].refs >= oOwned[h]
           /\ Obj!Idling => oTable.entry[h].refs = oOwned[h]
  BY DEF Obj!OwnedHandlesOpen
<1>1. oTable.entry[h].refs = oOwned[h] + nHolds(oCall, h) /\ oOwned[h] \in Nat
        /\ nHolds(oCall, h) \in Nat
  BY nHoldsFacts DEF Base, Handled, Types
<1>2. oOwned[h] > 0 => ObjectOf(h) # none
  BY HoldFacts, ConstantFacts
<1>3. ASSUME Obj!Idling PROVE nHolds(oCall, h) = 0
  <2>1. \A a \in Users : oCall[a] = Obj!Idle
    BY <1>3 DEF Obj!Idling, Obj!At, Base, Places, Has
  <2>2. \A a \in Users : ~HasHandle(oCall[a], h)
    BY <2>1, ConstantFacts DEF HasHandle, Obj!Idle
  <2> QED
    BY <2>2, nHoldsFacts
<1> QED
  BY <1>1, <1>2, <1>3 DEF Obj!LookupObject, ObjectOf

-----------------------------------------------------------------------------
\* Whatever calls overlap, each reference of a host object is that of a handle or of a call, a
\* handle the title owns is open, the lists of handles agree with the entries, and a name finds
\* an object that goes by it: for any threads, handles, host objects, bodies, names and
\* settings, as long as lookups by name do not race with closes of counted bodies
\* (xboxkrnl_ob.cc; util/object_table.cc).
THEOREM ObjectsAreExact ==
  ASSUME Careful
  PROVE  ObjectsSpec => []ObjectsExact
<1>1. ObjectsInit => Base
  BY InitBase
<1>2. Base /\ [ObjectsNext]_<<part, vars, oVars>> => Base'
  BY NextKeeps
<1>3. Base => ObjectsExact
  BY TablesAgree, RefsAgree, HandlesAgree, NamesAgree DEF ObjectsExact
<1> QED
  BY <1>1, <1>2, <1>3, PTL DEF ObjectsSpec

=============================================================================
