--------------------------- MODULE AfiDeviceProofs ---------------------------
(***************************************************************************)
(* Facts about the AFI core that the proofs of every target need: the      *)
(* shape of its objects and of the map, and where null objects may be.     *)
(***************************************************************************)
EXTENDS AfiDevice, SequenceTheorems, TLAPS

-----------------------------------------------------------------------------
(* Resources.                                                              *)

\* The resources that a creator can make sense of.
GoodResources == {r \in Resource : ResourceOK(r)}

\* The number of objects bind() looks up, by type.
LEMMA RefCounts ==
    /\ RefTypes["afi-tree"] = <<>> /\ RefTypes["afi-tree-entry"] = <<"afi-tree">>
    /\ RefTypes["afi-cap-entry-match"] = <<>> /\ RefTypes["afi-cap-entry-action"] = <<>>
    /\ RefTypes["afi-cap-entry"] = <<"afi-cap", "afi-cap-entry-match", "afi-cap-entry-action">>
BY DEF RefTypes, Types

\* The fields of a good resource.
LEMMA GoodFields ==
    ASSUME NEW r \in GoodResources
    PROVE  /\ r \in Resource /\ r.type \in Types /\ r.name \in Names /\ r.refs \in Seq(Names)
           /\ r.key \in Nat /\ r.plen \in Nat
           /\ Len(r.refs) = Len(RefTypes[r.type])
           /\ r.type = "afi-cap" => {EntryOf(r.name), ActionOf(r.name), MatchOf(r.name)} \subseteq Names
BY DEF GoodResources, ResourceOK, Resource

\* A sequence of good resources is a sequence of resources.
LEMMA GoodSeq == \A s \in Seq(GoodResources) : s \in Seq(Resource)
BY DEF GoodResources

\* The objects of a configuration are good resources.
LEMMA ConfigGood ==
    ASSUME NEW c \in Configs
    PROVE  /\ c.objects \in Seq(GoodResources)
           /\ c.tables \subseteq Names /\ c.actions \subseteq Actions
<1>1. c \in Config /\ \A i \in 1..Len(c.objects) : ResourceOK(c.objects[i])
  BY ConfigsAssumption
<1>2. c.objects \in Seq(Resource) /\ c.tables \subseteq Names /\ c.actions \subseteq Actions
  BY <1>1 DEF Config
<1>3. \A i \in 1..Len(c.objects) : c.objects[i] \in GoodResources
  BY <1>1, <1>2 DEF GoodResources
<1>4. c.objects \in Seq(GoodResources)
  BY <1>2, <1>3
<1>5. QED BY <1>2, <1>4

\* addAfiTree makes a good resource.
LEMMA TreeGood == \A n \in Names : TreeResource(n) \in GoodResources
<1>1. TAKE n \in Names
<1>2. TreeResource(n) \in Resource
  BY DEF TreeResource, Resource, Types
<1>3. QED BY <1>2, RefCounts DEF TreeResource, GoodResources, ResourceOK

\* So does addEntry.
LEMMA EntryGood == \A f \in LpmField : EntryResource(f) \in GoodResources
<1>1. TAKE f \in LpmField
<1>2. EntryName \in Names /\ <<LpmName>> \in Seq(Names)
  BY NamesAssumption
<1>3. EntryResource(f) \in Resource
  BY <1>2 DEF EntryResource, Resource, Types, LpmField
<1>4. QED BY <1>3, RefCounts DEF EntryResource, GoodResources, ResourceOK

\* The entries a Write adds at once.
LEMMA LpmGood ==
    ASSUME NEW w \in Writes
    PROVE  /\ LpmEntries(w) \in Seq(GoodResources)
           /\ \A i \in 1..Len(LpmEntries(w)) : LpmEntries(w)[i] = EntryResource(w.lpms[i])
           /\ w.lpms \in Seq(LpmField)
<1>1. w.lpms \in Seq(LpmField)
  BY WritesAssumption DEF TableInsert
<1>2. CASE w.table = LpmName
  <2>1. \A i \in 1..Len(w.lpms) : EntryResource(w.lpms[i]) \in GoodResources
    BY <1>1, EntryGood
  <2>2. LpmEntries(w) = [i \in 1..Len(w.lpms) |-> EntryResource(w.lpms[i])]
    BY <1>2 DEF LpmEntries
  <2>3. Len(w.lpms) \in Nat BY <1>1
  <2>4. LpmEntries(w) \in [1..Len(w.lpms) -> GoodResources]
    BY <2>1, <2>2
  <2>5. LpmEntries(w) \in Seq(GoodResources) /\ Len(LpmEntries(w)) = Len(w.lpms)
    BY <2>3, <2>4
  <2>6. QED BY <1>1, <2>2, <2>5
<1>3. CASE w.table # LpmName
  BY <1>1, <1>3 DEF LpmEntries
<1>4. QED BY <1>2, <1>3

\* The objects that an afi-cap makes of an entry.
LEMMA ChildrenGood ==
    ASSUME NEW n \in Names, {EntryOf(n), ActionOf(n), MatchOf(n)} \subseteq Names, NEW k \in Nat
    PROVE  CapChildren(n, k) \in Seq(GoodResources)
<1>1. \A x, y, z \in GoodResources : <<x, y, z>> \in Seq(GoodResources)
  OBVIOUS
<1>2. /\ <<n, MatchOf(n), ActionOf(n)>> \in Seq(Names) /\ Len(<<n, MatchOf(n), ActionOf(n)>>) = 3
      /\ <<>> \in Seq(Names) /\ Len(<<>>) = 0
  OBVIOUS
<1>3. /\ [type |-> "afi-cap-entry-match", name |-> MatchOf(n), refs |-> <<>>, key |-> k,
         plen |-> 0] \in GoodResources
      /\ [type |-> "afi-cap-entry-action", name |-> ActionOf(n), refs |-> <<>>, key |-> k,
         plen |-> 0] \in GoodResources
  BY <1>2, RefCounts DEF GoodResources, ResourceOK, Resource, Types
<1>4. [type |-> "afi-cap-entry", name |-> EntryOf(n), refs |-> <<n, MatchOf(n), ActionOf(n)>>,
       key |-> k, plen |-> 0] \in GoodResources
  <2>1. Len(RefTypes["afi-cap-entry"]) = 3 BY RefCounts
  <2>2. [type |-> "afi-cap-entry", name |-> EntryOf(n), refs |-> <<n, MatchOf(n), ActionOf(n)>>,
         key |-> k, plen |-> 0] \in Resource
    BY <1>2 DEF Resource, Types
  <2>3. QED BY <1>2, <2>1, <2>2 DEF GoodResources, ResourceOK
<1>5. QED BY <1>1, <1>3, <1>4, Zenon DEF CapChildren

-----------------------------------------------------------------------------
(* The shape of the core's state: what holds of objects, map and threads   *)
(* whatever the configurations are.                                        *)

\* The labels of the core that are outside bind().
Outside == {"idle", "handle", "bindAll", "addObj"}
CoreLabels == Outside \cup {"bind"}

GoodHeap == heap \in Seq(GoodResources)
GoodTodo == todo \in [Threads -> Seq(GoodResources)]

\* The map holds every object under its own name.
NamedMap == \A n \in Names : Found(n) => heap[objectsMap[n]].name = n

\* A thread inside bind() has an object.
HasObject == ~crashed => \A t \in Threads : pc[t] \notin Outside => obj[t] # 0

Shape == CoreTypeOK /\ GoodHeap /\ GoodTodo /\ NamedMap /\ HasObject

\* Initially.
LEMMA CoreInitShape == CoreInit => Shape
<1> SUFFICES ASSUME CoreInit PROVE Shape
  OBVIOUS
<1>1. MaxCalls \in Nat /\ 0 \in 0..MaxCalls BY CallsAssumption
<1>2. /\ heap \in Seq(Resource) /\ todo \in [Threads -> Seq(Resource)]
      /\ objectsMap \in [Names -> (1..Len(heap)) \cup {NULL, ABSENT}]
      /\ obj \in [Threads -> 0..Len(heap)]
  BY DEF CoreInit
<1>3. CoreTypeOK BY <1>1, <1>2 DEF CoreInit, CoreTypeOK
<1>4. GoodHeap /\ GoodTodo BY DEF CoreInit, GoodHeap, GoodTodo
<1>5. NamedMap /\ HasObject BY DEF CoreInit, NamedMap, Found, HasObject, Outside
<1>6. QED BY <1>3, <1>4, <1>5 DEF Shape

\* A pointer in the map is an index of the heap.
LEMMA FoundPointer ==
    ASSUME Shape, NEW n \in Names
    PROVE  /\ Found(n) => /\ objectsMap[n] \in 1..Len(heap)
                          /\ heap[objectsMap[n]] \in GoodResources
                          /\ heap[objectsMap[n]].name = n
           /\ objectsMap[n] \in 1..Len(heap) => Found(n)
<1>1. objectsMap[n] \in (1..Len(heap)) \cup {NULL, ABSENT}
  BY DEF Shape, CoreTypeOK
<1>2. Found(n) => objectsMap[n] \in 1..Len(heap)
  BY <1>1 DEF Found
<1>3. heap \in Seq(GoodResources) BY DEF Shape, GoodHeap
<1>4. QED BY <1>2, <1>3, NullsAssumption DEF Shape, NamedMap, Found

\* A lookup finds what is there and adds at most a null object.
LEMMA LookUpMap ==
    ASSUME Shape, NEW n \in Names, GetAfiObject(n)
    PROVE  /\ objectsMap' \in [Names -> (1..Len(heap)) \cup {NULL, ABSENT}]
           /\ \A m \in Names : Found(m) => objectsMap'[m] = objectsMap[m]
           /\ \A m \in Names : m # n => objectsMap'[m] = objectsMap[m]
           /\ Found(n) => objectsMap' = objectsMap
           /\ ~Found(n) => objectsMap'[n] = NULL
<1>1. objectsMap \in [Names -> (1..Len(heap)) \cup {NULL, ABSENT}]
  BY DEF Shape, CoreTypeOK
<1>2. CASE Found(n) BY <1>1, <1>2 DEF GetAfiObject
<1>3. CASE ~Found(n) BY <1>1, <1>3 DEF GetAfiObject
<1>4. QED BY <1>2, <1>3

\* A target's step keeps the shape: it works on the hardware and looks objects up.
LEMMA TargetShape ==
    ASSUME Shape, NEW Labels, pc \in [Threads -> Labels], NEW t \in Threads, NEW label \in Labels,
           ~crashed, pc[t] \notin Outside, Goto(t, label), label # "addObj",
           UNCHANGED <<heap, p4Vars, callVars, crashed, calls>>,
           UNCHANGED objectsMap \/ \E n \in Names : GetAfiObject(n)
    PROVE  Shape' /\ pc' \in [Threads -> Labels]
<1> USE DEF p4Vars, callVars
<1>1. pc' = [pc EXCEPT ![t] = label] BY DEF Goto
<1>2. objectsMap' \in [Names -> (1..Len(heap)) \cup {NULL, ABSENT}]
  BY LookUpMap DEF Shape, CoreTypeOK
<1>3. CoreTypeOK' BY <1>1, <1>2 DEF Shape, CoreTypeOK
<1>4. GoodHeap' /\ GoodTodo' BY DEF Shape, GoodHeap, GoodTodo
<1>5. NamedMap'
  <2>1. CASE UNCHANGED objectsMap BY <2>1 DEF Shape, NamedMap, Found
  <2>2. ASSUME NEW n \in Names, GetAfiObject(n) PROVE NamedMap'
    BY <2>2, LookUpMap DEF Shape, NamedMap, Found
  <2>3. QED BY <2>1, <2>2
<1>6. HasObject' BY <1>1 DEF Shape, HasObject
<1>7. QED BY <1>1, <1>3, <1>4, <1>5, <1>6 DEF Shape

\* A call that is accepted keeps the shape.
LEMMA AcceptShape ==
    ASSUME Shape, NEW Labels, CoreLabels \subseteq Labels, pc \in [Threads -> Labels],
           NEW t \in Threads, NEW rs \in Seq(GoodResources), NEW pipeline \in BOOLEAN,
           NEW then \in Pending \cup {NULL}, Accept(t, rs, pipeline, then),
           tables' \subseteq Names, actions' \subseteq Actions
    PROVE  Shape' /\ pc' \in [Threads -> Labels]
<1> USE DEF Accept, Goto, mapVars
<1>1. pc' = [pc EXCEPT ![t] = "handle"] /\ "handle" \in Labels
  BY DEF CoreLabels, Outside
<1>2. calls' \in 0..MaxCalls BY CallsAssumption DEF Shape, CoreTypeOK
<1>3. todo' \in [Threads -> Seq(GoodResources)] BY DEF Shape, GoodTodo
<1>4. CoreTypeOK' BY <1>1, <1>2, <1>3, GoodSeq DEF Shape, CoreTypeOK
<1>5. GoodHeap' /\ GoodTodo' BY <1>3 DEF Shape, GoodHeap, GoodTodo
<1>6. NamedMap' BY DEF Shape, NamedMap, Found
<1>7. HasObject' BY <1>1 DEF Shape, HasObject, Outside
<1>8. QED BY <1>1, <1>4, <1>5, <1>6, <1>7 DEF Shape

\* Every call keeps the shape.
LEMMA CallShape ==
    ASSUME Shape, NEW Labels, CoreLabels \subseteq Labels, pc \in [Threads -> Labels],
           NEW t \in Threads, Call(t)
    PROVE  Shape' /\ pc' \in [Threads -> Labels]
<1> DEFINE Goal == Shape' /\ pc' \in [Threads -> Labels]
<1> USE DEF p4Vars
<1>0. tables \subseteq Names /\ actions \subseteq Actions BY DEF Shape, CoreTypeOK
<1>1. ASSUME NEW c \in Configs, SetForwardingPipelineConfig(t, c) PROVE Goal
  <2>1. c.objects \in Seq(GoodResources) /\ c.tables \subseteq Names /\ c.actions \subseteq Actions
    BY ConfigGood
  <2>2. /\ Accept(t, c.objects, TRUE, NULL)
        /\ tables' \subseteq Names /\ actions' \subseteq Actions
    BY <1>0, <1>1, <2>1 DEF SetForwardingPipelineConfig, AddP4Info
  <2>3. QED BY <2>1, <2>2, AcceptShape
<1>2. ASSUME NEW w \in Writes, Write(t, w) PROVE Goal
  <2>1. PICK a \in ActionIds(w) :
           /\ Accept(t, LpmEntries(w), FALSE,
                     [table |-> w.table, action |-> a, key |-> w.key, valid |-> w.valid])
           /\ UNCHANGED p4Vars
    BY <1>2 DEF Write
  <2>2. w \in TableInsert BY WritesAssumption
  <2>3. a \in Actions \cup {NULL} BY <2>2 DEF ActionIds, TableInsert
  <2>4. [table |-> w.table, action |-> a, key |-> w.key, valid |-> w.valid] \in Pending
    BY <2>2, <2>3 DEF Pending, TableInsert
  <2>5. QED BY <1>0, <2>1, <2>4, LpmGood, AcceptShape
<1>3. ASSUME NEW w \in Writes, NEW i \in 1..Len(w.lpms), AddTableEntry(t, w.lpms[i]) PROVE Goal
  <2>1. EntryResource(w.lpms[i]) \in GoodResources BY LpmGood, EntryGood
  <2>2. <<EntryResource(w.lpms[i])>> \in Seq(GoodResources) BY <2>1
  <2>3. QED BY <1>0, <1>3, <2>2, AcceptShape DEF AddTableEntry
<1>4. ASSUME NEW n \in CliTables, AddTable(t, n) PROVE Goal
  <2>1. TreeResource(n) \in GoodResources BY NamesAssumption, TreeGood
  <2>2. <<TreeResource(n)>> \in Seq(GoodResources) BY <2>1
  <2>3. QED BY <1>0, <1>4, <2>2, AcceptShape DEF AddTable
<1>5. ASSUME ServeAtOnce(t), crashed' \in BOOLEAN, tables' \subseteq Names, actions' \subseteq Actions
      PROVE  Goal
  <2>1. calls' \in 0..MaxCalls BY <1>5, CallsAssumption DEF Shape, CoreTypeOK, ServeAtOnce
  <2>2. UNCHANGED <<mapVars, pc, callVars>> BY <1>5 DEF ServeAtOnce
  <2>3. CoreTypeOK' BY <1>5, <2>1, <2>2 DEF Shape, CoreTypeOK, mapVars, callVars
  <2>4. (GoodHeap /\ GoodTodo /\ NamedMap)'
    BY <2>2 DEF Shape, GoodHeap, GoodTodo, NamedMap, Found, mapVars, callVars
  <2>5. HasObject' BY <1>5, <2>2 DEF Shape, HasObject, ServeAtOnce, callVars
  <2>6. QED BY <2>2, <2>3, <2>4, <2>5 DEF Shape
<1>6. CASE ShowAfiObjects(t) BY <1>0, <1>5, <1>6 DEF ShowAfiObjects
<1>7. ASSUME NEW c \in Unparsed, UnparsedConfig(t, c) PROVE Goal
  <2>1. c.tables \subseteq Names /\ c.actions \subseteq Actions BY UnparsedAssumption DEF Info
  <2>2. QED BY <1>0, <1>5, <1>7, <2>1 DEF UnparsedConfig, AddP4Info
<1>8. QED BY <1>1, <1>2, <1>3, <1>4, <1>6, <1>7 DEF Call

\* Handling a resource: its object goes to the end of the heap, and into the
\* map under its name.
LEMMA HandleMap ==
    ASSUME Shape, NEW t \in Threads, HandleObject(t)
    PROVE  LET res == Head(todo[t])
               o == Len(heap) + 1
           IN  /\ res \in GoodResources /\ res = todo[t][1] /\ Len(todo[t]) \in Nat \ {0}
               /\ heap' \in Seq(GoodResources) /\ Len(heap') = o /\ heap'[o] = res
               /\ \A i \in 1..Len(heap) : heap'[i] = heap[i]
               /\ objectsMap' \in [Names -> (1..o) \cup {NULL, ABSENT}]
               /\ objectsMap'[res.name] = o /\ o \notin {NULL, ABSENT}
               /\ \A m \in Names : m # res.name => objectsMap'[m] = objectsMap[m]
               /\ todo' \in [Threads -> Seq(GoodResources)]
               /\ Len(todo'[t]) = Len(todo[t]) - 1
               /\ \A i \in 1..Len(todo'[t]) : todo'[t][i] = todo[t][i + 1]
<1> DEFINE res == Head(todo[t])
           o == Len(heap) + 1
<1>1. todo[t] \in Seq(GoodResources) /\ todo[t] # <<>> /\ heap \in Seq(GoodResources)
  BY DEF Shape, GoodTodo, GoodHeap, HandleObject
<1>2. /\ res \in GoodResources /\ res = todo[t][1] /\ Len(todo[t]) \in Nat \ {0}
      /\ Tail(todo[t]) \in Seq(GoodResources) /\ Len(Tail(todo[t])) = Len(todo[t]) - 1
      /\ \A i \in 1..Len(Tail(todo[t])) : Tail(todo[t])[i] = todo[t][i + 1]
  BY <1>1
<1>3. todo' = [todo EXCEPT ![t] = Tail(todo[t])] /\ heap' = Append(heap, res)
  BY DEF HandleObject
<1>4. /\ heap' \in Seq(GoodResources) /\ Len(heap') = o /\ heap'[o] = res
      /\ \A i \in 1..Len(heap) : heap'[i] = heap[i]
      /\ Len(heap) \in Nat
  BY <1>1, <1>2, <1>3
<1>5. objectsMap \in [Names -> (1..Len(heap)) \cup {NULL, ABSENT}] /\ todo \in [Threads -> Seq(GoodResources)]
  BY DEF Shape, CoreTypeOK, GoodTodo
<1>6. res.name \in Names BY <1>2, GoodFields
<1>7. objectsMap' = [objectsMap EXCEPT ![res.name] = o]
  BY DEF HandleObject, InsertToObjectMap
<1>8. /\ objectsMap' \in [Names -> (1..o) \cup {NULL, ABSENT}]
      /\ objectsMap'[res.name] = o
      /\ \A m \in Names : m # res.name => objectsMap'[m] = objectsMap[m]
  BY <1>4, <1>5, <1>6, <1>7
<1>9. o \notin {NULL, ABSENT} BY <1>4, NullsAssumption
<1>10. /\ todo' \in [Threads -> Seq(GoodResources)]
       /\ todo'[t] = Tail(todo[t])
  BY <1>2, <1>3, <1>5
<1>11. QED BY <1>2, <1>4, <1>8, <1>9, <1>10

\* Every step of the core keeps the shape.
LEMMA CoreShape ==
    ASSUME Shape, NEW Labels, CoreLabels \subseteq Labels, pc \in [Threads -> Labels],
           NEW t \in Threads, CoreStep(t)
    PROVE  Shape' /\ pc' \in [Threads -> Labels]
<1> DEFINE Goal == Shape' /\ pc' \in [Threads -> Labels]
<1>0. CoreTypeOK /\ GoodHeap /\ GoodTodo /\ NamedMap /\ HasObject BY DEF Shape
<1> USE DEF p4Vars, mapVars, callVars, Goto
<1>1. CASE HandleObject(t)
  <2> DEFINE res == Head(todo[t])
             o == Len(heap) + 1
  <2>1. /\ res \in GoodResources /\ res.name \in Names
        /\ heap' \in Seq(GoodResources) /\ Len(heap') = o /\ heap'[o] = res
        /\ \A i \in 1..Len(heap) : heap'[i] = heap[i]
        /\ objectsMap' \in [Names -> (1..o) \cup {NULL, ABSENT}]
        /\ objectsMap'[res.name] = o
        /\ \A m \in Names : m # res.name => objectsMap'[m] = objectsMap[m]
        /\ todo' \in [Threads -> Seq(GoodResources)]
    BY <1>1, HandleMap, GoodFields
  <2> HIDE DEF res
  <2>2. /\ UNCHANGED <<p4Vars, stage, cursor, pending, crashed, calls>>
        /\ \/ UNCHANGED <<obj, pc>>
           \/ obj' = [obj EXCEPT ![t] = o] /\ pc' = [pc EXCEPT ![t] = "bind"]
    BY <1>1 DEF HandleObject
  <2>3. Len(heap) \in Nat BY <1>0 DEF GoodHeap
  <2>4. obj' \in [Threads -> 0..Len(heap')]
    <3>1. o \in 0..Len(heap') /\ 0..Len(heap) \subseteq 0..Len(heap') BY <2>1, <2>3
    <3>2. obj \in [Threads -> 0..Len(heap')] BY <1>0, <3>1 DEF CoreTypeOK
    <3>3. QED BY <2>2, <3>1, <3>2
  <2>5. pc' \in [Threads -> Labels] /\ \A u \in Threads : pc'[u] = "addObj" => pc[u] = "addObj"
    BY <2>2 DEF CoreLabels
  <2>6. heap' \in Seq(Resource) /\ todo' \in [Threads -> Seq(Resource)]
    BY <2>1, GoodSeq
  <2>7. CoreTypeOK' BY <1>0, <2>1, <2>2, <2>4, <2>5, <2>6 DEF CoreTypeOK
  <2>8. NamedMap'
    <3>1. SUFFICES ASSUME NEW n \in Names, Found(n)' PROVE heap'[objectsMap'[n]].name = n
      BY DEF NamedMap
    <3>2. CASE n = res.name BY <2>1, <3>2
    <3>3. CASE n # res.name
      <4>1. objectsMap'[n] = objectsMap[n] BY <2>1, <3>3
      <4>2. Found(n) BY <3>1, <4>1 DEF Found
      <4>3. QED BY <2>1, <4>1, <4>2, FoundPointer
    <3>4. QED BY <3>2, <3>3
  <2>9. HasObject'
    <3>1. obj \in [Threads -> 0..Len(heap)] /\ o # 0 BY <1>0, <2>3 DEF CoreTypeOK
    <3>2. ~crashed BY <1>1 DEF HandleObject
    <3>3. CASE UNCHANGED <<obj, pc>> BY <1>0, <2>2, <3>3 DEF HasObject
    <3>4. CASE obj' = [obj EXCEPT ![t] = o] /\ pc' = [pc EXCEPT ![t] = "bind"]
      <4>1. \A u \in Threads : u # t => obj'[u] = obj[u] /\ pc'[u] = pc[u] BY <3>1, <3>4
      <4>2. obj'[t] # 0 BY <3>1, <3>4
      <4>3. QED BY <1>0, <3>2, <4>1, <4>2 DEF HasObject
    <3>5. QED BY <2>2, <3>3, <3>4
  <2>10. QED BY <2>1, <2>5, <2>7, <2>8, <2>9 DEF Shape, GoodHeap, GoodTodo
<1>2. ASSUME UNCHANGED <<heap, p4Vars, calls>>, ~crashed, crashed' \in BOOLEAN,
             objectsMap' = objectsMap \/ \E n \in Names : GetAfiObject(n),
             NEW label \in Labels, pc' = [pc EXCEPT ![t] = label], label = "addObj" => pending'[t] # NULL,
             todo' \in [Threads -> Seq(GoodResources)],
             obj' \in [Threads -> 0..Len(heap)], ~crashed' => \A u \in Threads : obj[u] # 0 => obj'[u] # 0,
             stage' \in [Threads -> BOOLEAN], cursor' \in [Threads -> Nat],
             pending' \in [Threads -> Pending \cup {NULL}],
             \A u \in Threads : u # t => pending'[u] = pending[u],
             ~crashed' /\ label \notin Outside => obj'[t] # 0
      PROVE  Goal
  <2>1. objectsMap' \in [Names -> (1..Len(heap)) \cup {NULL, ABSENT}]
    BY <1>0, <1>2, LookUpMap DEF CoreTypeOK
  <2>2. todo' \in [Threads -> Seq(Resource)] BY <1>2, GoodSeq
  <2>3. CoreTypeOK' BY <1>0, <1>2, <2>1, <2>2 DEF CoreTypeOK
  <2>4. NamedMap'
    <3>1. \A n \in Names : Found(n)' => Found(n) /\ objectsMap'[n] = objectsMap[n]
      BY <1>2, LookUpMap DEF Found
    <3>2. QED BY <1>0, <1>2, <3>1 DEF NamedMap
  <2>5. HasObject' BY <1>0, <1>2 DEF HasObject
  <2>6. QED BY <1>0, <1>2, <2>3, <2>4, <2>5 DEF Shape, GoodHeap, GoodTodo
<1>3. CASE RejectObject(t)
  <2>1. todo' \in [Threads -> Seq(GoodResources)] BY <1>0, <1>3 DEF RejectObject, GoodTodo
  <2>2. "idle" \in Labels BY DEF CoreLabels, Outside
  <2>3. QED BY <1>0, <1>2, <1>3, <2>1, <2>2 DEF RejectObject, CoreTypeOK, Outside
<1>4. CASE HandleDone(t)
  <2>1. PICK label \in {"bindAll", "addObj", "idle"} :
          pc' = [pc EXCEPT ![t] = label] /\ (label = "addObj" => pending[t] # NULL)
    BY <1>4 DEF HandleDone
  <2>2. QED BY <1>0, <1>2, <1>4, <2>1 DEF HandleDone, CoreTypeOK, GoodTodo, CoreLabels, Outside
<1>5. CASE BindNext(t)
  <2>1. PICK n \in Ahead(t) :
          /\ crashed' = (objectsMap[n] = NULL)
          /\ obj' = IF objectsMap[n] = NULL THEN obj ELSE [obj EXCEPT ![t] = objectsMap[n]]
          /\ cursor' = [cursor EXCEPT ![t] = n]
          /\ pc' = [pc EXCEPT ![t] = "bind"]
    BY <1>5 DEF BindNext
  <2>2. n \in Names /\ n \in Nat /\ objectsMap[n] # ABSENT BY <2>1, NamesAssumption DEF Ahead
  <2>3. objectsMap[n] # NULL => objectsMap[n] \in 1..Len(heap)
    BY <1>0, <2>2 DEF CoreTypeOK
  <2>4. /\ UNCHANGED <<heap, objectsMap, p4Vars, todo, stage, pending, calls>> /\ ~crashed
    BY <1>5 DEF BindNext
  <2>5. obj' \in [Threads -> 0..Len(heap)] /\ (~crashed' => obj'[t] # 0)
        /\ (~crashed' => \A u \in Threads : obj[u] # 0 => obj'[u] # 0)
    <3>1. obj \in [Threads -> 0..Len(heap)] /\ Len(heap) \in Nat BY <1>0 DEF CoreTypeOK
    <3>2. CASE objectsMap[n] = NULL BY <2>1, <3>1, <3>2
    <3>3. CASE objectsMap[n] # NULL
      <4>1. objectsMap[n] \in 0..Len(heap) /\ objectsMap[n] # 0 BY <2>3, <3>1, <3>3
      <4>2. obj' = [obj EXCEPT ![t] = objectsMap[n]] BY <2>1, <3>3
      <4>3. QED BY <3>1, <4>1, <4>2
    <3>4. QED BY <3>2, <3>3
  <2>6. "bind" \in Labels BY DEF CoreLabels
  <2>7. cursor' \in [Threads -> Nat] BY <1>0, <2>1, <2>2 DEF CoreTypeOK
  <2>8. QED BY <1>0, <1>2, <2>1, <2>4, <2>5, <2>6, <2>7 DEF CoreTypeOK, GoodTodo
<1>6. CASE BindAllDone(t)
  BY <1>0, <1>2, <1>6 DEF BindAllDone, CoreTypeOK, GoodTodo, CoreLabels, Outside
<1>7. CASE AfiAddObjEntry(t)
  <2> DEFINE e == pending[t]
  <2>1. pc[t] = "addObj" /\ ~crashed /\ e \in Pending
    BY <1>0, <1>7 DEF AfiAddObjEntry, CoreTypeOK
  <2>2. e.table \in Names /\ e.key \in Nat BY <2>1 DEF Pending
  <2>3. objectsMap' = objectsMap \/ \E n \in Names : GetAfiObject(n)
    BY <1>7, <2>2 DEF AfiAddObjEntry
  <2>4. \/ UNCHANGED todo /\ pc' = [pc EXCEPT ![t] = "idle"]
        \/ /\ Found(e.table) /\ heap[objectsMap[e.table]].type = "afi-cap"
           /\ todo' = [todo EXCEPT ![t] = CapChildren(e.table, e.key)]
           /\ pc' = [pc EXCEPT ![t] = "handle"]
    BY <1>7 DEF AfiAddObjEntry
  <2>5. todo' \in [Threads -> Seq(GoodResources)]
    <3>1. CASE UNCHANGED todo BY <1>0, <3>1 DEF GoodTodo
    <3>2. CASE /\ Found(e.table) /\ heap[objectsMap[e.table]].type = "afi-cap"
               /\ todo' = [todo EXCEPT ![t] = CapChildren(e.table, e.key)]
      <4>1. {EntryOf(e.table), ActionOf(e.table), MatchOf(e.table)} \subseteq Names
        BY <2>2, <3>2, FoundPointer, GoodFields
      <4>2. CapChildren(e.table, e.key) \in Seq(GoodResources)
        BY <2>2, <4>1, ChildrenGood
      <4>3. QED BY <1>0, <3>2, <4>2 DEF GoodTodo
    <3>3. QED BY <2>4, <3>1, <3>2
  <2>6. PICK label \in {"idle", "handle"} : pc' = [pc EXCEPT ![t] = label]
    BY <2>4
  <2>7. label \in Labels /\ label \in Outside /\ label # "addObj" BY <2>6 DEF CoreLabels, Outside
  <2>8. pending' = [pending EXCEPT ![t] = NULL] /\ UNCHANGED <<heap, p4Vars, stage, obj, cursor, crashed, calls>>
    BY <1>7 DEF AfiAddObjEntry
  <2>9. pending' \in [Threads -> Pending \cup {NULL}] /\ \A u \in Threads : u # t => pending'[u] = pending[u]
    BY <1>0, <2>8 DEF CoreTypeOK
  <2>10. QED BY <1>0, <1>2, <2>1, <2>3, <2>5, <2>6, <2>7, <2>8, <2>9 DEF CoreTypeOK
<1>8. QED BY <1>1, <1>3, <1>4, <1>5, <1>6, <1>7 DEF CoreStep

-----------------------------------------------------------------------------
(* Where null objects may be.  A lookup that fails leaves one in the map,  *)
(* and bindAfiObjects dereferences every object of the map: it is safe     *)
(* when each configuration has an object for every name that is looked up. *)

Refs(r) == {r.refs[j] : j \in 1..Len(r.refs)}

\* A name whose null object, should there be one, every push replaces.
Available(n) == n \in Lookups \/ Found(n)

TablesAvailable == tables \subseteq Lookups
NullsLookedUp == \A n \in Names : objectsMap[n] = NULL => n \in Lookups
HeapAvailable == \A o \in 1..Len(heap) : \A n \in Refs(heap[o]) : Available(n)

\* A resource names objects that are there, or that come before it.
Provided(s, i) == \A n \in Refs(s[i]) : Available(n) \/ \E k \in 1..(i - 1) : s[k].name = n

AllFound == \A n \in Lookups : Found(n)
Covered(s) == \A n \in Lookups : Found(n) \/ \E i \in 1..Len(s) : s[i].name = n
Creatable(s) == \A i \in 1..Len(s) : s[i].type \in Creators

\* A push has still to insert the objects it has not inserted yet, and none
\* of them ends it; once it has handled its objects every name is found.
ThreadCovers(t) ==
    /\ \A i \in 1..Len(todo[t]) : Provided(todo[t], i)
    /\ stage[t] /\ pc[t] = "handle" => Covered(todo[t]) /\ Creatable(todo[t])
    /\ stage[t] /\ pc[t] \notin {"idle", "handle"} => AllFound
    /\ pc[t] = "bindAll" => stage[t]
    /\ pc[t] = "addObj" => ~stage[t]

NullFree ==
    /\ TablesAvailable /\ NullsLookedUp /\ HeapAvailable
    /\ \A t \in Threads : ThreadCovers(t)
    /\ ~crashed

\* No step takes an object away.
ObjectsKept == \A n \in Names : Found(n) => objectsMap'[n] \notin {NULL, ABSENT}

\* The names that are looked up, one by one.
LEMMA LookupsMembers ==
    ASSUME NEW n
    PROVE  n \in Lookups <=> \/ n = LpmName
                             \/ \E c \in Configs : n \in c.tables
                             \/ \E c \in Configs : \E i \in 1..Len(c.objects) : n \in Refs(c.objects[i])
<1> DEFINE All(c) == UNION {Refs(c.objects[i]) : i \in 1..Len(c.objects)}
           A == UNION {c.tables : c \in Configs}
           B == UNION {All(c) : c \in Configs}
<1>1. Lookups = {LpmName} \cup A \cup B
  BY DEF Lookups, Refs
<1>2. \A c \in Configs : n \in All(c) <=> \E i \in 1..Len(c.objects) : n \in Refs(c.objects[i])
  OBVIOUS
<1> HIDE DEF All
<1>3. n \in A <=> \E c \in Configs : n \in c.tables
  OBVIOUS
<1>4. n \in B <=> \E c \in Configs : n \in All(c)
  OBVIOUS
<1> HIDE DEF A, B
<1>5. n \in Lookups <=> n = LpmName \/ n \in A \/ n \in B
  BY <1>1
<1>6. QED BY <1>2, <1>3, <1>4, <1>5, Zenon

\* The references of a good resource are names.
LEMMA RefsAreNames == \A r \in GoodResources : Refs(r) \subseteq Names
<1>1. TAKE r \in GoodResources
<1>2. r.refs \in Seq(Names) BY GoodFields
<1>3. QED BY <1>2 DEF Refs

\* The names that are looked up are names.
LEMMA LookupsAreNames == Lookups \subseteq Names
<1>1. LpmName \in Names BY NamesAssumption
<1>2. \A c \in Configs : c.tables \subseteq Names BY ConfigGood
<1>3. \A c \in Configs : \A i \in 1..Len(c.objects) : Refs(c.objects[i]) \subseteq Names
  BY ConfigGood, RefsAreNames
<1>4. QED BY <1>1, <1>2, <1>3, LookupsMembers

\* What a complete configuration gives to a push.
LEMMA CompleteCovers ==
    ASSUME CompleteConfigs, NEW c \in Configs
    PROVE  /\ Covered(c.objects) /\ Creatable(c.objects)
           /\ \A i \in 1..Len(c.objects) : Provided(c.objects, i)
           /\ c.tables \subseteq Lookups
<1>1. c.tables \subseteq Lookups BY LookupsMembers
<1>2. \A i \in 1..Len(c.objects) : Refs(c.objects[i]) \subseteq Lookups
  BY LookupsMembers
<1>3. QED BY <1>1, <1>2 DEF CompleteConfigs, Covered, Creatable, Provided, Available

\* What is available stays so.
LEMMA AvailableKept ==
    ASSUME ObjectsKept
    PROVE  /\ \A n \in Names : Available(n) => Available(n)'
           /\ AllFound => AllFound'
BY LookupsAreNames DEF ObjectsKept, Available, AllFound, Found

\* What a thread has still to do stays provided for while others take steps.
LEMMA CoversKept ==
    ASSUME Shape, ObjectsKept, NEW u \in Threads, ThreadCovers(u),
           todo'[u] = todo[u], stage'[u] = stage[u], pc'[u] = pc[u]
    PROVE  ThreadCovers(u)'
<1>1. todo[u] \in Seq(GoodResources) BY DEF Shape, GoodTodo
<1>2. ASSUME NEW i \in 1..Len(todo[u]) PROVE Provided(todo[u], i)'
  <2>1. Refs(todo[u][i]) \subseteq Names BY <1>1, RefsAreNames
  <2>2. Provided(todo[u], i) BY DEF ThreadCovers
  <2>3. QED BY <2>1, <2>2, AvailableKept DEF Provided, Refs
<1>3. Covered(todo[u]) => Covered(todo[u])'
  BY LookupsAreNames DEF Covered, ObjectsKept, Found
<1>4. Creatable(todo[u]) => Creatable(todo[u])' BY DEF Creatable
<1>5. QED BY <1>2, <1>3, <1>4, AvailableKept DEF ThreadCovers

\* Initially.
LEMMA CoreInitNullFree == CoreInit => NullFree
<1> SUFFICES ASSUME CoreInit PROVE NullFree
  OBVIOUS
<1>1. TablesAvailable /\ ~crashed /\ NullsLookedUp
  BY NullsAssumption DEF CoreInit, TablesAvailable, NullsLookedUp
<1>2. HeapAvailable BY DEF CoreInit, HeapAvailable
<1>3. \A t \in Threads : ThreadCovers(t) BY DEF CoreInit, ThreadCovers
<1>4. QED BY <1>1, <1>2, <1>3 DEF NullFree

\* A lookup keeps every object, and adds a null object only where a push puts
\* an object.
LEMMA LookUpNullFree ==
    ASSUME Shape, NullFree, NEW n \in Names, Available(n), GetAfiObject(n)
    PROVE  ObjectsKept /\ NullsLookedUp'
<1>1. ObjectsKept BY LookUpMap DEF ObjectsKept, Found
<1>2. NullsLookedUp' BY LookUpMap DEF NullFree, NullsLookedUp, Available
<1>3. QED BY <1>1, <1>2

\* A step that neither creates an object nor inserts one.
LEMMA PlainNullFree ==
    ASSUME Shape, NullFree, NEW t \in Threads,
           objectsMap' = objectsMap \/ \E n \in Names : Available(n) /\ GetAfiObject(n),
           heap' = heap, tables' \subseteq Lookups, ~crashed',
           \A u \in Threads : u # t => todo'[u] = todo[u] /\ stage'[u] = stage[u] /\ pc'[u] = pc[u],
           ObjectsKept => ThreadCovers(t)'
    PROVE  NullFree'
<1>1. ObjectsKept /\ NullsLookedUp'
  <2>1. CASE objectsMap' = objectsMap
    BY <2>1 DEF ObjectsKept, Found, NullsLookedUp, NullFree
  <2>2. ASSUME NEW n \in Names, Available(n), GetAfiObject(n) PROVE ObjectsKept /\ NullsLookedUp'
    BY <2>2, LookUpNullFree
  <2>3. QED BY <2>1, <2>2
<1>2. HeapAvailable'
  <2>1. ASSUME NEW o \in 1..Len(heap), NEW n \in Refs(heap[o]) PROVE Available(n)'
    <3>1. heap[o] \in GoodResources BY DEF Shape, GoodHeap
    <3>2. n \in Names BY <3>1, RefsAreNames
    <3>3. Available(n) BY DEF NullFree, HeapAvailable
    <3>4. QED BY <1>1, <3>2, <3>3, AvailableKept
  <2>2. QED BY <2>1 DEF HeapAvailable, Refs
<1>3. ASSUME NEW u \in Threads PROVE ThreadCovers(u)'
  <2>1. CASE u = t BY <1>1, <2>1
  <2>2. CASE u # t BY <1>1, <2>2, CoversKept DEF NullFree
  <2>3. QED BY <2>1, <2>2
<1>4. QED BY <1>1, <1>2, <1>3 DEF NullFree, TablesAvailable

\* A target's step keeps the map free of unexpected null objects, when it
\* looks up what the object it binds refers to.
LEMMA TargetNullFree ==
    ASSUME Shape, NullFree, NEW Labels, pc \in [Threads -> Labels], NEW t \in Threads, NEW label,
           pc[t] \notin Outside, Goto(t, label),
           label \notin Outside \/ label = IF stage[t] THEN "bindAll" ELSE "handle",
           UNCHANGED <<heap, p4Vars, callVars, crashed>>,
           UNCHANGED objectsMap \/ \E n \in Names : Available(n) /\ GetAfiObject(n)
    PROVE  NullFree'
<1> USE DEF p4Vars, callVars
<1>1. pc' = [pc EXCEPT ![t] = label] BY DEF Goto
<1>2. pc'[t] = label /\ \A u \in Threads : u # t => pc'[u] = pc[u] BY <1>1
<1>3. ASSUME ObjectsKept PROVE ThreadCovers(t)'
  <2>1. ThreadCovers(t) BY DEF NullFree
  <2>2. todo[t] \in Seq(GoodResources) BY DEF Shape, GoodTodo
  <2>3. ASSUME NEW i \in 1..Len(todo[t]) PROVE Provided(todo[t], i)'
    <3>1. Refs(todo[t][i]) \subseteq Names BY <2>2, RefsAreNames
    <3>2. Provided(todo[t], i) BY <2>1 DEF ThreadCovers
    <3>3. QED BY <1>3, <3>1, <3>2, AvailableKept DEF Provided, Refs
  <2>4. stage[t] => AllFound'
    BY <1>3, <2>1, AvailableKept DEF ThreadCovers, Outside
  <2>5. QED BY <1>2, <2>3, <2>4 DEF ThreadCovers, Outside
<1>4. QED BY <1>2, <1>3, PlainNullFree DEF NullFree, TablesAvailable

\* A call that is accepted.
LEMMA AcceptNullFree ==
    ASSUME Shape, NullFree, NEW Labels, pc \in [Threads -> Labels], NEW t \in Threads,
           NEW rs \in Seq(GoodResources), NEW pipeline \in BOOLEAN, NEW then,
           Accept(t, rs, pipeline, then), tables' \subseteq Lookups,
           \A i \in 1..Len(rs) : Provided(rs, i),
           pipeline => Covered(rs) /\ Creatable(rs)
    PROVE  NullFree'
<1>1. /\ todo \in [Threads -> Seq(GoodResources)] /\ stage \in [Threads -> BOOLEAN]
      /\ todo' = [todo EXCEPT ![t] = rs] /\ stage' = [stage EXCEPT ![t] = pipeline]
      /\ pc' = [pc EXCEPT ![t] = "handle"]
      /\ UNCHANGED <<heap, objectsMap, crashed>>
  BY DEF Shape, GoodTodo, CoreTypeOK, Accept, Goto, mapVars
<1>2. todo'[t] = rs /\ stage'[t] = pipeline /\ pc'[t] = "handle"
  BY <1>1
<1>3. \A u \in Threads : u # t => todo'[u] = todo[u] /\ stage'[u] = stage[u] /\ pc'[u] = pc[u]
  BY <1>1
<1>4. \A i \in 1..Len(rs) : Provided(rs, i)'
  BY <1>1 DEF Provided, Available, Found, Refs
<1>5. pipeline => Covered(rs)' /\ Creatable(rs)'
  BY <1>1 DEF Covered, Found, Creatable
<1>6. ThreadCovers(t)'
  BY <1>2, <1>4, <1>5 DEF ThreadCovers
<1>7. QED BY <1>1, <1>3, <1>6, PlainNullFree DEF NullFree

\* Every call, unless it lists the objects.
LEMMA CallNullFree ==
    ASSUME Shape, NullFree, CompleteConfigs, ~ShowAllowed, NEW Labels, pc \in [Threads -> Labels],
           NEW t \in Threads, Call(t)
    PROVE  NullFree'
<1> USE DEF p4Vars
<1>0. tables \subseteq Lookups BY DEF NullFree, TablesAvailable
<1>e. ASSUME NEW f PROVE Refs(EntryResource(f)) = {LpmName}
  <2>1. EntryResource(f).refs = <<LpmName>> BY DEF EntryResource
  <2>2. Refs(EntryResource(f)) = {<<LpmName>>[j] : j \in 1..Len(<<LpmName>>)} BY <2>1 DEF Refs
  <2>3. QED BY <2>2
<1>l. Available(LpmName) BY LookupsMembers DEF Available
<1>1. ASSUME NEW c \in Configs, SetForwardingPipelineConfig(t, c) PROVE NullFree'
  <2>1. c.objects \in Seq(GoodResources) BY ConfigGood
  <2>2. /\ Accept(t, c.objects, TRUE, NULL)
        /\ tables' \subseteq Lookups
    BY <1>0, <1>1, CompleteCovers DEF SetForwardingPipelineConfig, AddP4Info
  <2>3. QED BY <2>1, <2>2, CompleteCovers, AcceptNullFree
<1>2. ASSUME NEW w \in Writes, Write(t, w) PROVE NullFree'
  <2>1. PICK a \in ActionIds(w) :
           /\ Accept(t, LpmEntries(w), FALSE,
                     [table |-> w.table, action |-> a, key |-> w.key, valid |-> w.valid])
           /\ UNCHANGED p4Vars
    BY <1>2 DEF Write
  <2>2. \A i \in 1..Len(LpmEntries(w)) : Provided(LpmEntries(w), i)
    BY <1>e, <1>l, LpmGood DEF Provided
  <2>3. QED BY <1>0, <2>1, <2>2, LpmGood, AcceptNullFree
<1>3. ASSUME NEW w \in Writes, NEW i \in 1..Len(w.lpms), AddTableEntry(t, w.lpms[i]) PROVE NullFree'
  <2> DEFINE rs == <<EntryResource(w.lpms[i])>>
  <2>1. EntryResource(w.lpms[i]) \in GoodResources BY LpmGood, EntryGood
  <2>2. rs \in Seq(GoodResources) /\ Len(rs) = 1 /\ rs[1] = EntryResource(w.lpms[i]) BY <2>1
  <2>3. \A k \in 1..Len(rs) : Provided(rs, k) BY <1>e, <1>l, <2>2 DEF Provided
  <2>4. Accept(t, rs, FALSE, NULL) /\ tables' \subseteq Lookups BY <1>0, <1>3 DEF AddTableEntry
  <2> HIDE DEF rs
  <2>5. QED BY <2>2, <2>3, <2>4, AcceptNullFree
<1>4. ASSUME NEW n \in CliTables, AddTable(t, n) PROVE NullFree'
  <2> DEFINE rs == <<TreeResource(n)>>
  <2>1. TreeResource(n) \in GoodResources BY NamesAssumption, TreeGood
  <2>2. rs \in Seq(GoodResources) /\ Len(rs) = 1 /\ rs[1] = TreeResource(n) BY <2>1
  <2>3. Refs(TreeResource(n)) = {} BY DEF Refs, TreeResource
  <2>4. \A k \in 1..Len(rs) : Provided(rs, k) BY <2>2, <2>3 DEF Provided
  <2>5. Accept(t, rs, FALSE, NULL) /\ tables' \subseteq Lookups BY <1>0, <1>4 DEF AddTable
  <2> HIDE DEF rs
  <2>6. QED BY <2>2, <2>4, <2>5, AcceptNullFree
<1>5. CASE ShowAfiObjects(t) BY <1>5 DEF ShowAfiObjects
<1>6. Unparsed = {} BY DEF CompleteConfigs
<1>7. QED BY <1>1, <1>2, <1>3, <1>4, <1>5, <1>6 DEF Call

\* Handling a resource.
LEMMA HandleNullFree ==
    ASSUME Shape, NullFree, NEW Labels, pc \in [Threads -> Labels], NEW t \in Threads, HandleObject(t)
    PROVE  NullFree'
<1> DEFINE res == Head(todo[t])
           o == Len(heap) + 1
<1>1. /\ res \in GoodResources /\ res = todo[t][1] /\ Len(todo[t]) \in Nat \ {0}
      /\ Len(heap') = o /\ heap'[o] = res
      /\ \A i \in 1..Len(heap) : heap'[i] = heap[i]
      /\ objectsMap'[res.name] = o /\ o \notin {NULL, ABSENT}
      /\ \A m \in Names : m # res.name => objectsMap'[m] = objectsMap[m]
      /\ todo' \in [Threads -> Seq(GoodResources)]
      /\ Len(todo'[t]) = Len(todo[t]) - 1
      /\ \A i \in 1..Len(todo'[t]) : todo'[t][i] = todo[t][i + 1]
  BY HandleMap
<1>2. res.name \in Names /\ Len(heap) \in Nat BY <1>1, GoodFields DEF Shape, GoodHeap
<1>3. /\ todo' = [todo EXCEPT ![t] = Tail(@)]
      /\ UNCHANGED <<tables, actions, stage, crashed>>
      /\ pc[t] = "handle"
      /\ (stage[t] /\ pc' = pc) \/ (~stage[t] /\ pc' = [pc EXCEPT ![t] = "bind"])
  <2>1. CASE stage[t] BY <2>1 DEF HandleObject, p4Vars, Goto
  <2>2. CASE ~stage[t] BY <2>2 DEF HandleObject, p4Vars, Goto
  <2>3. QED BY <2>1, <2>2
<1> HIDE DEF res
<1>4. ObjectsKept BY <1>1, <1>2 DEF ObjectsKept, Found
<1>5. NullsLookedUp' BY <1>1, <1>2 DEF NullFree, NullsLookedUp
<1>6. ThreadCovers(t) BY DEF NullFree
<1>7. \A n \in Refs(res) : Available(n)
  BY <1>1, <1>6 DEF ThreadCovers, Provided
<1>8. HeapAvailable'
  <2>1. SUFFICES ASSUME NEW i \in 1..Len(heap'), NEW n \in Refs(heap'[i]) PROVE Available(n)'
    BY DEF HeapAvailable, Refs
  <2>2. CASE i = o
    BY <1>1, <1>4, <1>7, <2>2, RefsAreNames, AvailableKept
  <2>3. CASE i # o
    <3>1. i \in 1..Len(heap) BY <1>1, <1>2, <2>3
    <3>2. heap[i] \in GoodResources BY <3>1 DEF Shape, GoodHeap
    <3>3. n \in Refs(heap[i]) /\ n \in Names BY <1>1, <3>1, <3>2, RefsAreNames
    <3>4. QED BY <1>4, <3>1, <3>3, AvailableKept DEF NullFree, HeapAvailable
  <2>4. QED BY <2>2, <2>3
<1>9. objectsMap'[res.name] \notin {NULL, ABSENT} BY <1>1
<1>10. ASSUME NEW i \in 1..Len(todo'[t]), NEW n \in Refs(todo'[t][i])
       PROVE  Available(n)' \/ \E k \in 1..(i - 1) : todo'[t][k].name = n
  <2>1. i + 1 \in 1..Len(todo[t]) /\ todo'[t][i] = todo[t][i + 1] BY <1>1
  <2>2. n \in Names BY <1>1, <1>10, RefsAreNames
  <2>3. Available(n) \/ \E k \in 1..i : todo[t][k].name = n
    <3>1. Provided(todo[t], i + 1) BY <1>6, <2>1 DEF ThreadCovers
    <3>2. n \in Refs(todo[t][i + 1]) BY <1>10, <2>1
    <3>3. (i + 1) - 1 = i OBVIOUS
    <3>4. QED BY <3>1, <3>2, <3>3 DEF Provided
  <2>4. CASE Available(n) BY <1>4, <2>2, <2>4, AvailableKept
  <2>5. ASSUME NEW k \in 1..i, todo[t][k].name = n
        PROVE  Available(n)' \/ \E m \in 1..(i - 1) : todo'[t][m].name = n
    <3>1. CASE k = 1 BY <1>1, <1>9, <2>5, <3>1 DEF Available, Found
    <3>2. CASE k # 1
      <4>1. k - 1 \in 1..(i - 1) /\ k - 1 \in 1..Len(todo'[t]) BY <1>1, <3>2
      <4>2. todo'[t][k - 1] = todo[t][k] BY <1>1, <4>1
      <4>3. QED BY <2>5, <4>1, <4>2
    <3>3. QED BY <3>1, <3>2
  <2>6. QED BY <2>3, <2>4, <2>5
<1>11. stage[t] => Covered(todo[t])'
  <2>1. SUFFICES ASSUME stage[t], NEW n \in Lookups,
                        objectsMap'[n] \in {NULL, ABSENT}
                 PROVE  \E i \in 1..Len(todo'[t]) : todo'[t][i].name = n
    BY DEF Covered, Found
  <2>2. n \in Names /\ n # res.name BY <1>9, <2>1, LookupsAreNames
  <2>3. ~Found(n) BY <1>1, <2>1, <2>2 DEF Found
  <2>4. PICK k \in 1..Len(todo[t]) : todo[t][k].name = n
    BY <1>3, <1>6, <2>1, <2>3 DEF ThreadCovers, Covered
  <2>5. k # 1 BY <1>1, <2>2, <2>4
  <2>6. k - 1 \in 1..Len(todo'[t]) /\ todo'[t][k - 1] = todo[t][k] BY <1>1, <2>5
  <2>7. QED BY <2>4, <2>6
<1>12. stage[t] => Creatable(todo[t])'
  BY <1>1, <1>3, <1>6 DEF ThreadCovers, Creatable
<1>13. ThreadCovers(t)'
  <2>1. CASE stage[t] /\ pc' = pc BY <1>3, <1>10, <1>11, <1>12, <2>1 DEF ThreadCovers, Provided
  <2>2. CASE ~stage[t] /\ pc' = [pc EXCEPT ![t] = "bind"]
    BY <1>3, <1>10, <2>2 DEF ThreadCovers, Provided
  <2>3. QED BY <1>3, <2>1, <2>2
<1>14. ASSUME NEW u \in Threads, u # t PROVE ThreadCovers(u)'
  <2>1. todo \in [Threads -> Seq(GoodResources)] BY DEF Shape, GoodTodo
  <2>2. todo'[u] = todo[u] /\ stage'[u] = stage[u] /\ pc'[u] = pc[u] BY <1>3, <1>14, <2>1
  <2>3. QED BY <1>4, <2>2, CoversKept DEF NullFree
<1>15. QED BY <1>3, <1>5, <1>8, <1>13, <1>14 DEF NullFree, TablesAvailable

\* The objects of an entry refer to the cap and to one another.
LEMMA ChildrenProvided ==
    ASSUME NEW n, NEW k, Available(n)'
    PROVE  \A i \in 1..Len(CapChildren(n, k)) : Provided(CapChildren(n, k), i)'
<1> DEFINE match == [type |-> "afi-cap-entry-match", name |-> MatchOf(n), refs |-> <<>>,
                     key |-> k, plen |-> 0]
           action == [type |-> "afi-cap-entry-action", name |-> ActionOf(n), refs |-> <<>>,
                      key |-> k, plen |-> 0]
           refs == <<n, MatchOf(n), ActionOf(n)>>
           entry == [type |-> "afi-cap-entry", name |-> EntryOf(n), refs |-> refs,
                     key |-> k, plen |-> 0]
           s == CapChildren(n, k)
<1>1. s = <<match, action, entry>> BY DEF CapChildren
<1>2. match.name = MatchOf(n) /\ action.name = ActionOf(n) OBVIOUS
<1>3. Refs(match) = {} /\ Refs(action) = {} BY DEF Refs
<1>4. \A m \in Refs(entry) : m = n \/ m = MatchOf(n) \/ m = ActionOf(n)
  <2>1. entry.refs = refs OBVIOUS
  <2>2. Refs(entry) = {refs[j] : j \in 1..Len(refs)} BY <2>1 DEF Refs
  <2>3. QED BY <2>2
<1> HIDE DEF match, action, entry
<1>5. Len(s) = 3 /\ s[1] = match /\ s[2] = action /\ s[3] = entry BY <1>1
<1> HIDE DEF s
<1>6. Provided(s, 1)' /\ Provided(s, 2)' BY <1>3, <1>5 DEF Provided, Refs
<1>7. Provided(s, 3)'
  <2>1. SUFFICES ASSUME NEW m \in Refs(s[3])
                 PROVE  Available(m)' \/ \E i \in 1..(3 - 1) : s[i].name = m
    BY DEF Provided, Refs
  <2>2. 1 \in 1..(3 - 1) /\ 2 \in 1..(3 - 1) OBVIOUS
  <2>3. QED BY <1>2, <1>4, <1>5, <2>1, <2>2
<1>8. QED BY <1>5, <1>6, <1>7 DEF s

\* Every step of the core.
LEMMA CoreNullFree ==
    ASSUME Shape, NullFree, NEW Labels, CoreLabels \subseteq Labels, pc \in [Threads -> Labels],
           NEW t \in Threads, CoreStep(t)
    PROVE  NullFree'
<1> USE DEF p4Vars, mapVars, callVars, Goto
<1>0. /\ tables \subseteq Lookups /\ ThreadCovers(t) /\ ~crashed
      /\ todo \in [Threads -> Seq(GoodResources)]
      /\ stage \in [Threads -> BOOLEAN] /\ pending \in [Threads -> Pending \cup {NULL}]
  BY DEF NullFree, TablesAvailable, Shape, GoodTodo, CoreTypeOK
<1>1. CASE HandleObject(t) BY <1>1, HandleNullFree
<1>2. ASSUME ObjectsKept, todo'[t] = todo[t] PROVE \A i \in 1..Len(todo'[t]) : Provided(todo[t], i)'
  <2>1. SUFFICES ASSUME NEW i \in 1..Len(todo[t]) PROVE Provided(todo[t], i)'
    BY <1>2
  <2>2. Refs(todo[t][i]) \subseteq Names BY <1>0, RefsAreNames
  <2>3. Provided(todo[t], i) BY <1>0 DEF ThreadCovers
  <2>4. QED BY <1>2, <2>2, <2>3, AvailableKept DEF Provided, Refs
<1>3. CASE RejectObject(t)
  <2>1. /\ todo' = [todo EXCEPT ![t] = <<>>] /\ pc' = [pc EXCEPT ![t] = "idle"]
        /\ UNCHANGED <<heap, objectsMap, tables, stage, crashed>>
    BY <1>3 DEF RejectObject
  <2>2. todo'[t] = <<>> /\ pc'[t] = "idle" BY <1>0, <2>1
  <2>3. Len(todo'[t]) = 0 BY <2>2
  <2>4. ThreadCovers(t)' BY <2>2, <2>3 DEF ThreadCovers
  <2>5. \A u \in Threads : u # t => todo'[u] = todo[u] /\ stage'[u] = stage[u] /\ pc'[u] = pc[u]
    BY <1>0, <2>1
  <2>6. QED BY <1>0, <2>1, <2>4, <2>5, PlainNullFree
<1>4. CASE HandleDone(t)
  <2>1. /\ pc[t] = "handle" /\ todo[t] = <<>> /\ UNCHANGED <<heap, objectsMap, tables, todo, stage, crashed>>
        /\ pc' = [pc EXCEPT ![t] = IF stage[t] THEN "bindAll" ELSE IF pending[t] # NULL THEN "addObj" ELSE "idle"]
    BY <1>4 DEF HandleDone
  <2>2. pc'[t] = IF stage[t] THEN "bindAll" ELSE IF pending[t] # NULL THEN "addObj" ELSE "idle"
    BY <2>1
  <2>3. stage[t] => AllFound
    <3>1. Len(todo[t]) = 0 BY <2>1
    <3>2. QED BY <1>0, <2>1, <3>1 DEF ThreadCovers, Covered, AllFound
  <2>4. AllFound => AllFound' BY <2>1 DEF AllFound, Found
  <2>5. ASSUME ObjectsKept PROVE ThreadCovers(t)'
    BY <1>2, <2>1, <2>2, <2>3, <2>4, <2>5 DEF ThreadCovers
  <2>6. \A u \in Threads : u # t => todo'[u] = todo[u] /\ stage'[u] = stage[u] /\ pc'[u] = pc[u]
    BY <2>1
  <2>7. QED BY <1>0, <2>1, <2>5, <2>6, PlainNullFree
<1>5. CASE BindNext(t)
  <2>1. PICK n \in Ahead(t) : crashed' = (objectsMap[n] = NULL) /\ pc' = [pc EXCEPT ![t] = "bind"]
    BY <1>5 DEF BindNext
  <2>2. pc[t] = "bindAll" /\ UNCHANGED <<heap, objectsMap, tables, todo, stage>>
    BY <1>5 DEF BindNext
  <2>3. AllFound /\ stage[t] BY <1>0, <2>2 DEF ThreadCovers
  <2>4. n \in Names BY DEF Ahead
  <2>5. ~crashed' BY <2>1, <2>3, <2>4 DEF NullFree, NullsLookedUp, AllFound, Found
  <2>6. pc'[t] = "bind" /\ \A u \in Threads : u # t => pc'[u] = pc[u] BY <2>1
  <2>7. AllFound' BY <2>2, <2>3 DEF AllFound, Found
  <2>8. ASSUME ObjectsKept PROVE ThreadCovers(t)'
    BY <1>2, <2>2, <2>6, <2>7, <2>8 DEF ThreadCovers
  <2>9. QED BY <1>0, <2>2, <2>5, <2>6, <2>8, PlainNullFree
<1>6. CASE BindAllDone(t)
  <2>1. /\ pc' = [pc EXCEPT ![t] = "idle"]
        /\ UNCHANGED <<heap, objectsMap, tables, todo, stage, crashed>>
    BY <1>6 DEF BindAllDone
  <2>2. pc'[t] = "idle" /\ \A u \in Threads : u # t => pc'[u] = pc[u] BY <2>1
  <2>3. ASSUME ObjectsKept PROVE ThreadCovers(t)'
    BY <1>2, <2>1, <2>2, <2>3 DEF ThreadCovers
  <2>4. QED BY <1>0, <2>1, <2>2, <2>3, PlainNullFree
<1>7. CASE AfiAddObjEntry(t)
  <2> DEFINE e == pending[t]
             cap == Found(e.table) /\ heap[objectsMap[e.table]].type = "afi-cap"
  <2>1. pc[t] = "addObj" /\ e \in Pending /\ ~stage[t]
    BY <1>0, <1>7 DEF AfiAddObjEntry, Shape, CoreTypeOK, ThreadCovers
  <2>2. e.table \in Names /\ e.key \in Nat BY <2>1 DEF Pending
  <2>3. objectsMap' = objectsMap \/ \E n \in Names : Available(n) /\ GetAfiObject(n)
    BY <1>0, <1>7, <2>2 DEF AfiAddObjEntry, Available
  <2>4. \/ UNCHANGED todo /\ pc' = [pc EXCEPT ![t] = "idle"]
        \/ /\ cap /\ pc' = [pc EXCEPT ![t] = "handle"]
           /\ todo' = [todo EXCEPT ![t] = CapChildren(e.table, e.key)]
    BY <1>7 DEF AfiAddObjEntry
  <2>5. UNCHANGED <<heap, tables, stage, crashed>> BY <1>7 DEF AfiAddObjEntry
  <2>6. \A u \in Threads : u # t => todo'[u] = todo[u] /\ stage'[u] = stage[u] /\ pc'[u] = pc[u]
    BY <1>0, <2>4, <2>5
  <2>7. ASSUME ObjectsKept PROVE ThreadCovers(t)'
    <3>1. CASE UNCHANGED todo /\ pc' = [pc EXCEPT ![t] = "idle"]
      BY <1>2, <2>7, <3>1 DEF ThreadCovers
    <3>2. CASE /\ cap /\ pc' = [pc EXCEPT ![t] = "handle"]
               /\ todo' = [todo EXCEPT ![t] = CapChildren(e.table, e.key)]
      <4>1. PICK n \in Names, k \in Nat : n = e.table /\ k = e.key BY <2>2
      <4>2. todo'[t] = CapChildren(n, k) /\ pc'[t] = "handle" BY <1>0, <3>2, <4>1
      <4>3. Available(n)' BY <2>7, <3>2, <4>1, AvailableKept DEF Available
      <4>4. \A i \in 1..Len(CapChildren(n, k)) : Provided(CapChildren(n, k), i)'
        BY <4>3, ChildrenProvided
      <4>5. QED BY <2>1, <2>5, <4>2, <4>4 DEF ThreadCovers
    <3>3. QED BY <2>4, <3>1, <3>2
  <2>8. QED BY <1>0, <2>3, <2>5, <2>6, <2>7, PlainNullFree
<1>8. QED BY <1>1, <1>3, <1>4, <1>5, <1>6, <1>7 DEF CoreStep

-----------------------------------------------------------------------------
\* A step of the core leaves the other threads and the objects alone, moves
\* its own thread between labels of the core, and keeps every name's object.
LEMMA CoreFrame ==
    ASSUME Shape, NEW Labels, pc \in [Threads -> Labels], NEW t \in Threads, Call(t) \/ CoreStep(t)
    PROVE  /\ ~crashed /\ pc[t] \in Outside /\ pc'[t] \in CoreLabels
           /\ \A u \in Threads : u # t => /\ pc'[u] = pc[u] /\ obj'[u] = obj[u] /\ todo'[u] = todo[u]
                                          /\ stage'[u] = stage[u] /\ cursor'[u] = cursor[u]
           /\ Len(heap) \in Nat /\ Len(heap') \in Nat /\ Len(heap) <= Len(heap')
           /\ \A i \in 1..Len(heap) : heap'[i] = heap[i]
           /\ ObjectsKept
<1> DEFINE Threads1 == /\ ~crashed /\ pc[t] \in Outside /\ pc'[t] \in CoreLabels
                       /\ \A u \in Threads : u # t =>
                            /\ pc'[u] = pc[u] /\ obj'[u] = obj[u] /\ todo'[u] = todo[u]
                            /\ stage'[u] = stage[u] /\ cursor'[u] = cursor[u]
           Objects1 == /\ Len(heap) <= Len(heap') /\ Len(heap') \in Nat
                       /\ \A i \in 1..Len(heap) : heap'[i] = heap[i]
                       /\ ObjectsKept
<1>0. /\ obj \in [Threads -> 0..Len(heap)] /\ todo \in [Threads -> Seq(GoodResources)]
      /\ stage \in [Threads -> BOOLEAN] /\ cursor \in [Threads -> Nat]
      /\ Len(heap) \in Nat /\ pending \in [Threads -> Pending \cup {NULL}]
  BY DEF Shape, CoreTypeOK, GoodTodo, GoodHeap
<1> USE DEF p4Vars, mapVars, callVars, Goto
<1>1. UNCHANGED <<heap, objectsMap>> => Objects1
  BY <1>0 DEF ObjectsKept, Found
<1>2. CASE Call(t)
  <2>1. ASSUME NEW rs, NEW pipeline, NEW then, Accept(t, rs, pipeline, then)
        PROVE  Threads1 /\ UNCHANGED <<heap, objectsMap>>
    BY <1>0, <2>1 DEF Accept, CoreLabels, Outside
  <2>2. ASSUME ServeAtOnce(t) PROVE Threads1 /\ UNCHANGED <<heap, objectsMap>>
    BY <2>2 DEF ServeAtOnce, CoreLabels, Outside
  <2>3. ServeAtOnce(t) \/ \E rs, pipeline, then : Accept(t, rs, pipeline, then)
    BY <1>2, Zenon DEF Call, SetForwardingPipelineConfig, UnparsedConfig, Write, AddTableEntry, AddTable,
                       ShowAfiObjects
  <2>4. Threads1 /\ UNCHANGED <<heap, objectsMap>> BY <2>1, <2>2, <2>3
  <2>5. QED BY <1>0, <1>1, <2>4
<1>3. CASE HandleObject(t)
  <2>1. Threads1 BY <1>0, <1>3 DEF HandleObject, CoreLabels, Outside
  <2>2. Objects1
    <3>1. \A m \in Names : m # Head(todo[t]).name => objectsMap'[m] = objectsMap[m]
      BY <1>3, HandleMap
    <3>2. objectsMap'[Head(todo[t]).name] \notin {NULL, ABSENT} BY <1>3, HandleMap
    <3>3. ObjectsKept BY <3>1, <3>2 DEF ObjectsKept, Found
    <3>4. Len(heap') = Len(heap) + 1 /\ \A i \in 1..Len(heap) : heap'[i] = heap[i] BY <1>3, HandleMap
    <3>5. QED BY <1>0, <3>3, <3>4
  <2>3. QED BY <1>0, <2>1, <2>2
<1>4. CASE RejectObject(t)
  BY <1>0, <1>1, <1>4 DEF RejectObject, CoreLabels, Outside
<1>5. CASE HandleDone(t)
  BY <1>0, <1>1, <1>5 DEF HandleDone, CoreLabels, Outside
<1>6. CASE BindNext(t)
  BY <1>0, <1>1, <1>6 DEF BindNext, CoreLabels, Outside
<1>7. CASE BindAllDone(t)
  BY <1>0, <1>1, <1>7 DEF BindAllDone, CoreLabels, Outside
<1>8. CASE AfiAddObjEntry(t)
  <2>1. Threads1 BY <1>0, <1>8 DEF AfiAddObjEntry, CoreLabels, Outside
  <2>2. pending[t] \in Pending BY <1>0, <1>8 DEF AfiAddObjEntry, Shape, CoreTypeOK
  <2>3. pending[t].table \in Names BY <2>2 DEF Pending
  <2>4. objectsMap' = objectsMap \/ GetAfiObject(pending[t].table)
    BY <1>8 DEF AfiAddObjEntry
  <2>5. ObjectsKept BY <2>3, <2>4, LookUpMap DEF ObjectsKept, Found
  <2>6. UNCHANGED heap BY <1>8 DEF AfiAddObjEntry
  <2>7. QED BY <1>0, <2>1, <2>5, <2>6
<1>9. QED BY <1>2, <1>3, <1>4, <1>5, <1>6, <1>7, <1>8 DEF CoreStep

\* Every step of the core but HandleObject leaves the heap alone, and the
\* objects that names have.
LEMMA PlainMap ==
    ASSUME Shape, NEW t \in Threads, Call(t) \/ CoreStep(t), ~HandleObject(t)
    PROVE  /\ heap' = heap
           /\ \A n \in Names : objectsMap'[n] \notin {NULL, ABSENT} => objectsMap'[n] = objectsMap[n]
<1> USE DEF mapVars
<1>1. ASSUME Call(t) PROVE UNCHANGED <<heap, objectsMap>>
  <2>1. ServeAtOnce(t) \/ \E rs, pipeline, then : Accept(t, rs, pipeline, then)
    BY <1>1, Zenon DEF Call, SetForwardingPipelineConfig, UnparsedConfig, Write, AddTableEntry, AddTable,
                       ShowAfiObjects
  <2>2. QED BY <2>1 DEF ServeAtOnce, Accept
<1>2. CASE RejectObject(t) \/ HandleDone(t) \/ BindNext(t) \/ BindAllDone(t)
  BY <1>2 DEF RejectObject, HandleDone, BindNext, BindAllDone
<1>3. CASE AfiAddObjEntry(t)
  <2>1. pending[t] \in Pending BY <1>3 DEF AfiAddObjEntry, Shape, CoreTypeOK
  <2>2. pending[t].table \in Names BY <2>1 DEF Pending
  <2>3. objectsMap' = objectsMap \/ GetAfiObject(pending[t].table)
    BY <1>3 DEF AfiAddObjEntry
  <2>4. heap' = heap BY <1>3 DEF AfiAddObjEntry
  <2>5. QED BY <2>2, <2>3, <2>4, LookUpMap
<1>4. QED BY <1>1, <1>2, <1>3 DEF CoreStep

\* The device has a creator for every object of every configuration.
CreatableConfigs == \A c \in Configs : Creatable(c.objects)

\* A push is never ended by an object of an unknown type.
Staged(t) ==
    /\ stage[t] => Creatable(todo[t]) /\ pc[t] # "addObj"
    /\ pc[t] = "bindAll" => stage[t]

\* Every step of the core.
LEMMA CoreStaged ==
    ASSUME CreatableConfigs, Shape, NEW Labels, pc \in [Threads -> Labels], NEW t \in Threads,
           Call(t) \/ CoreStep(t), \A u \in Threads : Staged(u)
    PROVE  \A u \in Threads : Staged(u)'
<1>0. /\ todo \in [Threads -> Seq(GoodResources)] /\ stage \in [Threads -> BOOLEAN] /\ Staged(t)
  BY DEF Shape, CoreTypeOK, GoodTodo
<1>1. ASSUME NEW u \in Threads, u # t PROVE Staged(u)'
  <2>1. todo'[u] = todo[u] /\ stage'[u] = stage[u] /\ pc'[u] = pc[u] BY <1>1, CoreFrame
  <2>2. QED BY <2>1 DEF Staged, Creatable
<1> USE DEF mapVars, p4Vars, callVars, Goto
<1>2. CASE Call(t)
  <2>1. ASSUME NEW rs, NEW pipeline, NEW then, Accept(t, rs, pipeline, then),
               pipeline => Creatable(rs)
        PROVE  Staged(t)'
    <3>1. todo'[t] = rs /\ stage'[t] = pipeline /\ pc'[t] = "handle" BY <1>0, <2>1 DEF Accept
    <3>2. QED BY <2>1, <3>1 DEF Staged, Creatable
  <2>2. CASE ServeAtOnce(t)
    <3>1. UNCHANGED <<pc, todo, stage>> BY <2>2 DEF ServeAtOnce
    <3>2. Staged(t)' BY <1>0, <3>1 DEF Staged, Creatable
    <3>3. QED BY <1>1, <3>2
  <2>3. ASSUME NEW c \in Configs, SetForwardingPipelineConfig(t, c) PROVE Staged(t)'
    BY <2>1, <2>3 DEF SetForwardingPipelineConfig, CreatableConfigs
  <2>4. ASSUME NEW w \in Writes, Write(t, w) PROVE Staged(t)'
    BY <2>1, <2>4 DEF Write
  <2>5. ASSUME NEW w \in Writes, NEW i \in 1..Len(w.lpms), AddTableEntry(t, w.lpms[i])
        PROVE  Staged(t)'
    BY <2>1, <2>5 DEF AddTableEntry
  <2>6. ASSUME NEW n \in CliTables, AddTable(t, n) PROVE Staged(t)'
    BY <2>1, <2>6 DEF AddTable
  <2>7. QED BY <1>1, <1>2, <2>2, <2>3, <2>4, <2>5, <2>6 DEF Call, UnparsedConfig, ShowAfiObjects
<1>3. CASE HandleObject(t)
  <2>1. /\ Len(todo[t]) \in Nat /\ Len(todo'[t]) = Len(todo[t]) - 1
        /\ \A i \in 1..Len(todo'[t]) : todo'[t][i] = todo[t][i + 1]
    BY <1>3, HandleMap
  <2>2. Creatable(todo[t]) => Creatable(todo[t])' BY <2>1 DEF Creatable
  <2>3. pc'[t] \in {"handle", "bind"} /\ stage' = stage
    <3>1. CASE stage[t] BY <1>3, <3>1 DEF HandleObject
    <3>2. CASE ~stage[t] BY <1>3, <3>2 DEF HandleObject
    <3>3. QED BY <3>1, <3>2
  <2>4. Staged(t)' BY <1>0, <2>2, <2>3 DEF Staged
  <2>5. QED BY <1>1, <2>4
<1>4. CASE RejectObject(t)
  <2>1. todo'[t] = <<>> /\ pc'[t] = "idle" /\ stage' = stage BY <1>0, <1>4 DEF RejectObject
  <2>2. Len(todo'[t]) = 0 BY <2>1
  <2>3. Staged(t)' BY <2>1, <2>2 DEF Staged, Creatable
  <2>4. QED BY <1>1, <2>3
<1>5. CASE HandleDone(t)
  <2>1. /\ UNCHANGED <<todo, stage>>
        /\ pc'[t] = IF stage[t] THEN "bindAll" ELSE IF pending[t] # NULL THEN "addObj" ELSE "idle"
    BY <1>5 DEF HandleDone
  <2>2. Staged(t)' BY <1>0, <2>1 DEF Staged, Creatable
  <2>3. QED BY <1>1, <2>2
<1>6. CASE BindNext(t) \/ BindAllDone(t)
  <2>1. UNCHANGED <<todo, stage>> /\ pc'[t] \in {"bind", "idle"}
    BY <1>6 DEF BindNext, BindAllDone
  <2>2. Staged(t)' BY <1>0, <2>1 DEF Staged, Creatable
  <2>3. QED BY <1>1, <2>2
<1>7. CASE AfiAddObjEntry(t)
  <2>1. ~stage[t] BY <1>0, <1>7 DEF AfiAddObjEntry, Staged
  <2>2. stage' = stage /\ pc'[t] \in {"handle", "idle"} BY <1>7 DEF AfiAddObjEntry
  <2>3. Staged(t)' BY <2>1, <2>2 DEF Staged
  <2>4. QED BY <1>1, <2>3
<1>8. QED BY <1>2, <1>3, <1>4, <1>5, <1>6, <1>7 DEF CoreStep

\* The thread has still to bind the object that name n has.
WillBind(t, n) ==
    \/ stage[t] /\ pc[t] = "handle"
    \/ stage[t] /\ pc[t] \notin {"idle", "handle"} /\ n > cursor[t]
    \/ pc[t] = "bind" /\ obj[t] = objectsMap[n]

\* A step of the core binds no object: what its thread was to bind it is still
\* to bind, and so is what it inserts.
LEMMA CoreWillBind ==
    ASSUME Shape, NEW Labels, pc \in [Threads -> Labels], NEW t \in Threads, Staged(t),
           Call(t) \/ CoreStep(t), ~crashed', NEW n \in Names, objectsMap'[n] \notin {NULL, ABSENT}
    PROVE  \/ WillBind(t, n)'
           \/ objectsMap'[n] = objectsMap[n] /\ (WillBind(t, n) => WillBind(t, n)')
<1>0. /\ obj \in [Threads -> 0..Len(heap)] /\ stage \in [Threads -> BOOLEAN]
      /\ cursor \in [Threads -> Nat] /\ n \in Nat \ {0}
  BY NamesAssumption DEF Shape, CoreTypeOK
<1> USE DEF mapVars, p4Vars, callVars, Goto
<1>1. CASE HandleObject(t)
  <2> DEFINE m == Head(todo[t]).name
  <2>1. objectsMap'[m] = Len(heap) + 1 /\ \A k \in Names : k # m => objectsMap'[k] = objectsMap[k]
    BY <1>1, HandleMap
  <2>2. \/ stage[t] /\ pc[t] = "handle" /\ UNCHANGED <<pc, stage>>
        \/ obj' = [obj EXCEPT ![t] = Len(heap) + 1] /\ pc' = [pc EXCEPT ![t] = "bind"] /\ ~stage[t]
    <3>1. CASE stage[t] BY <1>1, <3>1 DEF HandleObject
    <3>2. CASE ~stage[t] BY <1>1, <3>2 DEF HandleObject
    <3>3. QED BY <3>1, <3>2
  <2>3. CASE n = m
    <3>1. objectsMap'[n] = Len(heap) + 1 BY <2>1, <2>3
    <3>2. WillBind(t, n)'
      <4>1. CASE stage[t] /\ pc[t] = "handle" /\ UNCHANGED <<pc, stage>> BY <4>1 DEF WillBind
      <4>2. CASE obj' = [obj EXCEPT ![t] = Len(heap) + 1] /\ pc' = [pc EXCEPT ![t] = "bind"]
        <5>1. obj'[t] = Len(heap) + 1 /\ pc'[t] = "bind" BY <1>0, <4>2
        <5>2. QED BY <3>1, <5>1 DEF WillBind
      <4>3. QED BY <2>2, <4>1, <4>2
    <3>3. QED BY <3>2
  <2>4. CASE n # m
    <3>1. pc[t] = "handle" BY <1>1 DEF HandleObject
    <3>2. WillBind(t, n) => stage[t] BY <3>1 DEF WillBind
    <3>3. WillBind(t, n) => WillBind(t, n)' BY <2>2, <3>2 DEF WillBind
    <3>4. QED BY <2>1, <2>4, <3>3
  <2>5. QED BY <2>3, <2>4
<1>2. ASSUME ~HandleObject(t) PROVE objectsMap'[n] = objectsMap[n]
  BY <1>2, PlainMap
<1>3. CASE Call(t)
  <2>1. pc[t] = "idle" /\ ~HandleObject(t)
    <3>1. ServeAtOnce(t) \/ \E rs, pipeline, then : Accept(t, rs, pipeline, then)
      BY <1>3, Zenon DEF Call, SetForwardingPipelineConfig, UnparsedConfig, Write, AddTableEntry, AddTable,
                         ShowAfiObjects
    <3>2. QED BY <3>1 DEF ServeAtOnce, Accept, HandleObject
  <2>2. ~WillBind(t, n) BY <2>1 DEF WillBind
  <2>3. QED BY <1>2, <2>1, <2>2
<1>4. CASE RejectObject(t)
  <2>1. /\ pc[t] = "handle" /\ todo[t] # <<>> /\ Head(todo[t]).type \notin Creators
    BY <1>4 DEF RejectObject
  <2>2. todo[t] \in Seq(GoodResources) BY DEF Shape, GoodTodo
  <2>3. 1 \in 1..Len(todo[t]) /\ Head(todo[t]) = todo[t][1] BY <2>1, <2>2
  <2>4. ~stage[t] BY <2>1, <2>3 DEF Staged, Creatable
  <2>5. ~WillBind(t, n) BY <2>1, <2>4 DEF WillBind
  <2>6. ~HandleObject(t) BY <2>1 DEF HandleObject
  <2>7. QED BY <1>2, <2>5, <2>6
<1>5. CASE HandleDone(t)
  <2>1. ~HandleObject(t) /\ pc[t] = "handle" BY <1>5 DEF HandleDone, HandleObject
  <2>2. WillBind(t, n) => stage[t] BY <2>1 DEF WillBind
  <2>3. stage' = stage /\ cursor' = [cursor EXCEPT ![t] = 0] BY <1>5 DEF HandleDone
  <2>4. stage[t] => pc'[t] = "bindAll" BY <1>5 DEF HandleDone
  <2>5. WillBind(t, n) => WillBind(t, n)' BY <1>0, <2>2, <2>3, <2>4 DEF WillBind
  <2>6. QED BY <1>2, <2>1, <2>5
<1>6. CASE BindNext(t)
  <2>1. PICK m \in Ahead(t) :
          /\ \A k \in Ahead(t) : m <= k
          /\ crashed' = (objectsMap[m] = NULL)
          /\ obj' = IF objectsMap[m] = NULL THEN obj ELSE [obj EXCEPT ![t] = objectsMap[m]]
          /\ cursor' = [cursor EXCEPT ![t] = m]
          /\ pc' = [pc EXCEPT ![t] = "bind"]
    BY <1>6 DEF BindNext
  <2>2. pc[t] = "bindAll" /\ stage' = stage /\ ~HandleObject(t)
    BY <1>6 DEF BindNext, HandleObject
  <2>3. m \in Nat BY NamesAssumption DEF Ahead
  <2>4. obj'[t] = objectsMap[m] /\ cursor'[t] = m /\ pc'[t] = "bind" BY <1>0, <2>1
  <2>5. ASSUME WillBind(t, n) PROVE WillBind(t, n)'
    <3>1. stage[t] /\ n > cursor[t] BY <2>2, <2>5 DEF WillBind
    <3>2. objectsMap[n] # ABSENT /\ objectsMap'[n] = objectsMap[n] BY <1>2, <2>2
    <3>3. n \in Ahead(t) BY <3>1, <3>2 DEF Ahead
    <3>4. CASE n = m BY <2>4, <3>2, <3>4 DEF WillBind
    <3>5. CASE n # m
      <4>1. n > m BY <1>0, <2>1, <2>3, <3>3, <3>5
      <4>2. QED BY <2>2, <2>4, <3>1, <4>1 DEF WillBind
    <3>6. QED BY <3>4, <3>5
  <2>6. QED BY <1>2, <2>2, <2>5
<1>7. CASE BindAllDone(t)
  <2>1. pc[t] = "bindAll" /\ Ahead(t) = {} /\ ~HandleObject(t)
    BY <1>7 DEF BindAllDone, HandleObject
  <2>2. objectsMap[n] # ABSENT BY <1>2, <2>1
  <2>3. ~WillBind(t, n) BY <2>1, <2>2 DEF WillBind, Ahead
  <2>4. QED BY <1>2, <2>1, <2>3
<1>8. CASE AfiAddObjEntry(t)
  <2>1. pc[t] = "addObj" /\ ~HandleObject(t) BY <1>8 DEF AfiAddObjEntry, HandleObject
  <2>2. ~WillBind(t, n) BY <2>1 DEF WillBind, Staged
  <2>3. QED BY <1>2, <2>1, <2>2
<1>9. QED BY <1>1, <1>3, <1>4, <1>5, <1>6, <1>7, <1>8 DEF CoreStep
=============================================================================
