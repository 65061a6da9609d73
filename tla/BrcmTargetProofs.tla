--------------------------- MODULE BrcmTargetProofs ---------------------------
(***************************************************************************)
(* Proofs about the Broadcom target: types, null objects, and what the     *)
(* rules that BrcmCapEntry installs have to do with their entries.         *)
(***************************************************************************)
EXTENDS BrcmTarget, AfiDeviceProofs

TypeInv == Shape /\ TypeOK

\* The number of objects a thread has looked up.
FoundBound ==
    ~crashed => \A t \in Threads :
        Len(found[t]) <= IF pc[t] = "bind" THEN Len(heap[obj[t]].refs) ELSE 0

\* The target's own part of TypeOK.
BrcmTypeOK ==
    /\ groups \subseteq Nat
    /\ rules \subseteq [entry : 1..Len(heap), group : Nat, match : Nat, action : Nat]
    /\ routes \subseteq [key : Nat, plen : Nat, port : L3Ports \cup {CpuPort}]
    /\ found \in [Threads -> Seq(1..Len(heap))]

-----------------------------------------------------------------------------
(* Steps and the core.                                                     *)

\* TypeInv, part by part.
LEMMA TypeParts ==
    /\ TypeInv <=> Shape /\ pc \in [Threads -> CoreLabels] /\ BrcmTypeOK /\ FoundBound
    /\ TypeInv' <=> Shape' /\ pc' \in [Threads -> CoreLabels] /\ BrcmTypeOK' /\ FoundBound'
<1>1. CoreLabels = {"idle", "handle", "bindAll", "addObj", "bind"} BY DEF CoreLabels, Outside
<1>2. QED BY <1>1 DEF TypeInv, TypeOK, BrcmTypeOK, FoundBound, Shape

\* Inside bind() the object is on the heap.
LEMMA BoundObject ==
    ASSUME TypeInv, ~crashed, NEW t \in Threads, pc[t] = "bind"
    PROVE  obj[t] \in 1..Len(heap) /\ heap[obj[t]] \in GoodResources
<1>1. obj[t] \in 0..Len(heap) /\ obj[t] # 0 /\ heap \in Seq(GoodResources)
  BY DEF TypeInv, Shape, CoreTypeOK, HasObject, GoodHeap, Outside
<1>2. obj[t] \in 1..Len(heap) BY <1>1
<1>3. QED BY <1>1, <1>2

\* What bind() looks up next.
LEMMA NextRef ==
    ASSUME TypeInv, NEW t \in Threads, Binding(t), ~Complete(t)
    PROVE  LET i == Len(found[t]) + 1
               n == heap[obj[t]].refs[i]
           IN  /\ i \in 1..Len(heap[obj[t]].refs) /\ n \in Names /\ n \in Refs(heap[obj[t]])
               /\ Found(n) => objectsMap[n] \in 1..Len(heap)
<1> DEFINE o == heap[obj[t]]
           i == Len(found[t]) + 1
           n == o.refs[i]
<1>1. ~crashed /\ pc[t] = "bind" /\ Len(found[t]) # Len(o.refs) BY DEF Binding, Complete
<1>2. o.refs \in Seq(Names) BY <1>1, BoundObject, GoodFields
<1>3. found[t] \in Seq(1..Len(heap)) /\ Len(found[t]) <= Len(o.refs)
  BY <1>1, TypeParts DEF BrcmTypeOK, FoundBound
<1>4. i \in 1..Len(o.refs) BY <1>1, <1>2, <1>3
<1>5. n \in Names /\ n \in Refs(o) BY <1>2, <1>4 DEF Refs
<1>6. Found(n) => objectsMap[n] \in 1..Len(heap) BY <1>5, FoundPointer DEF TypeInv
<1>7. QED BY <1>4, <1>5, <1>6

\* What every step inside bind() leaves alone, where it goes to, and which
\* name it looks up.
LEMMA BindFrame ==
    ASSUME TypeInv, NEW t \in Threads, Bind(t)
    PROVE  /\ ~crashed /\ pc[t] = "bind"
           /\ UNCHANGED <<heap, p4Vars, callVars, crashed, calls>>
           /\ \E label \in CoreLabels :
                /\ Goto(t, label) /\ label # "addObj"
                /\ label = "bind" \/ label = IF stage[t] THEN "bindAll" ELSE "handle"
           /\ \/ UNCHANGED objectsMap
              \/ \E n \in Names : n \in Refs(heap[obj[t]]) /\ GetAfiObject(n)
<1> DEFINE Frame == /\ ~crashed /\ pc[t] = "bind"
                    /\ UNCHANGED <<heap, p4Vars, callVars, crashed, calls>>
           Back == IF stage[t] THEN "bindAll" ELSE "handle"
           Goes == \E label \in CoreLabels :
                     /\ Goto(t, label) /\ label # "addObj"
                     /\ label = "bind" \/ label = Back
           Looks == \/ UNCHANGED objectsMap
                    \/ \E n \in Names : n \in Refs(heap[obj[t]]) /\ GetAfiObject(n)
<1>0. pc \in [Threads -> CoreLabels] BY TypeParts
<1>1. BindDone(t) => Goes
  <2>1. Back \in CoreLabels /\ Back # "addObj" BY DEF CoreLabels, Outside
  <2>2. QED BY <2>1 DEF BindDone
<1>2. CASE LookUp(t)
  <2>1. Frame BY <1>2 DEF LookUp, Binding
  <2>2. UNCHANGED pc => Goes
    <3>1. UNCHANGED pc => Goto(t, "bind") BY <1>0, <2>1 DEF Goto
    <3>2. QED BY <3>1 DEF CoreLabels
  <2>3. UNCHANGED pc \/ BindDone(t) BY <1>2 DEF LookUp
  <2>4. Looks
    <3>1. Binding(t) /\ ~Complete(t) /\ GetAfiObject(heap[obj[t]].refs[Len(found[t]) + 1])
      BY <1>2 DEF LookUp
    <3>2. QED BY <3>1, NextRef
  <2>5. QED BY <1>1, <2>1, <2>2, <2>3, <2>4
<1>3. ASSUME NEW type, Bound(t, type) PROVE Frame /\ Goes /\ Looks
  BY <1>1, <1>3 DEF Bound, Binding, mapVars
<1>4. CASE BindPlain(t) \/ BindCap(t) \/ BindCapEntry(t) \/ BindTreeEntry(t)
  <2>1. \E type : Bound(t, type)
    BY <1>4, Zenon DEF BindPlain, BindCap, BindCapEntry, BindTreeEntry
  <2>2. QED BY <1>3, <2>1
<1>5. QED BY <1>2, <1>4 DEF Bind

\* Every step keeps the shape of the core.
LEMMA StepShape ==
    ASSUME TypeInv, [Next]_vars
    PROVE  Shape' /\ pc' \in [Threads -> CoreLabels]
<1>0. Shape /\ pc \in [Threads -> CoreLabels] BY TypeParts
<1>1. ASSUME NEW t \in Threads, Call(t) PROVE Shape' /\ pc' \in [Threads -> CoreLabels]
  BY <1>0, <1>1, CallShape
<1>2. ASSUME NEW t \in Threads, CoreStep(t) PROVE Shape' /\ pc' \in [Threads -> CoreLabels]
  BY <1>0, <1>2, CoreShape
<1>3. ASSUME NEW t \in Threads, Bind(t) PROVE Shape' /\ pc' \in [Threads -> CoreLabels]
  <2>1. PICK label \in CoreLabels : Goto(t, label) /\ label # "addObj"
    BY <1>3, BindFrame
  <2>2. UNCHANGED objectsMap \/ \E n \in Names : GetAfiObject(n) BY <1>3, BindFrame
  <2>3. /\ ~crashed /\ pc[t] \notin Outside
        /\ UNCHANGED <<heap, p4Vars, callVars, crashed, calls>>
    BY <1>3, BindFrame DEF Outside
  <2>4. QED BY <1>0, <2>1, <2>2, <2>3, TargetShape
<1>4. CASE UNCHANGED vars
  BY <1>0, <1>4 DEF vars, coreVars, Shape, CoreTypeOK, GoodHeap, GoodTodo, NamedMap, Found, HasObject
<1>5. QED BY <1>1, <1>2, <1>3, <1>4 DEF Next, Step, Halted

-----------------------------------------------------------------------------
(* Types.                                                                  *)

\* Initially.
LEMMA InitType == Init => TypeInv
<1> SUFFICES ASSUME Init PROVE TypeInv
  OBVIOUS
<1>1. Shape BY CoreInitShape DEF Init
<1>2. pc \in [Threads -> CoreLabels] BY DEF Init, CoreInit, CoreLabels, Outside
<1>3. <<>> \in Seq(1..Len(heap)) /\ Len(<<>>) = 0 OBVIOUS
<1>4. \A t \in Threads : pc[t] = "idle" /\ found[t] = <<>> BY DEF Init, CoreInit
<1>5. BrcmTypeOK BY <1>3 DEF Init, BrcmTypeOK
<1>6. FoundBound BY <1>3, <1>4 DEF FoundBound
<1>7. QED BY <1>1, <1>2, <1>5, <1>6, TypeParts

\* A step inside bind() keeps the target's types.
LEMMA BindType ==
    ASSUME TypeInv, NEW t \in Threads, Bind(t)
    PROVE  BrcmTypeOK' /\ FoundBound'
<1> USE DEF sdkVars
<1>0. /\ BrcmTypeOK /\ FoundBound /\ pc \in [Threads -> CoreLabels]
      /\ ~crashed /\ pc[t] = "bind" /\ heap' = heap /\ obj' = obj
  BY TypeParts, BindFrame DEF callVars
<1>1. obj[t] \in 1..Len(heap) /\ heap[obj[t]] \in GoodResources BY <1>0, BoundObject
<1>2. /\ heap[obj[t]].key \in Nat /\ heap[obj[t]].plen \in Nat
      /\ Len(heap[obj[t]].refs) = Len(RefTypes[heap[obj[t]].type])
  BY <1>1, GoodFields
<1>e. <<>> \in Seq(1..Len(heap)) /\ Len(<<>>) = 0 OBVIOUS
<1>f. found \in [Threads -> Seq(1..Len(heap))] BY <1>0 DEF BrcmTypeOK
\* Leaving bind() with nothing looked up.
<1>3. ASSUME found' = [found EXCEPT ![t] = <<>>], BindDone(t)
      PROVE  found' \in [Threads -> Seq(1..Len(heap'))] /\ FoundBound'
  <2>1. found' \in [Threads -> Seq(1..Len(heap'))] /\ found'[t] = <<>>
    BY <1>0, <1>3, <1>e, <1>f
  <2>2. pc'[t] \in {"bindAll", "handle"} BY <1>0, <1>3 DEF BindDone, Goto
  <2>3. \A u \in Threads : u # t => found'[u] = found[u] /\ pc'[u] = pc[u]
    BY <1>0, <1>3, <1>f DEF BindDone, Goto
  <2>4. Len(found'[t]) <= 0 BY <1>e, <2>1
  <2>5. FoundBound' BY <1>0, <2>2, <2>3, <2>4 DEF FoundBound
  <2>6. QED BY <2>1, <2>5
<1>4. CASE LookUp(t)
  <2> DEFINE i == Len(found[t]) + 1
             n == heap[obj[t]].refs[i]
  <2>1. /\ Binding(t) /\ ~Complete(t) /\ UNCHANGED <<groups, rules, routes>>
        /\ \/ /\ Found(n) /\ heap[objectsMap[n]].type = RefTypes[heap[obj[t]].type][i]
              /\ found' = [found EXCEPT ![t] = Append(found[t], objectsMap[n])] /\ UNCHANGED pc
           \/ found' = [found EXCEPT ![t] = <<>>] /\ BindDone(t)
    BY <1>4 DEF LookUp
  <2>2. ASSUME Found(n), found' = [found EXCEPT ![t] = Append(found[t], objectsMap[n])],
               UNCHANGED pc
        PROVE  found' \in [Threads -> Seq(1..Len(heap'))] /\ FoundBound'
    <3>1. i \in 1..Len(heap[obj[t]].refs) /\ objectsMap[n] \in 1..Len(heap)
      BY <2>1, <2>2, NextRef
    <3>2. PICK p \in 1..Len(heap) : p = objectsMap[n] BY <3>1
    <3>3. found[t] \in Seq(1..Len(heap)) BY <1>f
    <3>4. Append(found[t], p) \in Seq(1..Len(heap)) /\ Len(Append(found[t], p)) = i BY <3>3
    <3>5. found' = [found EXCEPT ![t] = Append(found[t], p)] BY <2>2, <3>2
    <3>6. found' \in [Threads -> Seq(1..Len(heap))] /\ found'[t] = Append(found[t], p)
          /\ \A u \in Threads : u # t => found'[u] = found[u]
      BY <1>f, <3>4, <3>5
    <3>7. Len(found'[t]) <= Len(heap[obj[t]].refs) BY <3>1, <3>4, <3>6
    <3>8. FoundBound' BY <1>0, <2>2, <3>6, <3>7 DEF FoundBound
    <3>9. QED BY <1>0, <3>6, <3>8
  <2>3. found' \in [Threads -> Seq(1..Len(heap'))] /\ FoundBound' BY <1>3, <2>1, <2>2
  <2>4. QED BY <1>0, <2>1, <2>3 DEF BrcmTypeOK
<1>5. ASSUME NEW type, Bound(t, type)
      PROVE  found' \in [Threads -> Seq(1..Len(heap'))] /\ FoundBound'
  BY <1>3, <1>5 DEF Bound
<1>6. CASE BindPlain(t)
  BY <1>0, <1>5, <1>6 DEF BindPlain, BrcmTypeOK
<1>7. CASE BindCap(t)
  BY <1>0, <1>2, <1>5, <1>7 DEF BindCap, BrcmTypeOK
<1>8. CASE BindCapEntry(t)
  <2> DEFINE r == [entry |-> obj[t], group |-> heap[found[t][1]].key,
                   match |-> heap[found[t][2]].key, action |-> heap[found[t][3]].key]
  <2>1. /\ Bound(t, "afi-cap-entry") /\ rules' = rules \cup {r} /\ UNCHANGED <<groups, routes>>
    BY <1>8 DEF BindCapEntry
  <2>2. Len(RefTypes["afi-cap-entry"]) = 3 BY RefCounts
  <2>3. Len(found[t]) = 3 BY <1>2, <2>1, <2>2 DEF Bound, Complete
  <2>4. found[t] \in Seq(1..Len(heap)) BY <1>f
  <2>5. \A k \in 1..3 : found[t][k] \in 1..Len(heap) BY <2>3, <2>4
  <2>6. \A k \in 1..Len(heap) : heap[k] \in GoodResources BY DEF TypeInv, Shape, GoodHeap
  <2>7. \A k \in 1..3 : heap[found[t][k]].key \in Nat BY <2>5, <2>6, GoodFields
  <2>8. r \in [entry : 1..Len(heap), group : Nat, match : Nat, action : Nat] BY <1>1, <2>7
  <2>9. QED BY <1>0, <1>5, <2>1, <2>8 DEF BrcmTypeOK
<1>9. CASE BindTreeEntry(t)
  <2>1. PICK p \in PortsOf(heap[obj[t]].key) :
          routes' = IF p \in L3Ports \cup {CpuPort}
                    THEN routes \cup {[key |-> heap[obj[t]].key, plen |-> heap[obj[t]].plen,
                                       port |-> p]}
                    ELSE routes
    BY <1>9 DEF BindTreeEntry
  <2>2. routes' \subseteq [key : Nat, plen : Nat, port : L3Ports \cup {CpuPort}]
    BY <1>0, <1>2, <2>1 DEF BrcmTypeOK
  <2>3. Bound(t, "afi-tree-entry") /\ UNCHANGED <<groups, rules>> BY <1>9 DEF BindTreeEntry
  <2>4. QED BY <1>0, <1>5, <2>2, <2>3 DEF BrcmTypeOK
<1>10. QED BY <1>4, <1>6, <1>7, <1>8, <1>9, Zenon DEF Bind

\* Every step keeps TypeInv.
LEMMA StepType == TypeInv /\ [Next]_vars => TypeInv'
<1> SUFFICES ASSUME TypeInv, [Next]_vars PROVE TypeInv'
  OBVIOUS
<1>0. BrcmTypeOK /\ FoundBound /\ Shape /\ pc \in [Threads -> CoreLabels] BY TypeParts
<1> USE DEF sdkVars
<1>1. ASSUME NEW t \in Threads, Bind(t) PROVE BrcmTypeOK' /\ FoundBound' BY <1>1, BindType
<1>2. ASSUME NEW t \in Threads, Call(t) \/ CoreStep(t), UNCHANGED brcmVars
      PROVE  BrcmTypeOK' /\ FoundBound'
  <2>1. UNCHANGED <<groups, rules, routes, found>> BY <1>2 DEF brcmVars
  <2>2. /\ ~crashed /\ pc[t] \in Outside
        /\ \A u \in Threads : u # t => pc'[u] = pc[u] /\ obj'[u] = obj[u]
        /\ Len(heap) \in Nat /\ Len(heap') \in Nat /\ Len(heap) <= Len(heap')
        /\ \A k \in 1..Len(heap) : heap'[k] = heap[k]
    BY <1>0, <1>2, CoreFrame
  <2>3. 1..Len(heap) \subseteq 1..Len(heap') BY <2>2
  <2>4. found \in [Threads -> Seq(1..Len(heap'))]
    <3>1. found \in [Threads -> Seq(1..Len(heap))] BY <1>0 DEF BrcmTypeOK
    <3>2. Seq(1..Len(heap)) \subseteq Seq(1..Len(heap')) BY <2>3, SeqMonotonic
    <3>3. QED BY <3>1, <3>2
  <2>5. BrcmTypeOK' BY <1>0, <2>1, <2>3, <2>4 DEF BrcmTypeOK
  <2>6. Len(found[t]) = 0
    <3>1. found[t] \in Seq(1..Len(heap)) BY <1>0 DEF BrcmTypeOK
    <3>2. Len(found[t]) <= 0 BY <1>0, <2>2 DEF FoundBound, Outside
    <3>3. QED BY <3>1, <3>2
  <2>7. ASSUME ~crashed', NEW u \in Threads
        PROVE  Len(found[u]) <= IF pc'[u] = "bind" THEN Len(heap'[obj'[u]].refs) ELSE 0
    <3>1. CASE u = t
      <4>1. ASSUME pc'[t] = "bind" PROVE 0 <= Len(heap'[obj'[t]].refs)
        <5>1. Shape' BY StepShape
        <5>2. obj'[t] \in 0..Len(heap') /\ obj'[t] # 0 /\ heap' \in Seq(GoodResources)
          BY <2>7, <4>1, <5>1 DEF Shape, CoreTypeOK, HasObject, GoodHeap, Outside
        <5>3. obj'[t] \in 1..Len(heap') BY <5>2
        <5>4. heap'[obj'[t]] \in GoodResources BY <5>2, <5>3
        <5>5. heap'[obj'[t]].refs \in Seq(Names) BY <5>4, GoodFields
        <5>6. QED BY <5>5
      <4>2. QED BY <2>6, <3>1, <4>1
    <3>2. CASE u # t
      <4>1. pc'[u] = pc[u] /\ obj'[u] = obj[u] BY <2>2, <3>2
      <4>2. ASSUME pc[u] = "bind" PROVE heap'[obj'[u]] = heap[obj[u]]
        BY <2>2, <4>1, <4>2, BoundObject
      <4>3. QED BY <1>0, <2>2, <4>1, <4>2 DEF FoundBound
    <3>3. QED BY <3>1, <3>2
  <2>8. FoundBound' BY <2>1, <2>7 DEF FoundBound
  <2>9. QED BY <2>5, <2>8
<1>3. ASSUME UNCHANGED vars PROVE BrcmTypeOK' /\ FoundBound'
  BY <1>0, <1>3 DEF vars, coreVars, brcmVars, BrcmTypeOK, FoundBound
<1>4. BrcmTypeOK' /\ FoundBound' BY <1>1, <1>2, <1>3 DEF Next, Step, Halted
<1>5. QED BY <1>4, StepShape, TypeParts

LEMMA TypeInvariant == Spec => []TypeInv
BY InitType, StepType, PTL DEF Spec

\* Whatever the configurations and however calls interleave, a rule belongs to
\* an object that exists, a thread holds only objects that exist, no more than
\* its bind() looks up and none outside it, and a route leaves through the CPU
\* or a port that has an L3 interface.
THEOREM TypeCorrect == Spec => []TypeOK
<1>1. TypeInv => TypeOK BY DEF TypeInv
<1>2. QED BY <1>1, TypeInvariant, PTL

-----------------------------------------------------------------------------
(* Null objects.                                                           *)

\* Every step keeps the map free of unexpected null objects.
LEMMA StepNullFree ==
    ASSUME CompleteConfigs, ~ShowAllowed, TypeInv, NullFree, [Next]_vars
    PROVE  NullFree'
<1>0. Shape /\ pc \in [Threads -> CoreLabels] BY TypeParts
<1>1. ASSUME NEW t \in Threads, Call(t) PROVE NullFree'
  BY <1>0, <1>1, CallNullFree
<1>2. ASSUME NEW t \in Threads, CoreStep(t) PROVE NullFree'
  BY <1>0, <1>2, CoreNullFree
<1>3. ASSUME NEW t \in Threads, Bind(t) PROVE NullFree'
  <2>1. PICK label \in CoreLabels :
          /\ Goto(t, label)
          /\ label \notin Outside \/ label = IF stage[t] THEN "bindAll" ELSE "handle"
    BY <1>3, BindFrame DEF Outside
  <2>2. /\ ~crashed /\ pc[t] = "bind" /\ pc[t] \notin Outside
        /\ UNCHANGED <<heap, p4Vars, callVars, crashed>>
    BY <1>3, BindFrame DEF Outside
  <2>3. obj[t] \in 1..Len(heap) BY <2>2, BoundObject
  <2>4. \A n \in Refs(heap[obj[t]]) : Available(n) BY <2>3 DEF NullFree, HeapAvailable
  <2>5. UNCHANGED objectsMap \/ \E n \in Names : Available(n) /\ GetAfiObject(n)
    BY <1>3, <2>4, BindFrame
  <2>6. QED BY <1>0, <2>1, <2>2, <2>5, TargetNullFree
<1>4. CASE UNCHANGED vars
  <2>1. UNCHANGED <<heap, objectsMap, tables, pc, todo, stage, crashed>>
    BY <1>4 DEF vars, coreVars
  <2>2. QED BY <2>1 DEF NullFree, TablesAvailable, NullsLookedUp, HeapAvailable, Refs, Available,
                       Found, ThreadCovers, Provided, AllFound, Covered, Creatable
<1>5. QED BY <1>1, <1>2, <1>3, <1>4 DEF Next, Step, Halted

LEMMA NullInvariant ==
    ASSUME CompleteConfigs, ~ShowAllowed
    PROVE  Spec => []NullFree
<1>1. Init => NullFree BY CoreInitNullFree DEF Init
<1>2. TypeInv /\ NullFree /\ [Next]_vars => NullFree' BY StepNullFree
<1>3. QED BY <1>1, <1>2, TypeInvariant, PTL DEF Spec

\* When every configuration has a creatable object for each name that is
\* looked up, and nobody lists the objects, bindAfiObjects meets no null
\* object: an entry written before the pipeline is pushed leaves one only
\* under a name that the push gives an object to.
THEOREM NullSafe ==
    ASSUME CompleteConfigs, ~ShowAllowed
    PROVE  Spec => []NoNullDeref
<1>1. NullFree => NoNullDeref BY DEF NullFree, NoNullDeref
<1>2. QED BY <1>1, NullInvariant, PTL
-----------------------------------------------------------------------------
(* The objects of an entry.  They share the map with everything else, so   *)
(* what a rule is made of depends on who uses their names.                 *)

MatchRes(n, k) == [type |-> "afi-cap-entry-match", name |-> MatchOf(n), refs |-> <<>>,
                   key |-> k, plen |-> 0]
ActionRes(n, k) == [type |-> "afi-cap-entry-action", name |-> ActionOf(n), refs |-> <<>>,
                    key |-> k, plen |-> 0]
EntryRes(n, k) == [type |-> "afi-cap-entry", name |-> EntryOf(n),
                   refs |-> <<n, MatchOf(n), ActionOf(n)>>, key |-> k, plen |-> 0]

\* Where an object comes from: a configuration, addEntry or the CLI, or
\* afiAddObjEntry.
Given(r) ==
    \/ \E c \in Configs : \E i \in 1..Len(c.objects) : r = c.objects[i]
    \/ r.type # "afi-cap" /\ r.name \in CliTables \cup {EntryName}
Plain(r) == r.type \notin EntryTypes /\ Given(r)
Made(r, n) ==
    \/ r.type = "afi-cap-entry-match" /\ r.name = MatchOf(n)
    \/ r.type = "afi-cap-entry-action" /\ r.name = ActionOf(n)
    \/ r.type = "afi-cap-entry" /\ r.name = EntryOf(n) /\ r.refs = <<n, MatchOf(n), ActionOf(n)>>
Origin(r) == Plain(r) \/ \E n \in Names : IsCap(n) /\ Made(r, n)
HeapOrigin == \A o \in 1..Len(heap) : Origin(heap[o])

\* The match and action sets in the map are those of the entry in the map.
Has(n, k) == Found(n) /\ heap[objectsMap[n]].key = k
Paired(n) ==
    Found(EntryOf(n)) => LET k == heap[objectsMap[EntryOf(n)]].key
                         IN  Has(MatchOf(n), k) /\ Has(ActionOf(n), k)
AllPaired == \A n \in Names : IsCap(n) => Paired(n)
CapFound(n) == Found(n) /\ heap[objectsMap[n]].type = "afi-cap"
NoEntryBound(t) == pc[t] = "bind" => heap[obj[t]].type # "afi-cap-entry"

\* Thread t has some of the objects of an entry of table n still to handle.
Midway(t, n, k) ==
    /\ IsCap(n) /\ CapFound(n) /\ ~stage[t] /\ pc[t] \in {"handle", "bind"}
    /\ \A m \in Names : IsCap(m) /\ m # n => Paired(m)
    /\ \/ todo[t] = <<MatchRes(n, k), ActionRes(n, k), EntryRes(n, k)>> /\ pc[t] = "handle" /\ Paired(n)
       \/ todo[t] = <<ActionRes(n, k), EntryRes(n, k)>> /\ NoEntryBound(t) /\ Has(MatchOf(n), k)
       \/ todo[t] = <<EntryRes(n, k)>> /\ NoEntryBound(t) /\ Has(MatchOf(n), k) /\ Has(ActionOf(n), k)
TodoInv(t) ==
    \/ (\A i \in 1..Len(todo[t]) : Plain(todo[t][i])) /\ AllPaired
    \/ \E n \in Names, k \in Nat : Midway(t, n, k)

\* The object that is bound is the one its name has.
BindsLatest(t) ==
    pc[t] = "bind" => /\ objectsMap[heap[obj[t]].name] = obj[t]
                      /\ stage[t] => cursor[t] = heap[obj[t]].name

\* What the bind() of an entry has looked up belongs to the entry.
LookedUp(t) ==
    pc[t] = "bind" /\ heap[obj[t]].type = "afi-cap-entry" =>
        \A i \in 2..Len(found[t]) : heap[found[t][i]].key = heap[obj[t]].key

\* An entry without a rule is being bound, and its lookups succeed.
Installed(t) ==
    \A o \in 1..Len(heap) : heap[o].type = "afi-cap-entry" =>
        \/ \E r \in rules : r.entry = o
        \/ pc[t] = "bind" /\ obj[t] = o /\ \E n \in Names : n = heap[o].refs[1] /\ CapFound(n)

\* afiAddObjEntry ends a Write, which is no push.
AddsUnstaged(t) == pc[t] = "addObj" => ~stage[t]

RuleInv(t) ==
    /\ HeapOrigin /\ RulePaired
    /\ ~crashed => TodoInv(t) /\ BindsLatest(t) /\ LookedUp(t) /\ Installed(t) /\ AddsUnstaged(t)

\* A cap in the map has its group, or gets it before anything refers to it.
CapsOwned(t) ==
    \A n \in Names : CapFound(n) => heap[objectsMap[n]].key \in groups \/ WillBind(t, n)
GroupLookedUp(t) ==
    pc[t] = "bind" /\ heap[obj[t]].type = "afi-cap-entry" /\ Len(found[t]) >= 1
        => heap[found[t][1]].key \in groups

\* Caps are bound by pushes only.
CapsPushed(t) ==
    ~stage[t] => /\ \A i \in 1..Len(todo[t]) : todo[t][i].type # "afi-cap"
                 /\ pc[t] = "bind" => heap[obj[t]].type # "afi-cap"

GroupInv(t) ==
    /\ RuleHasGroup
    /\ ~crashed => Staged(t) /\ CapsOwned(t) /\ GroupLookedUp(t) /\ CapsPushed(t)

-----------------------------------------------------------------------------
(* The names of an entry's objects.                                        *)

\* The name of a cap, and those of its entries' objects.
LEMMA CapNames ==
    ASSUME NEW n, IsCap(n)
    PROVE  n \in Names /\ EntryNames(n) \subseteq Names /\ IsOther(n) /\ n \in Nat
<1>0. PICK c \in Configs : \E i \in 1..Len(c.objects) :
        c.objects[i].type = "afi-cap" /\ c.objects[i].name = n
  BY DEF IsCap
<1>1. PICK i \in 1..Len(c.objects) : c.objects[i].type = "afi-cap" /\ c.objects[i].name = n
  BY <1>0
<1>2. c.objects[i] \in GoodResources BY ConfigGood
<1>3. n \in Names /\ {EntryOf(n), ActionOf(n), MatchOf(n)} \subseteq Names BY <1>1, <1>2, GoodFields
<1>4. IsOther(n) BY <1>1 DEF IsOther
<1>5. QED BY <1>3, <1>4, NamesAssumption DEF EntryNames

\* What is not of an entry has another name, and a cap comes from a configuration.
LEMMA PlainNames ==
    ASSUME NEW r, Plain(r)
    PROVE  IsOther(r.name) /\ (r.type = "afi-cap" => IsCap(r.name))
BY DEF Plain, Given, IsOther, IsCap

\* The names of one entry differ from each other and from its table's.
LEMMA NamesDiffer ==
    ASSUME NEW n \in Nat
    PROVE  /\ EntryOf(n) # n /\ ActionOf(n) # n /\ MatchOf(n) # n /\ n < EntryOf(n)
           /\ EntryOf(n) # ActionOf(n) /\ EntryOf(n) # MatchOf(n) /\ ActionOf(n) # MatchOf(n)
BY DEF EntryOf, ActionOf, MatchOf

\* An object under such a name is one of an entry of that table.
LEMMA MadeFor ==
    ASSUME NamesApart, NEW r, Origin(r), NEW n, IsCap(n), r.name \in EntryNames(n)
    PROVE  Made(r, n) /\ ~Plain(r)
<1>1. n \in Names /\ n \in Nat BY CapNames
<1>2. ~Plain(r) BY <1>1, PlainNames DEF NamesApart
<1>3. PICK m \in Names : IsCap(m) /\ Made(r, m) BY <1>2 DEF Origin
<1>4. r.name \in EntryNames(m) BY <1>3 DEF Made, EntryNames
<1>5. m = n BY <1>1, <1>3, <1>4 DEF NamesApart
<1>6. QED BY <1>2, <1>3, <1>5

\* Which of them it is follows from the name.
LEMMA MadeTypes ==
    ASSUME NEW n \in Nat, NEW r, Made(r, n)
    PROVE  /\ r.name = MatchOf(n) => r.type = "afi-cap-entry-match"
           /\ r.name = ActionOf(n) => r.type = "afi-cap-entry-action"
           /\ r.name = EntryOf(n) => r.type = "afi-cap-entry"
           /\ r.type \in EntryTypes
BY NamesDiffer DEF Made, EntryTypes

\* The map is left alone, but for null objects.
MapKept ==
    /\ heap' = heap
    /\ \A n \in Names : /\ Found(n) => objectsMap'[n] = objectsMap[n]
                        /\ objectsMap'[n] \notin {NULL, ABSENT} => objectsMap'[n] = objectsMap[n]

\* Then nothing changes for the entries.
LEMMA KeptPairs ==
    ASSUME MapKept
    PROVE  /\ \A n \in Names : CapFound(n) <=> CapFound(n)'
           /\ \A n \in Names, k \in Nat : Has(n, k) <=> Has(n, k)'
           /\ \A n \in Names : IsCap(n) => (Paired(n) <=> Paired(n)')
           /\ AllPaired <=> AllPaired'
           /\ HeapOrigin <=> HeapOrigin'
<1>1. \A n \in Names : /\ (objectsMap[n] \notin {NULL, ABSENT}) <=> (objectsMap'[n] \notin {NULL, ABSENT})
                       /\ objectsMap[n] \notin {NULL, ABSENT} => objectsMap'[n] = objectsMap[n]
  BY DEF MapKept, Found
<1>2. heap' = heap BY DEF MapKept
<1>3. /\ \A n \in Names : CapFound(n) <=> CapFound(n)'
      /\ \A n \in Names, k \in Nat : Has(n, k) <=> Has(n, k)'
  BY <1>1, <1>2 DEF CapFound, Has, Found
<1>4. ASSUME NEW n \in Names, IsCap(n) PROVE Paired(n) <=> Paired(n)'
  <2>1. EntryOf(n) \in Names /\ ActionOf(n) \in Names /\ MatchOf(n) \in Names
    BY <1>4, CapNames DEF EntryNames
  <2>2. QED BY <1>1, <1>2, <2>1 DEF Paired, Has, Found
<1>5. AllPaired <=> AllPaired' BY <1>4 DEF AllPaired
<1>6. HeapOrigin <=> HeapOrigin' BY <1>2 DEF HeapOrigin, Origin, Plain, Given, Made
<1>7. QED BY <1>3, <1>4, <1>5, <1>6

\* Every step but HandleObject keeps the map so.
LEMMA StepsKeepMap ==
    ASSUME TypeInv, NEW t \in Threads, Call(t) \/ (CoreStep(t) /\ ~HandleObject(t)) \/ Bind(t)
    PROVE  MapKept
<1>0. Shape /\ pc \in [Threads -> CoreLabels] BY TypeParts
<1>1. CASE Bind(t)
  <2>1. heap' = heap /\ (UNCHANGED objectsMap \/ \E n \in Names : GetAfiObject(n))
    BY <1>1, BindFrame
  <2>2. ASSUME NEW n \in Names, GetAfiObject(n) PROVE MapKept
    <3>1. /\ \A m \in Names : Found(m) => objectsMap'[m] = objectsMap[m]
          /\ \A m \in Names : m # n => objectsMap'[m] = objectsMap[m]
          /\ Found(n) => objectsMap' = objectsMap
          /\ ~Found(n) => objectsMap'[n] = NULL
      BY <1>0, <2>2, LookUpMap
    <3>2. QED BY <2>1, <3>1 DEF MapKept
  <2>3. CASE UNCHANGED objectsMap BY <2>1, <2>3 DEF MapKept
  <2>4. QED BY <2>1, <2>2, <2>3
<1>2. CASE Call(t) \/ (CoreStep(t) /\ ~HandleObject(t))
  <2>1. ~HandleObject(t)
    <3>1. ASSUME Call(t), HandleObject(t) PROVE FALSE
      <4>1. ServeAtOnce(t) \/ \E rs, pipeline, then : Accept(t, rs, pipeline, then)
        BY <3>1, Zenon DEF Call, SetForwardingPipelineConfig, UnparsedConfig, Write, AddTableEntry, AddTable,
                           ShowAfiObjects
      <4>2. pc[t] = "idle" BY <4>1 DEF ServeAtOnce, Accept
      <4>3. pc[t] = "handle" BY <3>1 DEF HandleObject
      <4>4. QED BY <4>2, <4>3
    <3>2. QED BY <1>2, <3>1
  <2>2. heap' = heap /\ \A n \in Names : objectsMap'[n] \notin {NULL, ABSENT} => objectsMap'[n] = objectsMap[n]
    BY <1>0, <1>2, <2>1, PlainMap
  <2>3. ObjectsKept BY <1>0, <1>2, CoreFrame
  <2>4. QED BY <2>2, <2>3 DEF MapKept, ObjectsKept
<1>3. QED BY <1>1, <1>2

-----------------------------------------------------------------------------
(* Rules and the entries they belong to, one thread at a time.             *)

\* HandleObject changes what one name has, and nothing else.
LEMMA HandleAt ==
    ASSUME TypeInv, NEW t \in Threads, HandleObject(t), NEW res, res = Head(todo[t])
    PROVE  /\ res \in GoodResources /\ res.name \in Names
           /\ objectsMap'[res.name] = Len(heap) + 1 /\ Found(res.name)'
           /\ Len(heap') = Len(heap) + 1 /\ Len(heap) \in Nat /\ heap'[Len(heap) + 1] = res
           /\ \A i \in 1..Len(heap) : heap'[i] = heap[i]
           /\ \A k : Has(res.name, k)' <=> res.key = k
           /\ \A m \in Names : m # res.name =>
                /\ Found(m)' <=> Found(m)
                /\ Found(m) => heap'[objectsMap'[m]] = heap[objectsMap[m]]
<1>1. Shape /\ Len(heap) \in Nat BY TypeParts DEF Shape, CoreTypeOK
<1>2. /\ res \in GoodResources /\ Len(heap') = Len(heap) + 1 /\ heap'[Len(heap) + 1] = res
      /\ \A i \in 1..Len(heap) : heap'[i] = heap[i]
      /\ objectsMap'[res.name] = Len(heap) + 1 /\ Len(heap) + 1 \notin {NULL, ABSENT}
      /\ \A m \in Names : m # res.name => objectsMap'[m] = objectsMap[m]
  BY <1>1, HandleMap
<1>3. res.name \in Names BY <1>2, GoodFields
<1>4. ASSUME NEW m \in Names, m # res.name
      PROVE  /\ Found(m)' <=> Found(m)
             /\ Found(m) => heap'[objectsMap'[m]] = heap[objectsMap[m]]
  <2>1. objectsMap'[m] = objectsMap[m] BY <1>2, <1>4
  <2>2. Found(m) => objectsMap[m] \in 1..Len(heap) BY <1>1, FoundPointer
  <2>3. QED BY <1>2, <2>1, <2>2 DEF Found
<1>5. Found(res.name)' /\ \A k : Has(res.name, k)' <=> res.key = k BY <1>2 DEF Found, Has
<1>6. QED BY <1>1, <1>2, <1>3, <1>4, <1>5

\* The entries of tables whose names it does not touch stay paired.
LEMMA HandlePaired ==
    ASSUME TypeInv, NEW t \in Threads, HandleObject(t), NEW n \in Names, IsCap(n), Paired(n),
           Head(todo[t]).name \notin EntryNames(n)
    PROVE  Paired(n)'
<1>0. PICK res : res = Head(todo[t]) OBVIOUS
<1>1. \A m \in EntryNames(n) : /\ Found(m)' <=> Found(m)
                               /\ Found(m) => heap'[objectsMap'[m]] = heap[objectsMap[m]]
  BY <1>0, CapNames, HandleAt
<1>2. EntryOf(n) \in EntryNames(n) /\ ActionOf(n) \in EntryNames(n) /\ MatchOf(n) \in EntryNames(n)
  BY DEF EntryNames
<1>3. QED BY <1>1, <1>2 DEF Paired, Has, Found

\* While an entry is bound, its sets are in the map.
LEMMA EntryBound ==
    ASSUME NamesApart, TypeInv, NEW t \in Threads, HeapOrigin, TodoInv(t), BindsLatest(t),
           ~crashed, pc[t] = "bind", heap[obj[t]].type = "afi-cap-entry"
    PROVE  \E n \in Names :
             /\ IsCap(n) /\ heap[obj[t]].refs = <<n, MatchOf(n), ActionOf(n)>>
             /\ heap[obj[t]].name = EntryOf(n)
             /\ {MatchOf(n), ActionOf(n)} \subseteq Names
             /\ Has(MatchOf(n), heap[obj[t]].key) /\ Has(ActionOf(n), heap[obj[t]].key)
             /\ heap[objectsMap[MatchOf(n)]].type = "afi-cap-entry-match"
             /\ heap[objectsMap[ActionOf(n)]].type = "afi-cap-entry-action"
<1>0. PICK e : e = heap[obj[t]] OBVIOUS
<1>1. obj[t] \in 1..Len(heap) /\ e \in GoodResources BY <1>0, BoundObject
<1>2. Origin(e) /\ ~Plain(e) BY <1>0, <1>1 DEF HeapOrigin, Plain, EntryTypes
<1>3. PICK n \in Names : IsCap(n) /\ Made(e, n) BY <1>2 DEF Origin
<1>4. e.name = EntryOf(n) /\ e.refs = <<n, MatchOf(n), ActionOf(n)>>
  BY <1>0, <1>3 DEF Made
<1>5. EntryNames(n) \subseteq Names /\ n \in Nat BY <1>3, CapNames
<1>6. objectsMap[EntryOf(n)] = obj[t] /\ Found(EntryOf(n))
  <2>1. objectsMap[EntryOf(n)] = obj[t] BY <1>0, <1>4 DEF BindsLatest
  <2>2. EntryOf(n) \in Names BY <1>5 DEF EntryNames
  <2>3. QED BY <1>1, <2>1, <2>2, FoundPointer DEF TypeInv
<1>7. Paired(n)
  <2>1. CASE AllPaired BY <1>3, <2>1 DEF AllPaired
  <2>2. ASSUME NEW m \in Names, NEW k \in Nat, Midway(t, m, k) PROVE FALSE
    BY <2>2 DEF Midway, NoEntryBound
  <2>3. QED BY <2>1, <2>2 DEF TodoInv
<1>8. Has(MatchOf(n), e.key) /\ Has(ActionOf(n), e.key) BY <1>0, <1>6, <1>7 DEF Paired
<1>9. ASSUME NEW m \in EntryNames(n), Found(m)
      PROVE  Made(heap[objectsMap[m]], n) /\ heap[objectsMap[m]].name = m
  <2>1. objectsMap[m] \in 1..Len(heap) /\ heap[objectsMap[m]].name = m
    BY <1>5, <1>9, FoundPointer DEF TypeInv
  <2>2. QED BY <1>3, <2>1, MadeFor DEF HeapOrigin
<1>10. heap[objectsMap[MatchOf(n)]].type = "afi-cap-entry-match"
  <2>1. MatchOf(n) \in EntryNames(n) /\ Found(MatchOf(n)) BY <1>8 DEF EntryNames, Has
  <2>2. QED BY <1>5, <1>9, <2>1, MadeTypes
<1>11. heap[objectsMap[ActionOf(n)]].type = "afi-cap-entry-action"
  <2>1. ActionOf(n) \in EntryNames(n) /\ Found(ActionOf(n)) BY <1>8 DEF EntryNames, Has
  <2>2. QED BY <1>5, <1>9, <2>1, MadeTypes
<1>12. {MatchOf(n), ActionOf(n)} \subseteq Names BY <1>5 DEF EntryNames
<1>13. QED BY <1>0, <1>3, <1>4, <1>8, <1>10, <1>11, <1>12

\* What the calls have to handle is plain.
LEMMA CallPlain ==
    ASSUME NamesApart, TypeInv, NEW t \in Threads, Call(t), ~ServeAtOnce(t)
    PROVE  \E rs \in Seq(GoodResources), pipeline \in BOOLEAN : \E then :
             /\ Accept(t, rs, pipeline, then)
             /\ \A i \in 1..Len(rs) : Plain(rs[i]) /\ (pipeline \/ rs[i].type # "afi-cap")
<1> DEFINE Goal == \E rs \in Seq(GoodResources), pipeline \in BOOLEAN : \E then :
             /\ Accept(t, rs, pipeline, then)
             /\ \A i \in 1..Len(rs) : Plain(rs[i]) /\ (pipeline \/ rs[i].type # "afi-cap")
<1>e. \A f \in LpmField : Plain(EntryResource(f)) /\ EntryResource(f).type # "afi-cap"
  BY DEF EntryResource, Plain, Given, EntryTypes
<1>1. ASSUME NEW c \in Configs, SetForwardingPipelineConfig(t, c) PROVE Goal
  <2>1. \A i \in 1..Len(c.objects) : Plain(c.objects[i]) BY DEF NamesApart, Plain, Given
  <2>2. c.objects \in Seq(GoodResources) BY ConfigGood
  <2>3. QED BY <1>1, <2>1, <2>2 DEF SetForwardingPipelineConfig
<1>2. ASSUME NEW w \in Writes, Write(t, w) PROVE Goal
  <2>1. \E then : Accept(t, LpmEntries(w), FALSE, then) BY <1>2, Zenon DEF Write
  <2>2. PICK rs : rs = LpmEntries(w) OBVIOUS
  <2>3. rs \in Seq(GoodResources) BY <2>2, LpmGood
  <2>4. ASSUME NEW i \in 1..Len(rs) PROVE Plain(rs[i]) /\ rs[i].type # "afi-cap"
    <3>1. rs[i] = EntryResource(w.lpms[i]) /\ w.lpms \in Seq(LpmField) BY <2>2, LpmGood
    <3>2. CASE w.table = LpmName
      <4>1. rs = [j \in 1..Len(w.lpms) |-> EntryResource(w.lpms[j])]
        BY <2>2, <3>2 DEF LpmEntries
      <4>2. Len(w.lpms) \in Nat /\ DOMAIN rs = 1..Len(w.lpms) /\ DOMAIN rs = 1..Len(rs) /\ Len(rs) \in Nat
        BY <2>3, <3>1, <4>1
      <4>3. i \in 1..Len(w.lpms) BY <4>2
      <4>4. w.lpms[i] \in LpmField BY <3>1, <4>3
      <4>5. QED BY <1>e, <3>1, <4>4
    <3>3. CASE w.table # LpmName
      <4>1. rs = <<>> BY <2>2, <3>3 DEF LpmEntries
      <4>2. QED BY <4>1
    <3>4. QED BY <3>2, <3>3
  <2>5. QED BY <2>1, <2>2, <2>3, <2>4
<1>3. ASSUME NEW r, r \in GoodResources, Plain(r), r.type # "afi-cap",
             Accept(t, <<r>>, FALSE, NULL)
      PROVE  Goal
  <2>1. PICK rs : rs = <<r>> OBVIOUS
  <2>2. rs \in Seq(GoodResources) /\ \A i \in 1..Len(rs) : rs[i] = r BY <1>3, <2>1
  <2>3. QED BY <1>3, <2>1, <2>2
<1>4. ASSUME NEW w \in Writes, NEW i \in 1..Len(w.lpms), AddTableEntry(t, w.lpms[i]) PROVE Goal
  <2>1. w.lpms[i] \in LpmField BY LpmGood
  <2>2. QED BY <1>3, <1>4, <1>e, <2>1, EntryGood DEF AddTableEntry
<1>5. ASSUME NEW n \in CliTables, AddTable(t, n) PROVE Goal
  <2>1. TreeResource(n) \in GoodResources BY NamesAssumption, TreeGood
  <2>2. Plain(TreeResource(n)) /\ TreeResource(n).type # "afi-cap"
    BY DEF TreeResource, Plain, Given, EntryTypes
  <2>3. QED BY <1>3, <1>5, <2>1, <2>2 DEF AddTable
<1>6. QED BY <1>1, <1>2, <1>4, <1>5 DEF Call, UnparsedConfig, ShowAfiObjects

\* The objects of an entry as a sequence, and what is left of it.
LEMMA ChildrenSeq ==
    ASSUME NEW n, NEW k
    PROVE  /\ CapChildren(n, k) = <<MatchRes(n, k), ActionRes(n, k), EntryRes(n, k)>>
           /\ \A x, y, z : /\ Head(<<x, y, z>>) = x /\ Tail(<<x, y, z>>) = <<y, z>>
                           /\ Head(<<y, z>>) = y /\ Tail(<<y, z>>) = <<z>>
                           /\ Head(<<z>>) = z /\ Tail(<<z>>) = <<>>
           /\ MatchRes(n, k).name = MatchOf(n) /\ MatchRes(n, k).type = "afi-cap-entry-match"
           /\ MatchRes(n, k).key = k
           /\ ActionRes(n, k).name = ActionOf(n) /\ ActionRes(n, k).type = "afi-cap-entry-action"
           /\ ActionRes(n, k).key = k
           /\ EntryRes(n, k).name = EntryOf(n) /\ EntryRes(n, k).type = "afi-cap-entry"
           /\ EntryRes(n, k).key = k /\ EntryRes(n, k).refs = <<n, MatchOf(n), ActionOf(n)>>
<1>1. CapChildren(n, k) = <<MatchRes(n, k), ActionRes(n, k), EntryRes(n, k)>>
  BY DEF CapChildren, MatchRes, ActionRes, EntryRes
<1>2. \A x, y, z : /\ Head(<<x, y, z>>) = x /\ Tail(<<x, y, z>>) = <<y, z>>
                   /\ Head(<<y, z>>) = y /\ Tail(<<y, z>>) = <<z>>
                   /\ Head(<<z>>) = z /\ Tail(<<z>>) = <<>>
  OBVIOUS
<1>3. QED BY <1>1, <1>2 DEF MatchRes, ActionRes, EntryRes

\* Handling a resource keeps TodoInv, and every object's origin.
LEMMA HandleTodo ==
    ASSUME NamesApart, TypeInv, NEW t \in Threads, HandleObject(t), HeapOrigin, TodoInv(t)
    PROVE  TodoInv(t)' /\ HeapOrigin'
<1>0. PICK res : res = Head(todo[t]) OBVIOUS
<1>1. /\ res \in GoodResources /\ res.name \in Names /\ res = todo[t][1]
      /\ todo[t] \in Seq(GoodResources) /\ todo[t] # <<>>
  <2>1. todo[t] \in Seq(GoodResources) /\ todo[t] # <<>> BY DEF TypeInv, Shape, GoodTodo, HandleObject
  <2>2. QED BY <1>0, <2>1, HandleAt
<1>2. /\ pc[t] = "handle" /\ stage' = stage /\ todo'[t] = Tail(todo[t])
      /\ ~stage[t] => obj'[t] = Len(heap) + 1 /\ pc'[t] = "bind"
  <2>1. obj \in [Threads -> 0..Len(heap)] /\ todo \in [Threads -> Seq(GoodResources)] /\ pc \in [Threads -> CoreLabels]
    BY TypeParts DEF Shape, CoreTypeOK, GoodTodo
  <2>2. QED BY <2>1 DEF HandleObject, Goto
<1>3. ASSUME Origin(res) PROVE HeapOrigin'
  <2>1. /\ Len(heap') = Len(heap) + 1 /\ Len(heap) \in Nat /\ heap'[Len(heap) + 1] = res
        /\ \A i \in 1..Len(heap) : heap'[i] = heap[i]
    BY <1>0, HandleAt
  <2>2. ASSUME NEW o \in 1..Len(heap') PROVE Origin(heap'[o])
    <3>1. CASE o = Len(heap) + 1 BY <1>3, <2>1, <3>1
    <3>2. CASE o # Len(heap) + 1
      <4>1. o \in 1..Len(heap) BY <2>1, <3>2
      <4>2. heap'[o] = heap[o] /\ Origin(heap[o]) BY <2>1, <4>1 DEF HeapOrigin
      <4>3. QED BY <4>2
    <3>3. QED BY <3>1, <3>2
  <2>3. QED BY <2>2 DEF HeapOrigin, Origin, Plain, Given, Made
<1>4. CASE (\A i \in 1..Len(todo[t]) : Plain(todo[t][i])) /\ AllPaired
  <2>1. Plain(res) BY <1>1, <1>4
  <2>2. ASSUME NEW n \in Names, IsCap(n) PROVE Paired(n)'
    <3>1. Paired(n) BY <1>4, <2>2 DEF AllPaired
    <3>2. res.name \notin EntryNames(n) BY <2>1, <2>2, PlainNames DEF NamesApart
    <3>3. QED BY <1>0, <2>2, <3>1, <3>2, HandlePaired
  <2>3. \A i \in 1..Len(todo'[t]) : Plain(todo'[t][i])
    <3>1. Len(Tail(todo[t])) = Len(todo[t]) - 1 /\ Len(todo[t]) \in Nat
          /\ \A i \in 1..Len(Tail(todo[t])) : Tail(todo[t])[i] = todo[t][i + 1]
      BY <1>1
    <3>2. QED BY <1>2, <1>4, <3>1
  <2>4. TodoInv(t)' BY <2>2, <2>3 DEF TodoInv, AllPaired, Plain, Given
  <2>5. QED BY <1>3, <2>1, <2>4 DEF Origin
<1>5. ASSUME NEW n \in Names, NEW k \in Nat, Midway(t, n, k) PROVE TodoInv(t)' /\ HeapOrigin'
  <2>1. IsCap(n) /\ CapFound(n) /\ ~stage[t] /\ \A m \in Names : IsCap(m) /\ m # n => Paired(m)
    BY <1>5 DEF Midway
  <2>2. n \in Nat /\ EntryNames(n) \subseteq Names /\ IsOther(n) BY <2>1, CapNames
  <2>n. EntryOf(n) \in EntryNames(n) /\ ActionOf(n) \in EntryNames(n) /\ MatchOf(n) \in EntryNames(n)
    BY DEF EntryNames
  <2>3. obj'[t] = Len(heap) + 1 /\ pc'[t] = "bind" /\ ~stage'[t] /\ heap'[obj'[t]] = res
    BY <1>0, <1>2, <2>1, HandleAt
  <2>4. ASSUME res.name \in EntryNames(n)
        PROVE  CapFound(n)' /\ \A m \in Names : IsCap(m) /\ m # n => Paired(m)'
    <3>1. ASSUME NEW m \in Names, IsCap(m), m # n PROVE Paired(m)'
      <4>1. res.name \notin EntryNames(m) BY <2>1, <2>4, <3>1 DEF NamesApart
      <4>2. QED BY <1>0, <2>1, <3>1, <4>1, HandlePaired
    <3>2. CapFound(n)'
      <4>1. n # res.name BY <2>2, <2>4, NamesDiffer DEF EntryNames
      <4>2. QED BY <1>0, <2>1, <4>1, HandleAt DEF CapFound
    <3>3. QED BY <3>1, <3>2
  <2>5. ASSUME NEW m \in EntryNames(n), m # res.name, Has(m, k) PROVE Has(m, k)'
    <3>1. Found(m) /\ heap[objectsMap[m]].key = k BY <2>5 DEF Has
    <3>2. Found(m)' /\ heap'[objectsMap'[m]] = heap[objectsMap[m]]
      <4>1. m \in Names BY <2>2
      <4>2. \A j \in Names : j # res.name =>
                /\ Found(j)' <=> Found(j)
                /\ Found(j) => heap'[objectsMap'[j]] = heap[objectsMap[j]]
        BY <1>0, HandleAt
      <4>3. QED BY <2>5, <3>1, <4>1, <4>2
    <3>3. QED BY <3>1, <3>2 DEF Has
  <2>6. CASE todo[t] = <<MatchRes(n, k), ActionRes(n, k), EntryRes(n, k)>>
    <3>1. res = MatchRes(n, k) /\ todo'[t] = <<ActionRes(n, k), EntryRes(n, k)>>
      BY <1>0, <1>2, <2>6, ChildrenSeq
    <3>2. res.name = MatchOf(n) /\ res.type = "afi-cap-entry-match" /\ res.key = k BY <3>1, ChildrenSeq
    <3>3. Has(MatchOf(n), k)' BY <1>0, <3>2, HandleAt
    <3>4. Made(res, n) BY <3>2 DEF Made
    <3>5. NoEntryBound(t)' BY <2>3, <3>2 DEF NoEntryBound
    <3>6. Midway(t, n, k)'
      BY <2>1, <2>3, <2>4, <2>n, <3>1, <3>2, <3>3, <3>5 DEF Midway, ActionRes, EntryRes
    <3>7. QED BY <1>3, <2>1, <3>4, <3>6 DEF TodoInv, Origin
  <2>7. CASE todo[t] = <<ActionRes(n, k), EntryRes(n, k)>> /\ Has(MatchOf(n), k)
    <3>1. res = ActionRes(n, k) /\ todo'[t] = <<EntryRes(n, k)>>
      BY <1>0, <1>2, <2>7, ChildrenSeq
    <3>2. res.name = ActionOf(n) /\ res.type = "afi-cap-entry-action" /\ res.key = k BY <3>1, ChildrenSeq
    <3>3. Has(ActionOf(n), k)' BY <1>0, <3>2, HandleAt
    <3>4. Has(MatchOf(n), k)' BY <2>2, <2>5, <2>7, <2>n, <3>2, NamesDiffer
    <3>5. Made(res, n) BY <3>2 DEF Made
    <3>6. NoEntryBound(t)' BY <2>3, <3>2 DEF NoEntryBound
    <3>7. Midway(t, n, k)'
      BY <2>1, <2>3, <2>4, <2>n, <3>1, <3>2, <3>3, <3>4, <3>6 DEF Midway, EntryRes
    <3>8. QED BY <1>3, <2>1, <3>5, <3>7 DEF TodoInv, Origin
  <2>8. CASE todo[t] = <<EntryRes(n, k)>> /\ Has(MatchOf(n), k) /\ Has(ActionOf(n), k)
    <3>1. res = EntryRes(n, k) /\ todo'[t] = <<>>
      BY <1>0, <1>2, <2>8, ChildrenSeq
    <3>2. /\ res.name = EntryOf(n) /\ res.type = "afi-cap-entry" /\ res.key = k
          /\ res.refs = <<n, MatchOf(n), ActionOf(n)>>
      BY <3>1, ChildrenSeq
    <3>3. Has(ActionOf(n), k)' /\ Has(MatchOf(n), k)' BY <2>2, <2>5, <2>8, <2>n, <3>2, NamesDiffer
    <3>4. Made(res, n) BY <3>2 DEF Made
    <3>5. Paired(n)'
      <4>1. heap'[objectsMap'[EntryOf(n)]].key = k BY <1>0, <3>2, HandleAt
      <4>2. QED BY <3>3, <4>1 DEF Paired
    <3>6. AllPaired' BY <2>4, <2>n, <3>2, <3>5 DEF AllPaired, IsCap
    <3>7. Len(todo'[t]) = 0 BY <3>1
    <3>8. TodoInv(t)' BY <3>6, <3>7 DEF TodoInv
    <3>9. QED BY <1>3, <2>1, <3>4, <3>8 DEF Origin
  <2>9. QED BY <1>5, <2>6, <2>7, <2>8 DEF Midway
<1>6. QED BY <1>4, <1>5 DEF TodoInv

\* Every other step of the core keeps TodoInv too.
LEMMA CoreTodo ==
    ASSUME NamesApart, TypeInv, NEW t \in Threads, Call(t) \/ (CoreStep(t) /\ ~HandleObject(t)),
           HeapOrigin, TodoInv(t), AddsUnstaged(t)
    PROVE  TodoInv(t)' /\ HeapOrigin' /\ AddsUnstaged(t)'
<1>0. MapKept /\ HeapOrigin' BY StepsKeepMap, KeptPairs
<1>1. /\ todo \in [Threads -> Seq(GoodResources)] /\ stage \in [Threads -> BOOLEAN]
      /\ pc \in [Threads -> CoreLabels]
  BY TypeParts DEF Shape, CoreTypeOK, GoodTodo
<1> USE DEF mapVars, p4Vars, callVars, Goto
<1>a. AllPaired => AllPaired' BY <1>0, KeptPairs
\* Outside handle and bind, nothing of an entry is left to handle.
<1>2. ASSUME pc[t] \notin {"handle", "bind"} \/ todo[t] = <<>>
      PROVE  (\A i \in 1..Len(todo[t]) : Plain(todo[t][i])) /\ AllPaired
  <2>0. \A x, y, z : <<x, y, z>> # <<>> /\ <<y, z>> # <<>> /\ <<z>> # <<>> OBVIOUS
  <2>1. ASSUME NEW n \in Names, NEW k \in Nat, Midway(t, n, k) PROVE FALSE
    <3>1. todo[t] # <<>> BY <2>0, <2>1 DEF Midway
    <3>2. QED BY <1>2, <2>1, <3>1 DEF Midway
  <2>2. QED BY <2>1 DEF TodoInv
<1>3. ASSUME AllPaired, \A i \in 1..Len(todo'[t]) : Plain(todo'[t][i]) PROVE TodoInv(t)'
  BY <1>3, <1>a DEF TodoInv, Plain, Given
<1>4. CASE ServeAtOnce(t)
  <2>1. UNCHANGED <<pc, todo, stage>> /\ pc[t] = "idle" BY <1>4 DEF ServeAtOnce
  <2>2. QED BY <1>0, <1>2, <1>3, <2>1 DEF AddsUnstaged
<1>5. ASSUME NEW rs \in Seq(GoodResources), NEW pipeline, NEW then, Accept(t, rs, pipeline, then),
             \A i \in 1..Len(rs) : Plain(rs[i])
      PROVE  TodoInv(t)' /\ AddsUnstaged(t)'
  <2>1. pc[t] = "idle" /\ todo'[t] = rs /\ pc'[t] = "handle" BY <1>1, <1>5 DEF Accept
  <2>2. QED BY <1>2, <1>3, <1>5, <2>1 DEF AddsUnstaged
<1>6. CASE RejectObject(t)
  <2>1. todo'[t] = <<>> /\ pc'[t] = "idle" /\ Head(todo[t]).type \notin Creators
    BY <1>1, <1>6 DEF RejectObject
  <2>2. ASSUME NEW n \in Names, NEW k \in Nat, Midway(t, n, k) PROVE FALSE
    <3>1. Head(todo[t]) \in {MatchRes(n, k), ActionRes(n, k), EntryRes(n, k)}
      BY <2>2, ChildrenSeq DEF Midway
    <3>2. Head(todo[t]).type \in EntryTypes BY <3>1, ChildrenSeq DEF EntryTypes
    <3>3. QED BY <2>1, <3>2 DEF NamesApart
  <2>3. AllPaired BY <2>2 DEF TodoInv
  <2>4. Len(todo'[t]) = 0 BY <2>1
  <2>5. QED BY <1>0, <1>3, <2>1, <2>3, <2>4 DEF AddsUnstaged
<1>7. CASE HandleDone(t)
  <2>1. /\ todo[t] = <<>> /\ todo' = todo /\ stage' = stage
        /\ pc'[t] = IF stage[t] THEN "bindAll" ELSE IF pending[t] # NULL THEN "addObj" ELSE "idle"
    BY <1>1, <1>7 DEF HandleDone
  <2>2. AddsUnstaged(t)' BY <2>1 DEF AddsUnstaged
  <2>3. QED BY <1>0, <1>2, <1>3, <2>1, <2>2
<1>8. CASE BindNext(t) \/ BindAllDone(t)
  <2>1. pc[t] = "bindAll" /\ todo' = todo /\ pc'[t] \in {"bind", "idle"}
    BY <1>1, <1>8 DEF BindNext, BindAllDone
  <2>2. QED BY <1>0, <1>2, <1>3, <2>1 DEF AddsUnstaged
<1>9. CASE AfiAddObjEntry(t)
  <2> DEFINE e == pending[t]
  <2>1. /\ ~crashed /\ pc[t] = "addObj" /\ stage' = stage /\ ~stage[t]
        /\ \/ UNCHANGED todo /\ pc'[t] = "idle"
           \/ /\ CapFound(e.table) /\ pc'[t] = "handle"
              /\ todo' = [todo EXCEPT ![t] = CapChildren(e.table, e.key)]
    BY <1>1, <1>9 DEF AfiAddObjEntry, AddsUnstaged, CapFound
  <2>2. pc'[t] # "addObj" BY <2>1
  <2>3. ASSUME UNCHANGED todo PROVE TodoInv(t)' BY <1>2, <1>3, <2>1, <2>3
  <2>4. ASSUME CapFound(e.table), pc'[t] = "handle",
               todo' = [todo EXCEPT ![t] = CapChildren(e.table, e.key)]
        PROVE  TodoInv(t)'
    <3>1. e \in Pending BY <2>1 DEF TypeInv, Shape, CoreTypeOK
    <3>2. PICK n \in Names, k \in Nat : n = e.table /\ k = e.key BY <3>1 DEF Pending
    <3>3. todo'[t] = <<MatchRes(n, k), ActionRes(n, k), EntryRes(n, k)>>
      BY <1>1, <2>4, <3>2, ChildrenSeq
    <3>4. IsCap(n)
      <4>1. /\ objectsMap[n] \in 1..Len(heap) /\ heap[objectsMap[n]].name = n
            /\ heap[objectsMap[n]].type = "afi-cap"
        BY <2>4, <3>2, FoundPointer DEF CapFound, TypeInv
      <4>2. Origin(heap[objectsMap[n]]) BY <4>1 DEF HeapOrigin
      <4>3. QED BY <4>1, <4>2, PlainNames DEF Origin, Made
    <3>5. CapFound(n)' BY <1>0, <2>4, <3>2, KeptPairs
    <3>6. AllPaired' BY <1>2, <1>a, <2>1
    <3>7. Midway(t, n, k)'
      BY <2>1, <2>4, <3>3, <3>4, <3>5, <3>6
      DEF Midway, AllPaired, IsCap, MatchRes, ActionRes, EntryRes
    <3>8. QED BY <3>7 DEF TodoInv
  <2>5. QED BY <1>0, <2>1, <2>2, <2>3, <2>4 DEF AddsUnstaged
<1>10. QED BY <1>0, <1>4, <1>5, <1>6, <1>7, <1>8, <1>9, CallPlain DEF CoreStep

\* The middle of an entry, where neither the map nor the thread's work changes.
LEMMA MidwayKept ==
    ASSUME MapKept, NEW t \in Threads, NEW n \in Names, NEW k \in Nat, Midway(t, n, k),
           UNCHANGED <<heap, todo, stage, obj>>, pc'[t] \in {"handle", "bind"},
           pc[t] = "handle" => pc'[t] = "handle"
    PROVE  Midway(t, n, k)'
<1>1. IsCap(n) /\ CapFound(n) /\ ~stage[t] /\ \A m \in Names : IsCap(m) /\ m # n => Paired(m)
  BY DEF Midway
<1>2. CapFound(n)' /\ \A m \in Names : IsCap(m) /\ m # n => Paired(m)' BY <1>1, KeptPairs
<1>3. MatchOf(n) \in Names /\ ActionOf(n) \in Names BY <1>1, CapNames DEF EntryNames
<1>4. /\ Has(MatchOf(n), k) => Has(MatchOf(n), k)'
      /\ Has(ActionOf(n), k) => Has(ActionOf(n), k)'
      /\ Paired(n) => Paired(n)'
  BY <1>1, <1>3, KeptPairs
<1>5. NoEntryBound(t) => NoEntryBound(t)' BY DEF NoEntryBound, Midway
<1>6. pc'[t] \in {"handle", "bind"} /\ ~stage'[t] /\ todo'[t] = todo[t] BY <1>1
<1>7. QED BY <1>1, <1>2, <1>4, <1>5, <1>6 DEF Midway, IsCap, MatchRes, ActionRes, EntryRes

\* And so do the steps of bind().
LEMMA BindTodo ==
    ASSUME TypeInv, NEW t \in Threads, Bind(t), HeapOrigin, TodoInv(t), AddsUnstaged(t)
    PROVE  TodoInv(t)' /\ HeapOrigin' /\ AddsUnstaged(t)'
<1>0. MapKept /\ HeapOrigin' BY StepsKeepMap, KeptPairs
<1>1. /\ pc[t] = "bind" /\ UNCHANGED <<heap, todo, stage, obj>>
      /\ pc'[t] \in CoreLabels /\ pc'[t] # "addObj"
      /\ pc'[t] = "bind" \/ pc'[t] = IF stage[t] THEN "bindAll" ELSE "handle"
  BY BindFrame, TypeParts DEF callVars, Goto
<1>2. CASE (\A i \in 1..Len(todo[t]) : Plain(todo[t][i])) /\ AllPaired
  <2>1. AllPaired' BY <1>0, <1>2, KeptPairs
  <2>2. QED BY <1>0, <1>1, <1>2, <2>1 DEF TodoInv, Plain, Given, AddsUnstaged
<1>3. ASSUME NEW n \in Names, NEW k \in Nat, Midway(t, n, k)
      PROVE  TodoInv(t)' /\ HeapOrigin' /\ AddsUnstaged(t)'
  <2>1. ~stage[t] BY <1>3 DEF Midway
  <2>2. Midway(t, n, k)' BY <1>0, <1>1, <1>3, <2>1, MidwayKept
  <2>3. QED BY <1>0, <1>1, <2>2 DEF TodoInv, AddsUnstaged
<1>4. QED BY <1>2, <1>3 DEF TodoInv

\* Outside bind() a thread has looked nothing up.
LEMMA NothingFound ==
    ASSUME TypeInv, ~crashed, NEW t \in Threads, pc[t] # "bind"
    PROVE  Len(found[t]) = 0
<1>1. found[t] \in Seq(1..Len(heap)) /\ Len(found[t]) <= 0 BY TypeParts DEF BrcmTypeOK, FoundBound
<1>2. QED BY <1>1

\* A step of the core starts to bind the object that a name has.
LEMMA CoreBinds ==
    ASSUME TypeInv, NEW t \in Threads, Call(t) \/ CoreStep(t), ~crashed'
    PROVE  BindsLatest(t)'
<1>0. /\ obj \in [Threads -> 0..Len(heap)] /\ pc \in [Threads -> CoreLabels] /\ Shape
      /\ cursor \in [Threads -> Nat] /\ objectsMap \in [Names -> (1..Len(heap)) \cup {NULL, ABSENT}]
  BY TypeParts DEF Shape, CoreTypeOK
<1> USE DEF mapVars, p4Vars, callVars, Goto
<1>1. CASE HandleObject(t)
  <2>1. PICK res : res = Head(todo[t]) OBVIOUS
  <2>2. /\ ~stage[t] => obj'[t] = Len(heap) + 1
        /\ stage[t] => pc'[t] = "handle"
        /\ stage' = stage
    BY <1>0, <1>1 DEF HandleObject
  <2>3. CASE stage[t] BY <2>2, <2>3 DEF BindsLatest
  <2>4. CASE ~stage[t]
    <3>1. heap'[obj'[t]] = res /\ objectsMap'[res.name] = obj'[t] BY <1>1, <2>1, <2>2, <2>4, HandleAt
    <3>2. QED BY <2>2, <2>4, <3>1 DEF BindsLatest
  <2>5. QED BY <2>3, <2>4
<1>2. CASE BindNext(t)
  <2>1. PICK n \in Ahead(t) :
          /\ crashed' = (objectsMap[n] = NULL)
          /\ obj' = IF objectsMap[n] = NULL THEN obj ELSE [obj EXCEPT ![t] = objectsMap[n]]
          /\ cursor' = [cursor EXCEPT ![t] = n]
    BY <1>2 DEF BindNext
  <2>2. n \in Names /\ Found(n) BY <2>1 DEF Ahead, Found
  <2>3. UNCHANGED <<heap, objectsMap>> BY <1>2 DEF BindNext
  <2>4. obj'[t] = objectsMap[n] /\ cursor'[t] = n BY <1>0, <2>1
  <2>5. heap[objectsMap[n]].name = n BY <1>0, <2>2, FoundPointer
  <2>6. QED BY <2>3, <2>4, <2>5 DEF BindsLatest
<1>3. ASSUME pc'[t] # "bind" PROVE BindsLatest(t)' BY <1>3 DEF BindsLatest
<1>4. CASE Call(t)
  <2>1. ServeAtOnce(t) \/ \E rs, pipeline, then : Accept(t, rs, pipeline, then)
    BY <1>4, Zenon DEF Call, SetForwardingPipelineConfig, UnparsedConfig, Write, AddTableEntry, AddTable,
                       ShowAfiObjects
  <2>2. pc'[t] # "bind" BY <1>0, <2>1 DEF ServeAtOnce, Accept
  <2>3. QED BY <1>3, <2>2
<1>5. CASE RejectObject(t) BY <1>0, <1>3, <1>5 DEF RejectObject
<1>6. CASE HandleDone(t) BY <1>0, <1>3, <1>6 DEF HandleDone
<1>7. CASE BindAllDone(t) BY <1>0, <1>3, <1>7 DEF BindAllDone
<1>8. CASE AfiAddObjEntry(t) BY <1>0, <1>3, <1>8 DEF AfiAddObjEntry
<1>9. QED BY <1>1, <1>2, <1>4, <1>5, <1>6, <1>7, <1>8 DEF CoreStep

\* While it is bound, the name keeps it.
LEMMA BindBinds ==
    ASSUME TypeInv, NEW t \in Threads, Bind(t), BindsLatest(t)
    PROVE  BindsLatest(t)'
<1>0. /\ ~crashed /\ pc[t] = "bind" /\ UNCHANGED <<heap, stage, obj, cursor>> /\ MapKept
  BY BindFrame, StepsKeepMap DEF callVars
<1>1. obj[t] \in 1..Len(heap) /\ heap[obj[t]].name \in Names BY <1>0, BoundObject, GoodFields
<1>2. PICK n \in Names : n = heap[obj[t]].name BY <1>1
<1>3. objectsMap[n] = obj[t] /\ (stage[t] => cursor[t] = n) BY <1>0, <1>2 DEF BindsLatest
<1>4. Found(n) BY <1>1, <1>3, FoundPointer DEF TypeInv
<1>5. objectsMap'[n] = obj[t] BY <1>0, <1>3, <1>4 DEF MapKept
<1>6. QED BY <1>0, <1>2, <1>3, <1>5 DEF BindsLatest

\* The state of the entries' rules while nothing crashes.
Steady(t) == TodoInv(t) /\ BindsLatest(t) /\ LookedUp(t) /\ Installed(t) /\ AddsUnstaged(t)

\* A step of the core: the only object of an entry without a rule is one that
\* is about to be bound.
LEMMA CoreRules ==
    ASSUME NamesApart, TypeInv, NEW t \in Threads, Call(t) \/ CoreStep(t), UNCHANGED brcmVars,
           HeapOrigin, RulePaired, Steady(t)
    PROVE  RuleInv(t)'
<1> USE DEF sdkVars
<1>0. /\ UNCHANGED <<rules, found>> /\ ~crashed /\ pc[t] # "bind"
      /\ Len(heap) \in Nat /\ Len(heap') \in Nat /\ Len(heap) <= Len(heap')
      /\ \A i \in 1..Len(heap) : heap'[i] = heap[i]
  BY TypeParts, CoreFrame DEF brcmVars, Outside
<1>1. TodoInv(t)' /\ HeapOrigin' /\ AddsUnstaged(t)'
  <2>1. CASE HandleObject(t)
    <3>1. pc \in [Threads -> CoreLabels] BY TypeParts
    <3>2. pc[t] = "handle" /\ pc'[t] \in {"handle", "bind"}
      <4>1. CASE stage[t] BY <2>1, <3>1, <4>1 DEF HandleObject
      <4>2. CASE ~stage[t] BY <2>1, <3>1, <4>2 DEF HandleObject, Goto
      <4>3. QED BY <4>1, <4>2
    <3>3. QED BY <2>1, <3>2, HandleTodo DEF Steady, AddsUnstaged
  <2>2. CASE ~HandleObject(t) BY <2>2, CoreTodo DEF Steady
  <2>3. QED BY <2>1, <2>2
<1>2. ~crashed' => BindsLatest(t)' BY CoreBinds
<1>3. LookedUp(t)'
  <2>1. Len(found'[t]) = 0 BY <1>0, NothingFound
  <2>2. QED BY <2>1 DEF LookedUp
<1>4. RulePaired'
  <2>1. \A r \in rules : r.entry \in 1..Len(heap) BY TypeParts DEF BrcmTypeOK
  <2>2. QED BY <1>0, <2>1 DEF RulePaired
<1>5. Installed(t)'
  <2>1. SUFFICES ASSUME NEW o \in 1..Len(heap'), heap'[o].type = "afi-cap-entry"
                 PROVE  \/ \E r \in rules' : r.entry = o
                        \/ pc'[t] = "bind" /\ obj'[t] = o /\ \E n \in Names : n = heap'[o].refs[1] /\ CapFound(n)'
    BY DEF Installed
  <2>2. CASE o \in 1..Len(heap) BY <1>0, <2>1, <2>2 DEF Steady, Installed
  <2>3. CASE o \notin 1..Len(heap)
    <3>1. HandleObject(t)
      <4>1. ASSUME ~HandleObject(t) PROVE heap' = heap BY <4>1, StepsKeepMap DEF MapKept
      <4>2. QED BY <2>3, <4>1
    <3>2. PICK res : res = Head(todo[t]) OBVIOUS
    <3>3. o = Len(heap) + 1 /\ heap'[o] = res BY <2>1, <2>3, <3>1, <3>2, HandleAt
    <3>4. ~Plain(res) /\ res.type = "afi-cap-entry" BY <2>1, <3>3 DEF Plain, EntryTypes
    <3>5. todo[t] # <<>> /\ todo[t] \in Seq(GoodResources)
      BY <3>1 DEF HandleObject, TypeInv, Shape, GoodTodo
    <3>6. 1 \in 1..Len(todo[t]) /\ res = todo[t][1] BY <3>2, <3>5
    <3>7. PICK n \in Names, k \in Nat : Midway(t, n, k) BY <3>4, <3>6 DEF Steady, TodoInv
    <3>8. IsCap(n) /\ CapFound(n) /\ ~stage[t] /\ n \in Nat BY <3>7, CapNames DEF Midway
    <3>9. res = EntryRes(n, k)
      <4>1. res \in {MatchRes(n, k), ActionRes(n, k), EntryRes(n, k)}
        BY <3>2, <3>7, ChildrenSeq DEF Midway
      <4>2. QED BY <3>4, <4>1, ChildrenSeq
    <3>10. res.name = EntryOf(n) /\ res.refs = <<n, MatchOf(n), ActionOf(n)>> BY <3>9, ChildrenSeq
    <3>11. CapFound(n)'
      <4>1. n # res.name BY <3>8, <3>10, NamesDiffer
      <4>2. QED BY <3>1, <3>2, <3>8, <4>1, HandleAt DEF CapFound
    <3>12. heap'[o].refs[1] = n BY <3>3, <3>10
    <3>13. pc'[t] = "bind" /\ obj'[t] = o
      <4>1. obj \in [Threads -> 0..Len(heap)] /\ pc \in [Threads -> CoreLabels]
        BY TypeParts DEF Shape, CoreTypeOK
      <4>2. QED BY <3>1, <3>3, <3>8, <4>1 DEF HandleObject, Goto
    <3>14. QED BY <3>11, <3>12, <3>13
  <2>4. QED BY <2>2, <2>3
<1>6. QED BY <1>1, <1>2, <1>3, <1>4, <1>5 DEF RuleInv

\* A lookup that the bind() of an entry makes.
LEMMA LookUpRules ==
    ASSUME NamesApart, TypeInv, NEW t \in Threads, LookUp(t), HeapOrigin, Steady(t)
    PROVE  LookedUp(t)' /\ Installed(t)'
<1> DEFINE e == heap[obj[t]]
           i == Len(found[t]) + 1
<1>0. /\ Binding(t) /\ ~Complete(t) /\ ~crashed /\ pc[t] = "bind" /\ Bind(t)
      /\ UNCHANGED <<heap, obj, rules>>
  BY DEF LookUp, Binding, Bind, callVars, sdkVars
<1>1. PICK n : n = e.refs[i] OBVIOUS
<1>2. \/ /\ Found(n) /\ heap[objectsMap[n]].type = RefTypes[e.type][i] /\ UNCHANGED pc
         /\ found' = [found EXCEPT ![t] = Append(found[t], objectsMap[n])]
      \/ /\ ~(Found(n) /\ heap[objectsMap[n]].type = RefTypes[e.type][i])
         /\ BindDone(t)
  BY <1>1 DEF LookUp
<1>3. pc \in [Threads -> CoreLabels] /\ found \in [Threads -> Seq(1..Len(heap))] /\ found[t] \in Seq(1..Len(heap))
  BY TypeParts DEF BrcmTypeOK
<1>4. BindDone(t) => pc'[t] # "bind" BY <1>3 DEF BindDone, Goto
<1>k. MapKept BY <1>0, StepsKeepMap
<1>5. CASE e.type # "afi-cap-entry"
  <2>1. LookedUp(t)' BY <1>0, <1>5 DEF LookedUp
  <2>2. Installed(t)' BY <1>0, <1>5 DEF Steady, Installed
  <2>3. QED BY <2>1, <2>2
<1>6. CASE e.type = "afi-cap-entry"
  <2>1. PICK m \in Names :
          /\ IsCap(m) /\ e.refs = <<m, MatchOf(m), ActionOf(m)>>
          /\ Has(MatchOf(m), e.key) /\ Has(ActionOf(m), e.key)
          /\ heap[objectsMap[MatchOf(m)]].type = "afi-cap-entry-match"
          /\ heap[objectsMap[ActionOf(m)]].type = "afi-cap-entry-action"
    BY <1>0, <1>6, EntryBound DEF Steady
  <2>2. Len(e.refs) = 3 /\ e.refs[1] = m /\ e.refs[2] = MatchOf(m) /\ e.refs[3] = ActionOf(m)
    BY <2>1
  <2>3. i \in 1..3 BY <1>0, <2>2, NextRef
  <2>4. /\ RefTypes[e.type][1] = "afi-cap" /\ RefTypes[e.type][2] = "afi-cap-entry-match"
        /\ RefTypes[e.type][3] = "afi-cap-entry-action"
    BY <1>6, RefCounts
  <2>5. i # 1 => /\ Has(n, e.key) /\ heap[objectsMap[n]].type = RefTypes[e.type][i]
    <3>1. CASE i = 2 BY <1>1, <2>1, <2>2, <2>4, <3>1
    <3>2. CASE i = 3 BY <1>1, <2>1, <2>2, <2>4, <3>2
    <3>3. QED BY <2>3, <3>1, <3>2
  <2>6. LookedUp(t)'
    <3>1. SUFFICES ASSUME pc'[t] = "bind", NEW j \in 2..Len(found'[t])
                   PROVE  heap'[found'[t][j]].key = heap'[obj'[t]].key
      BY DEF LookedUp
    <3>2. found'[t] = Append(found[t], objectsMap[n]) /\ Found(n) BY <1>2, <1>3, <1>4, <3>1
    <3>3. Len(found'[t]) = i /\ found'[t][i] = objectsMap[n]
          /\ \A x \in 1..Len(found[t]) : found'[t][x] = found[t][x]
      BY <1>3, <3>2
    <3>4. CASE j = i BY <1>0, <2>5, <3>1, <3>3, <3>4 DEF Has
    <3>5. CASE j # i
      <4>1. Len(found[t]) \in Nat BY <1>3
      <4>2. j \in 2..Len(found[t]) /\ j \in 1..Len(found[t]) BY <3>1, <3>3, <3>5, <4>1
      <4>3. found'[t][j] = found[t][j] BY <3>3, <4>2
      <4>4. heap[found[t][j]].key = heap[obj[t]].key BY <1>0, <1>6, <4>2 DEF Steady, LookedUp
      <4>5. QED BY <1>0, <4>3, <4>4
    <3>6. QED BY <3>4, <3>5
  <2>7. Installed(t)'
    <3>1. CASE \E r \in rules : r.entry = obj[t]
      BY <1>0, <3>1 DEF Steady, Installed
    <3>2. CASE ~ \E r \in rules : r.entry = obj[t]
      <4>1. CapFound(m)
        <5>1. obj[t] \in 1..Len(heap) BY <1>0, BoundObject
        <5>2. QED BY <1>6, <2>2, <3>2, <5>1 DEF Steady, Installed
      <4>2. Found(n) /\ heap[objectsMap[n]].type = RefTypes[e.type][i]
        <5>1. CASE i = 1 BY <1>1, <2>2, <2>4, <4>1, <5>1 DEF CapFound
        <5>2. CASE i # 1 BY <2>5, <5>2 DEF Has
        <5>3. QED BY <5>1, <5>2
      <4>3. pc'[t] = "bind" BY <1>0, <1>2, <4>2
      <4>4. CapFound(m)' BY <1>k, <4>1, KeptPairs
      <4>5. ASSUME NEW o \in 1..Len(heap), heap[o].type = "afi-cap-entry", o # obj[t]
            PROVE  \E r \in rules : r.entry = o
        BY <4>5 DEF Steady, Installed
      <4>6. \A o \in 1..Len(heap') : heap'[o].type = "afi-cap-entry" =>
              \/ \E r \in rules' : r.entry = o
              \/ pc'[t] = "bind" /\ obj'[t] = o /\ \E c \in Names : c = heap'[o].refs[1] /\ CapFound(c)'
        BY <1>0, <2>2, <4>3, <4>4, <4>5
      <4>7. QED BY <4>6 DEF Installed
    <3>3. QED BY <3>1, <3>2
  <2>8. QED BY <2>6, <2>7
<1>7. QED BY <1>5, <1>6

\* A step inside bind().
LEMMA BindRules ==
    ASSUME NamesApart, TypeInv, NEW t \in Threads, Bind(t), HeapOrigin, RulePaired, Steady(t)
    PROVE  RuleInv(t)'
<1> USE DEF sdkVars
<1>0. ~crashed /\ pc[t] = "bind" /\ UNCHANGED <<heap, obj>> /\ pc \in [Threads -> CoreLabels]
  BY BindFrame, TypeParts DEF callVars
<1>1. TodoInv(t)' /\ HeapOrigin' /\ AddsUnstaged(t)' BY BindTodo DEF Steady
<1>2. BindsLatest(t)' BY BindBinds DEF Steady
<1>3. CASE LookUp(t)
  <2>1. LookedUp(t)' /\ Installed(t)' BY <1>3, LookUpRules
  <2>2. RulePaired' BY <1>0, <1>3 DEF LookUp, RulePaired
  <2>3. QED BY <1>1, <1>2, <2>1, <2>2 DEF RuleInv
<1>4. ASSUME NEW type, Bound(t, type) PROVE LookedUp(t)'
  <2>1. pc'[t] # "bind" BY <1>0, <1>4 DEF Bound, BindDone, Goto
  <2>2. QED BY <2>1 DEF LookedUp
<1>5. CASE BindCapEntry(t)
  <2> DEFINE r == [entry |-> obj[t], group |-> heap[found[t][1]].key,
                   match |-> heap[found[t][2]].key, action |-> heap[found[t][3]].key]
  <2>1. /\ Bound(t, "afi-cap-entry") /\ rules' = rules \cup {r}
        /\ heap[obj[t]].type = "afi-cap-entry" /\ Complete(t)
    BY <1>5 DEF BindCapEntry, Bound
  <2>2. Len(found[t]) = 3
    <3>1. heap[obj[t]] \in GoodResources BY <1>0, BoundObject
    <3>2. Len(RefTypes["afi-cap-entry"]) = 3 BY RefCounts
    <3>3. QED BY <2>1, <3>1, <3>2, GoodFields DEF Complete
  <2>3. 2 \in 2..Len(found[t]) /\ 3 \in 2..Len(found[t]) BY <2>2
  <2>4. r.match = heap[r.entry].key /\ r.action = heap[r.entry].key
    BY <1>0, <2>1, <2>3 DEF Steady, LookedUp
  <2> HIDE DEF r
  <2>5. RulePaired' BY <1>0, <2>1, <2>4 DEF RulePaired
  <2>6. r.entry = obj[t] BY DEF r
  <2>7. \A o \in 1..Len(heap') : heap'[o].type = "afi-cap-entry" => \E x \in rules' : x.entry = o
    BY <1>0, <2>1, <2>6 DEF Steady, Installed
  <2>8. Installed(t)' BY <2>7 DEF Installed
  <2>9. QED BY <1>1, <1>2, <1>4, <2>1, <2>5, <2>8 DEF RuleInv
<1>6. ASSUME NEW type, type # "afi-cap-entry", Bound(t, type), UNCHANGED rules PROVE RuleInv(t)'
  <2>1. heap[obj[t]].type # "afi-cap-entry" BY <1>6 DEF Bound
  <2>2. \A o \in 1..Len(heap') : heap'[o].type = "afi-cap-entry" => \E x \in rules' : x.entry = o
    BY <1>0, <1>6, <2>1 DEF Steady, Installed
  <2>3. Installed(t)' BY <2>2 DEF Installed
  <2>4. RulePaired' BY <1>0, <1>6 DEF RulePaired
  <2>5. QED BY <1>1, <1>2, <1>4, <1>6, <2>3, <2>4 DEF RuleInv
<1>7. CASE BindPlain(t) \/ BindCap(t) \/ BindTreeEntry(t)
  <2>1. \E type : type # "afi-cap-entry" /\ Bound(t, type) /\ UNCHANGED rules
    BY <1>7 DEF BindPlain, BindCap, BindTreeEntry
  <2>2. QED BY <1>6, <2>1
<1>8. QED BY <1>3, <1>5, <1>7 DEF Bind

\* RuleInv holds as long as one thread serves the calls.
LEMMA RuleInvariant ==
    ASSUME NamesApart, NEW t, Threads = {t}
    PROVE  Spec => []RuleInv(t)
<1>0. t \in Threads OBVIOUS
<1>1. Init => RuleInv(t)
  <2> SUFFICES ASSUME Init PROVE RuleInv(t)
    OBVIOUS
  <2>1. /\ heap = <<>> /\ Len(heap) = 0 /\ rules = {} /\ pc[t] = "idle"
        /\ todo[t] = <<>> /\ Len(todo[t]) = 0
    BY <1>0 DEF Init, CoreInit
  <2>2. \A n \in Names : objectsMap[n] = ABSENT BY DEF Init, CoreInit
  <2>3. AllPaired
    <3>1. SUFFICES ASSUME NEW n \in Names, IsCap(n) PROVE Paired(n)
      BY DEF AllPaired
    <3>2. EntryOf(n) \in Names BY <3>1, CapNames DEF EntryNames
    <3>3. QED BY <2>2, <3>2 DEF Paired, Found
  <2>4. HeapOrigin /\ RulePaired /\ Installed(t) BY <2>1 DEF HeapOrigin, RulePaired, Installed
  <2>5. TodoInv(t) /\ BindsLatest(t) /\ LookedUp(t) /\ AddsUnstaged(t)
    BY <2>1, <2>3 DEF TodoInv, BindsLatest, LookedUp, AddsUnstaged
  <2>6. QED BY <2>4, <2>5 DEF RuleInv
<1>2. TypeInv /\ RuleInv(t) /\ [Next]_vars => RuleInv(t)'
  <2> SUFFICES ASSUME TypeInv, RuleInv(t), [Next]_vars PROVE RuleInv(t)'
    OBVIOUS
  <2>1. ~crashed => Steady(t) /\ HeapOrigin /\ RulePaired BY DEF RuleInv, Steady
  <2>2. ASSUME Call(t) \/ CoreStep(t), UNCHANGED brcmVars PROVE RuleInv(t)'
    <3>1. ~crashed BY <1>0, <2>2, TypeParts, CoreFrame
    <3>2. QED BY <1>0, <2>1, <2>2, <3>1, CoreRules
  <2>3. ASSUME Bind(t) PROVE RuleInv(t)'
    <3>1. ~crashed BY <1>0, <2>3, BindFrame
    <3>2. QED BY <1>0, <2>1, <2>3, <3>1, BindRules
  <2>4. ASSUME UNCHANGED vars PROVE RuleInv(t)'
    <3>1. UNCHANGED <<heap, objectsMap, pc, todo, stage, obj, cursor, crashed, rules, found>>
      BY <2>4 DEF vars, coreVars, brcmVars, sdkVars
    <3>2. MapKept BY <3>1 DEF MapKept, Found
    <3>3. HeapOrigin' /\ (AllPaired => AllPaired') /\ RulePaired'
      BY <3>1, <3>2, KeptPairs DEF RuleInv, RulePaired
    <3>4. ASSUME ~crashed PROVE TodoInv(t)'
      <4>1. TodoInv(t) BY <3>4 DEF RuleInv
      <4>2. ASSUME NEW n \in Names, NEW k \in Nat, Midway(t, n, k) PROVE Midway(t, n, k)'
        <5>1. pc[t] \in {"handle", "bind"} BY <4>2 DEF Midway
        <5>2. QED BY <1>0, <3>1, <3>2, <4>2, <5>1, MidwayKept
      <4>3. QED BY <3>1, <3>3, <4>1, <4>2 DEF TodoInv, Plain, Given
    <3>5. ASSUME ~crashed PROVE (BindsLatest(t) /\ LookedUp(t) /\ AddsUnstaged(t))'
      BY <3>1, <3>5 DEF RuleInv, BindsLatest, LookedUp, AddsUnstaged
    <3>6. ASSUME ~crashed PROVE Installed(t)'
      BY <3>1, <3>6 DEF RuleInv, Installed, CapFound, Found
    <3>7. QED BY <3>1, <3>3, <3>4, <3>5, <3>6 DEF RuleInv
  <2>5. QED BY <2>2, <2>3, <2>4 DEF Next, Step, Halted
<1>3. QED BY <1>1, <1>2, TypeInvariant, PTL DEF Spec

\* As long as one call is served at a time, every rule has the match fields
\* and the action parameters of the entry it belongs to, although all entries
\* of a table share the names under which bind() looks them up.
THEOREM RulesPaired ==
    ASSUME NamesApart, NEW t, Threads = {t}
    PROVE  Spec => []RulePaired
<1>1. RuleInv(t) => RulePaired BY DEF RuleInv
<1>2. QED BY <1>1, RuleInvariant, PTL

\* And no entry is left without its rule: its bind() finds the cap and both
\* sets, whatever was pushed or written before.
THEOREM EntriesHaveRules ==
    ASSUME NamesApart, NEW t, Threads = {t}
    PROVE  Spec => []EntriesInstalled
<1>1. RuleInv(t) => EntriesInstalled
  <2>1. SUFFICES ASSUME RuleInv(t), Quiet PROVE EntriesInstalled
    BY DEF EntriesInstalled
  <2>2. Installed(t) /\ pc[t] # "bind" BY <2>1 DEF RuleInv, Quiet
  <2>3. QED BY <2>2 DEF Installed, EntriesInstalled
<1>2. QED BY <1>1, RuleInvariant, PTL

-----------------------------------------------------------------------------
(* Rules and groups.                                                       *)

\* A step of the core binds a cap only in a push.
LEMMA CorePushed ==
    ASSUME NamesApart, TypeInv, NEW t \in Threads, Call(t) \/ CoreStep(t), Staged(t), CapsPushed(t)
    PROVE  CapsPushed(t)'
<1>0. /\ todo \in [Threads -> Seq(GoodResources)] /\ stage \in [Threads -> BOOLEAN]
      /\ obj \in [Threads -> 0..Len(heap)] /\ pc \in [Threads -> CoreLabels]
      /\ todo[t] \in Seq(GoodResources)
  BY TypeParts DEF Shape, CoreTypeOK, GoodTodo
<1> USE DEF mapVars, p4Vars, callVars, Goto
<1>1. ASSUME UNCHANGED <<todo, stage>>, pc'[t] # "bind" PROVE CapsPushed(t)'
  BY <1>1 DEF CapsPushed
<1>2. CASE ServeAtOnce(t) BY <1>1, <1>2 DEF ServeAtOnce
<1>3. ASSUME NEW rs \in Seq(GoodResources), NEW pipeline \in BOOLEAN, NEW then,
             Accept(t, rs, pipeline, then), \A i \in 1..Len(rs) : pipeline \/ rs[i].type # "afi-cap"
      PROVE  CapsPushed(t)'
  <2>1. todo'[t] = rs /\ stage'[t] = pipeline /\ pc'[t] = "handle" BY <1>0, <1>3 DEF Accept
  <2>2. QED BY <1>3, <2>1 DEF CapsPushed
<1>4. CASE HandleObject(t)
  <2>1. PICK res : res = Head(todo[t]) OBVIOUS
  <2>2. todo[t] # <<>> /\ todo'[t] = Tail(todo[t]) /\ stage' = stage
    BY <1>0, <1>4 DEF HandleObject
  <2>3. /\ res = todo[t][1] /\ 1 \in 1..Len(todo[t]) /\ Len(Tail(todo[t])) = Len(todo[t]) - 1
        /\ \A i \in 1..Len(Tail(todo[t])) : Tail(todo[t])[i] = todo[t][i + 1]
        /\ Len(todo[t]) \in Nat
    BY <1>0, <2>1, <2>2
  <2>4. ~stage[t] => \A i \in 1..Len(todo'[t]) : todo'[t][i].type # "afi-cap"
    BY <2>2, <2>3 DEF CapsPushed
  <2>5. ~stage[t] => heap'[obj'[t]].type # "afi-cap"
    <3>1. ~stage[t] => obj'[t] = Len(heap) + 1 BY <1>0, <1>4 DEF HandleObject
    <3>2. heap'[Len(heap) + 1] = res BY <1>4, <2>1, HandleAt
    <3>3. QED BY <2>3, <3>1, <3>2 DEF CapsPushed
  <2>6. QED BY <2>2, <2>4, <2>5 DEF CapsPushed
<1>5. CASE RejectObject(t)
  <2>1. todo'[t] = <<>> /\ pc'[t] = "idle" BY <1>0, <1>5 DEF RejectObject
  <2>2. Len(todo'[t]) = 0 BY <2>1
  <2>3. QED BY <2>1, <2>2 DEF CapsPushed
<1>6. CASE HandleDone(t)
  <2>1. pc'[t] # "bind" BY <1>0, <1>6 DEF HandleDone
  <2>2. QED BY <1>1, <1>6, <2>1 DEF HandleDone
<1>7. CASE BindNext(t)
  <2>1. stage[t] /\ stage' = stage BY <1>7 DEF BindNext, Staged
  <2>2. QED BY <2>1 DEF CapsPushed
<1>8. CASE BindAllDone(t)
  <2>1. pc'[t] # "bind" BY <1>0, <1>8 DEF BindAllDone
  <2>2. QED BY <1>1, <1>8, <2>1 DEF BindAllDone
<1>9. CASE AfiAddObjEntry(t)
  <2>1. /\ stage' = stage
        /\ \/ UNCHANGED todo /\ pc'[t] = "idle"
           \/ /\ pc'[t] = "handle"
              /\ todo' = [todo EXCEPT ![t] = CapChildren(pending[t].table, pending[t].key)]
    BY <1>0, <1>9 DEF AfiAddObjEntry
  <2>2. PICK n, k : n = pending[t].table /\ k = pending[t].key OBVIOUS
  <2>3. ASSUME todo' = [todo EXCEPT ![t] = CapChildren(n, k)]
        PROVE  \A i \in 1..Len(todo'[t]) : todo'[t][i].type # "afi-cap"
    <3>1. todo'[t] = <<MatchRes(n, k), ActionRes(n, k), EntryRes(n, k)>> BY <1>0, <2>3, ChildrenSeq
    <3>2. \A x, y, z : \A i \in 1..Len(<<x, y, z>>) : <<x, y, z>>[i] \in {x, y, z} OBVIOUS
    <3>3. \A i \in 1..Len(todo'[t]) : todo'[t][i] \in {MatchRes(n, k), ActionRes(n, k), EntryRes(n, k)}
      BY <3>1, <3>2
    <3>4. QED BY <3>3, ChildrenSeq
  <2>4. QED BY <1>1, <2>1, <2>2, <2>3 DEF CapsPushed
<1>10. QED BY <1>2, <1>3, <1>4, <1>5, <1>6, <1>7, <1>8, <1>9, CallPlain DEF CoreStep

\* A step of the core.
LEMMA CoreGroups ==
    ASSUME NamesApart, CreatableConfigs, TypeInv, NEW t \in Threads, Threads = {t},
           Call(t) \/ CoreStep(t), UNCHANGED brcmVars, GroupInv(t)
    PROVE  GroupInv(t)'
<1> USE DEF sdkVars
<1>0. Shape /\ pc \in [Threads -> CoreLabels] BY TypeParts
<1>1. /\ ~crashed /\ pc[t] # "bind" /\ \A i \in 1..Len(heap) : heap'[i] = heap[i]
      /\ UNCHANGED <<groups, rules, found>>
  BY <1>0, CoreFrame DEF Outside, brcmVars
<1>2. Staged(t) /\ CapsOwned(t) BY <1>1 DEF GroupInv
<1>3. Staged(t)' BY <1>0, <1>2, CoreStaged
<1>4. ASSUME ~crashed' PROVE CapsOwned(t)'
  <2>1. SUFFICES ASSUME NEW n \in Names, objectsMap'[n] \notin {NULL, ABSENT},
                        heap'[objectsMap'[n]].type = "afi-cap"
                 PROVE  heap'[objectsMap'[n]].key \in groups \/ WillBind(t, n)'
    BY <1>1 DEF CapsOwned, CapFound, Found
  <2>2. CASE WillBind(t, n)' BY <2>2
  <2>3. CASE objectsMap'[n] = objectsMap[n] /\ (WillBind(t, n) => WillBind(t, n)')
    <3>1. Found(n) BY <2>1, <2>3 DEF Found
    <3>2. objectsMap[n] \in 1..Len(heap) BY <1>0, <3>1, FoundPointer
    <3>3. heap'[objectsMap'[n]] = heap[objectsMap[n]] BY <1>1, <2>3, <3>2
    <3>4. CapFound(n) BY <2>1, <3>1, <3>3 DEF CapFound
    <3>5. QED BY <1>2, <2>3, <3>3, <3>4 DEF CapsOwned
  <2>4. QED BY <1>0, <1>2, <1>4, <2>1, <2>2, <2>3, CoreWillBind
<1>5. GroupLookedUp(t)'
  <2>1. Len(found'[t]) = 0 BY <1>1, NothingFound
  <2>2. QED BY <2>1 DEF GroupLookedUp
<1>6. CapsPushed(t)' BY <1>1, CorePushed DEF GroupInv
<1>7. QED BY <1>1, <1>3, <1>4, <1>5, <1>6 DEF GroupInv, RuleHasGroup

\* The sets that a cap looks up in a push are in the map.
LEMMA CapLookUp ==
    ASSUME NamesApart, CompleteConfigs, TypedSets, TypeInv, NullFree, HeapOrigin,
           NEW t \in Threads, Binding(t), ~Complete(t), heap[obj[t]].type = "afi-cap", stage[t]
    PROVE  \A i, n : i = Len(found[t]) + 1 /\ n = heap[obj[t]].refs[i] =>
               Found(n) /\ heap[objectsMap[n]].type = RefTypes["afi-cap"][i]
<1> SUFFICES ASSUME NEW i, i = Len(found[t]) + 1, NEW n, n = heap[obj[t]].refs[i]
             PROVE  Found(n) /\ heap[objectsMap[n]].type = RefTypes["afi-cap"][i]
  OBVIOUS
<1>0. PICK e : e = heap[obj[t]] OBVIOUS
<1>1. ~crashed /\ pc[t] = "bind" BY DEF Binding
<1>2. i \in 1..Len(e.refs) /\ n = e.refs[i] /\ n \in Names /\ n \in Refs(e) BY <1>0, NextRef
<1>3. Plain(e)
  <2>1. obj[t] \in 1..Len(heap) BY <1>1, BoundObject
  <2>2. QED BY <1>0, <2>1 DEF HeapOrigin, Origin, Made
<1>4. PICK c \in Configs : \E k \in 1..Len(c.objects) : e = c.objects[k]
  BY <1>0, <1>3 DEF Plain, Given
<1>5. PICK k \in 1..Len(c.objects) : e = c.objects[k] BY <1>4
<1>6. n \in Lookups BY <1>2, <1>5, LookupsMembers
<1>7. Found(n) BY <1>1, <1>6 DEF NullFree, ThreadCovers, AllFound
<1>8. PICK r : r = heap[objectsMap[n]] OBVIOUS
<1>9. Origin(r) /\ r.name = n
  <2>1. objectsMap[n] \in 1..Len(heap) /\ r.name = n BY <1>2, <1>7, <1>8, FoundPointer DEF TypeInv
  <2>2. QED BY <1>8, <2>1 DEF HeapOrigin
<1>10. Plain(r)
  <2>1. IsOther(n) BY <1>6 DEF CompleteConfigs, IsOther
  <2>2. ASSUME NEW m \in Names, IsCap(m), Made(r, m) PROVE FALSE
    <3>1. n \in EntryNames(m) BY <1>9, <2>2 DEF Made, EntryNames
    <3>2. QED BY <2>1, <2>2, <3>1 DEF NamesApart
  <2>3. QED BY <1>9, <2>2 DEF Origin
<1>11. /\ n \notin CliTables \cup {EntryName}
       /\ \A d \in Configs : \A j \in 1..Len(d.objects) :
            d.objects[j].name = n => d.objects[j].type = RefTypes["afi-cap"][i]
  <2>1. /\ c.objects[k].type = "afi-cap" /\ i \in 1..Len(c.objects[k].refs)
        /\ c.objects[k].refs[i] = n
    BY <1>0, <1>2, <1>5
  <2>2. \A j \in 1..Len(c.objects[k].refs) :
          /\ c.objects[k].refs[j] \notin CliTables \cup {EntryName}
          /\ \A d \in Configs : \A x \in 1..Len(d.objects) :
               d.objects[x].name = c.objects[k].refs[j] => d.objects[x].type = RefTypes["afi-cap"][j]
    BY <2>1 DEF TypedSets
  <2>3. /\ c.objects[k].refs[i] \notin CliTables \cup {EntryName}
        /\ \A d \in Configs : \A x \in 1..Len(d.objects) :
             d.objects[x].name = c.objects[k].refs[i] => d.objects[x].type = RefTypes["afi-cap"][i]
    BY <2>1, <2>2, Zenon
  <2>4. QED BY <2>1, <2>3
<1>12. r.type = RefTypes["afi-cap"][i] BY <1>9, <1>10, <1>11 DEF Plain, Given
<1>13. QED BY <1>7, <1>8, <1>12

\* A step inside bind(): a cap gets its group, and an entry looks its cap up
\* when that is bound.
LEMMA BindGroups ==
    ASSUME NamesApart, CompleteConfigs, TypedSets, TypeInv, NullFree, NEW t \in Threads, Bind(t),
           HeapOrigin, Steady(t), GroupInv(t)
    PROVE  GroupInv(t)'
<1> USE DEF sdkVars
<1>0. /\ Shape /\ pc \in [Threads -> CoreLabels] /\ found[t] \in Seq(1..Len(heap))
      /\ found \in [Threads -> Seq(1..Len(heap))]
  BY TypeParts DEF BrcmTypeOK
<1>1. /\ ~crashed /\ pc[t] = "bind" /\ UNCHANGED <<heap, todo, stage, obj, cursor, crashed>> /\ MapKept
  BY BindFrame, StepsKeepMap DEF callVars
<1>2. /\ pc'[t] # "addObj" /\ (pc'[t] = "bind" \/ pc'[t] = IF stage[t] THEN "bindAll" ELSE "handle")
  BY <1>0, BindFrame DEF Goto
<1>3. Staged(t) /\ CapsOwned(t) /\ GroupLookedUp(t) /\ CapsPushed(t) BY <1>1 DEF GroupInv
<1>4. Staged(t)' BY <1>1, <1>2, <1>3 DEF Staged, Creatable
\* A bind() that returns has given a cap its group.
<1>5. /\ groups \subseteq groups'
      /\ pc'[t] = "bind" \/ (heap[obj[t]].type = "afi-cap" => heap[obj[t]].key \in groups')
  <2>1. CASE LookUp(t)
    <3>1. PICK i : i = Len(found[t]) + 1 OBVIOUS
    <3>2. PICK n : n = heap[obj[t]].refs[i] OBVIOUS
    <3>3. /\ Binding(t) /\ ~Complete(t) /\ UNCHANGED groups
          /\ Found(n) /\ heap[objectsMap[n]].type = RefTypes[heap[obj[t]].type][i] => UNCHANGED pc
      BY <2>1, <3>1, <3>2 DEF LookUp
    <3>4. ASSUME heap[obj[t]].type = "afi-cap" PROVE pc'[t] = "bind"
      <4>1. stage[t] BY <1>1, <1>3, <3>4 DEF CapsPushed
      <4>2. Found(n) /\ heap[objectsMap[n]].type = RefTypes["afi-cap"][i]
        <5>1. \A j, m : j = Len(found[t]) + 1 /\ m = heap[obj[t]].refs[j] =>
                Found(m) /\ heap[objectsMap[m]].type = RefTypes["afi-cap"][j]
          BY <3>3, <3>4, <4>1, CapLookUp
        <5>2. QED BY <3>1, <3>2, <5>1, Zenon
      <4>3. QED BY <1>1, <3>3, <3>4, <4>2
    <3>5. QED BY <3>3, <3>4
  <2>2. CASE BindPlain(t) BY <2>2 DEF BindPlain, Bound
  <2>3. CASE BindCap(t) BY <2>3 DEF BindCap, Bound
  <2>4. CASE BindCapEntry(t) BY <2>4 DEF BindCapEntry, Bound
  <2>5. CASE BindTreeEntry(t) BY <2>5 DEF BindTreeEntry, Bound
  <2>6. QED BY <2>1, <2>2, <2>3, <2>4, <2>5 DEF Bind
<1>6. CapsOwned(t)'
  <2>1. SUFFICES ASSUME NEW n \in Names, CapFound(n)'
                 PROVE  heap'[objectsMap'[n]].key \in groups' \/ WillBind(t, n)'
    BY DEF CapsOwned
  <2>2. CapFound(n) /\ objectsMap'[n] = objectsMap[n]
    BY <1>1, <2>1, KeptPairs DEF MapKept, CapFound
  <2>3. CASE heap[objectsMap[n]].key \in groups BY <1>1, <1>5, <2>2, <2>3
  <2>4. CASE WillBind(t, n)
    <3>1. CASE pc'[t] = "bind" BY <1>1, <2>2, <2>4, <3>1 DEF WillBind
    <3>2. CASE pc'[t] # "bind" /\ obj[t] = objectsMap[n]
      BY <1>1, <1>5, <2>2, <3>2 DEF CapFound
    <3>3. CASE pc'[t] # "bind" /\ obj[t] # objectsMap[n]
      <4>1. stage[t] /\ n > cursor[t] BY <1>1, <2>4, <3>3 DEF WillBind
      <4>2. pc'[t] = "bindAll" BY <1>2, <3>3, <4>1
      <4>3. QED BY <1>1, <4>1, <4>2 DEF WillBind
    <3>4. QED BY <3>1, <3>2, <3>3
  <2>5. QED BY <1>3, <2>2, <2>3, <2>4 DEF CapsOwned
<1>7. CapsPushed(t)' BY <1>1, <1>3 DEF CapsPushed
\* The first lookup of an entry finds a cap that has its group.
<1>8. GroupLookedUp(t)'
  <2>1. SUFFICES ASSUME pc'[t] = "bind", heap[obj[t]].type = "afi-cap-entry", Len(found'[t]) >= 1
                 PROVE  heap[found'[t][1]].key \in groups'
    BY <1>1 DEF GroupLookedUp
  <2>2. LookUp(t)
    <3>1. ASSUME NEW type, Bound(t, type) PROVE FALSE
      BY <1>0, <2>1, <3>1 DEF Bound, BindDone, Goto
    <3>2. QED BY <3>1, Zenon DEF Bind, BindPlain, BindCap, BindCapEntry, BindTreeEntry
  <2>3. PICK n : n = heap[obj[t]].refs[Len(found[t]) + 1] OBVIOUS
  <2>4. /\ Binding(t) /\ ~Complete(t)
        /\ Found(n) /\ heap[objectsMap[n]].type = RefTypes[heap[obj[t]].type][Len(found[t]) + 1]
        /\ found' = [found EXCEPT ![t] = Append(found[t], objectsMap[n])]
    <3>1. ~BindDone(t) BY <1>0, <2>1 DEF BindDone, Goto
    <3>2. QED BY <2>2, <2>3, <3>1 DEF LookUp
  <2>5. found'[t] = Append(found[t], objectsMap[n]) BY <1>0, <2>4
  <2>6. CASE Len(found[t]) # 0
    <3>1. Len(found[t]) \in Nat /\ found'[t][1] = found[t][1] BY <1>0, <2>5, <2>6
    <3>2. QED BY <1>1, <1>3, <1>5, <2>1, <2>6, <3>1 DEF GroupLookedUp
  <2>7. CASE Len(found[t]) = 0
    <3>1. found'[t][1] = objectsMap[n] BY <1>0, <2>5, <2>7
    <3>2. PICK m \in Names :
            /\ IsCap(m) /\ heap[obj[t]].refs = <<m, MatchOf(m), ActionOf(m)>>
            /\ heap[obj[t]].name = EntryOf(m)
      BY <1>1, <2>1, EntryBound DEF Steady
    <3>3. n = m BY <2>3, <2>7, <3>2
    <3>4. RefTypes["afi-cap-entry"][1] = "afi-cap" BY RefCounts
    <3>5. CapFound(m) BY <2>1, <2>4, <2>7, <3>3, <3>4 DEF CapFound
    <3>6. ~WillBind(t, m)
      <4>1. obj[t] # objectsMap[m] BY <2>1, <3>5 DEF CapFound
      <4>2. stage[t] => cursor[t] = EntryOf(m) BY <1>1, <3>2 DEF Steady, BindsLatest
      <4>3. stage[t] => ~(m > cursor[t])
        <5>1. m \in Nat BY <3>2, CapNames
        <5>2. QED BY <4>2, <5>1 DEF EntryOf
      <4>4. QED BY <1>1, <4>1, <4>3 DEF WillBind
    <3>7. heap[objectsMap[m]].key \in groups BY <1>3, <3>5, <3>6 DEF CapsOwned
    <3>8. QED BY <1>5, <3>1, <3>3, <3>7
  <2>8. QED BY <2>6, <2>7
<1>9. RuleHasGroup'
  <2>1. CASE BindCapEntry(t)
    <3>1. /\ rules' = rules \cup {[entry |-> obj[t], group |-> heap[found[t][1]].key,
                                  match |-> heap[found[t][2]].key,
                                  action |-> heap[found[t][3]].key]}
          /\ heap[obj[t]].type = "afi-cap-entry" /\ Complete(t)
      BY <2>1 DEF BindCapEntry, Bound
    <3>2. Len(found[t]) = 3
      <4>1. heap[obj[t]] \in GoodResources BY <1>1, BoundObject
      <4>2. Len(RefTypes["afi-cap-entry"]) = 3 BY RefCounts
      <4>3. QED BY <3>1, <4>1, <4>2, GoodFields DEF Complete
    <3>3. heap[found[t][1]].key \in groups BY <1>1, <1>3, <3>1, <3>2 DEF GroupLookedUp
    <3>4. QED BY <1>5, <3>1, <3>3 DEF GroupInv, RuleHasGroup
  <2>2. CASE ~BindCapEntry(t)
    <3>1. rules' = rules BY <2>2 DEF Bind, LookUp, BindPlain, BindCap, BindTreeEntry
    <3>2. QED BY <1>5, <3>1 DEF GroupInv, RuleHasGroup
  <2>3. QED BY <2>1, <2>2
<1>10. QED BY <1>4, <1>6, <1>7, <1>8, <1>9 DEF GroupInv

\* As long as one call is served at a time, rules only go into groups that
\* exist: a push binds the cap of a table before the entries that name it, and
\* every lookup of the cap's own bind() succeeds.
THEOREM RulesHaveGroups ==
    ASSUME NamesApart, CompleteConfigs, TypedSets, ~ShowAllowed, NEW t, Threads = {t}
    PROVE  Spec => []RuleHasGroup
<1>0. t \in Threads /\ CreatableConfigs BY DEF CreatableConfigs, CompleteConfigs, Creatable
<1>1. Init => GroupInv(t)
  <2>1. SUFFICES ASSUME Init PROVE GroupInv(t) OBVIOUS
  <2>2. /\ rules = {} /\ pc[t] = "idle" /\ ~stage[t] /\ todo[t] = <<>> /\ Len(todo[t]) = 0
        /\ \A n \in Names : objectsMap[n] = ABSENT
    BY <1>0, <2>1 DEF Init, CoreInit
  <2>3. RuleHasGroup /\ Staged(t) /\ CapsOwned(t)
    BY <2>2 DEF RuleHasGroup, Staged, CapsOwned, CapFound, Found
  <2>4. GroupLookedUp(t) /\ CapsPushed(t) BY <2>2 DEF GroupLookedUp, CapsPushed
  <2>5. QED BY <2>3, <2>4 DEF GroupInv
<1>2. TypeInv /\ RuleInv(t) /\ NullFree /\ GroupInv(t) /\ [Next]_vars => GroupInv(t)'
  <2>1. SUFFICES ASSUME TypeInv, RuleInv(t), NullFree, GroupInv(t), [Next]_vars PROVE GroupInv(t)'
    OBVIOUS
  <2>2. HeapOrigin /\ Steady(t) BY <2>1 DEF RuleInv, Steady, NullFree
  <2>3. ASSUME Call(t) \/ CoreStep(t), UNCHANGED brcmVars PROVE GroupInv(t)'
    BY <1>0, <2>1, <2>3, CoreGroups
  <2>4. ASSUME Bind(t) PROVE GroupInv(t)' BY <1>0, <2>1, <2>2, <2>4, BindGroups
  <2>5. ASSUME UNCHANGED vars PROVE GroupInv(t)'
    <3>1. UNCHANGED <<heap, objectsMap, pc, todo, stage, obj, cursor, crashed, rules, found, groups>>
      BY <2>5 DEF vars, coreVars, brcmVars, sdkVars
    <3>2. QED BY <2>1, <3>1 DEF GroupInv, RuleHasGroup, Staged, Creatable, CapsOwned, CapFound, Found,
                               WillBind, GroupLookedUp, CapsPushed
  <2>6. QED BY <2>1, <2>3, <2>4, <2>5 DEF Next, Step, Halted
<1>3. GroupInv(t) => RuleHasGroup BY DEF GroupInv
<1>4. QED BY <1>1, <1>2, <1>3, TypeInvariant, RuleInvariant, NullInvariant, PTL DEF Spec
=============================================================================
