--------------------------- MODULE AftTargetProofs ---------------------------
(***************************************************************************)
(* Proofs about the AFT target: types, null objects, the ownership of      *)
(* encap nodes, and which calls bind which trees.                          *)
(***************************************************************************)
EXTENDS AftTarget, AfiDeviceProofs

AftLabels == {"idle", "handle", "bindAll", "addObj", "bind", "ingress", "ports", "encap", "route"}

\* A thread between addEtherEncapNode and addRoute has a node.
HasEncap == \A t \in Threads : pc[t] = "route" => encap[t] \in 1..Len(nodes)

TypeInv == Shape /\ TypeOK /\ HasEncap

\* That node is its own: an encap node that no route leads to, and that no
\* other thread is about to use.
EncapPrivate ==
    \A t \in Threads : pc[t] = "route" =>
        /\ nodes[encap[t]] = "encap"
        /\ \A r \in routes : r.target # encap[t]
        /\ \A u \in Threads : u # t /\ pc[u] = "route" => encap[u] # encap[t]

\* A tree without a table is one that some thread is to bind.
TreesOwned ==
    ~crashed => \A n \in Names :
        Found(n) /\ heap[objectsMap[n]].type = "afi-tree" /\ Token(objectsMap[n]) = NONE
            => \E t \in Threads : WillBind(t, n)

IsLatest(x) == x \in Tables /\ \A i \in Tables : x >= i

\* Where the newest table is while one thread binds.
LatestAt(t) ==
    /\ pc[t] \notin {"ingress", "ports"} => Tables = {} \/ \A p \in Ports : IsLatest(ports[p])
    /\ pc[t] = "ingress" => IsLatest(Token(obj[t]))
    /\ pc[t] = "ports" => IsLatest(table[t]) /\ \A p \in Ports : p < port[t] => ports[p] = table[t]

-----------------------------------------------------------------------------
(* Steps and the core.                                                     *)

\* What every step inside bind() leaves alone, where it goes to, and which
\* name it looks up.
LEMMA BindFrame ==
    ASSUME TypeInv, NEW t \in Threads, Bind(t)
    PROVE  /\ ~crashed /\ pc[t] \notin Outside
           /\ UNCHANGED <<heap, p4Vars, callVars, crashed, calls>>
           /\ \E label \in AftLabels :
                /\ Goto(t, label) /\ label # "addObj"
                /\ label \notin Outside \/ label = IF stage[t] THEN "bindAll" ELSE "handle"
           /\ \/ UNCHANGED objectsMap
              \/ \E n \in Names : n \in Refs(heap[obj[t]]) /\ GetAfiObject(n)
<1> DEFINE Frame == /\ ~crashed /\ pc[t] \notin Outside
                    /\ UNCHANGED <<heap, p4Vars, callVars, crashed, calls>>
           Back == IF stage[t] THEN "bindAll" ELSE "handle"
           Goes == \E label \in AftLabels :
                     /\ Goto(t, label) /\ label # "addObj"
                     /\ label \notin Outside \/ label = Back
           Looks == \/ UNCHANGED objectsMap
                    \/ \E n \in Names : n \in Refs(heap[obj[t]]) /\ GetAfiObject(n)
<1>0. pc \in [Threads -> AftLabels] BY DEF TypeInv, TypeOK, AftLabels
<1>1. BindDone(t) => Goes
  <2>1. Back \in AftLabels /\ Back # "addObj" BY DEF AftLabels
  <2>2. QED BY <2>1 DEF BindDone
<1>2. CASE BindTree(t)
  BY <1>2 DEF BindTree, Binding, Outside, AftLabels, mapVars
<1>3. CASE SetIngressStart(t)
  BY <1>3 DEF SetIngressStart, Outside, AftLabels, mapVars
<1>4. CASE SetInputPortNextNode(t)
  <2>1. Frame /\ Looks /\ pc[t] = "ports"
    BY <1>4 DEF SetInputPortNextNode, IngressLoop, Outside, mapVars
  <2>2. UNCHANGED pc => Goto(t, "ports") BY <1>0, <2>1 DEF Goto
  <2>3. UNCHANGED pc => Goes BY <2>2 DEF AftLabels, Outside
  <2>4. UNCHANGED pc \/ BindDone(t) BY <1>4 DEF SetInputPortNextNode, IngressLoop
  <2>5. QED BY <1>1, <2>1, <2>3, <2>4
<1>5. CASE BindTreeEntry(t)
  <2>1. Frame BY <1>5 DEF BindTreeEntry, Binding, Outside
  <2>2. Goto(t, "encap") => Goes BY DEF AftLabels, Outside
  <2>3. Goto(t, "encap") \/ BindDone(t) BY <1>5 DEF BindTreeEntry
  <2>4. Looks
    <3> DEFINE o == heap[obj[t]]
    <3>1. o.type = "afi-tree-entry" /\ GetAfiObject(o.refs[1])
      BY <1>5 DEF BindTreeEntry, Binding
    <3>2. o \in GoodResources
      BY <2>1 DEF TypeInv, Shape, HasObject, CoreTypeOK, GoodHeap
    <3>3. Len(RefTypes["afi-tree-entry"]) = 1 BY RefCounts
    <3>4. o.refs \in Seq(Names) /\ Len(o.refs) = 1 BY <3>1, <3>2, <3>3, GoodFields
    <3>5. o.refs[1] \in Names /\ o.refs[1] \in Refs(o) BY <3>4 DEF Refs
    <3>6. QED BY <3>1, <3>5
  <2>5. QED BY <1>1, <2>1, <2>2, <2>3, <2>4
<1>6. CASE AddEtherEncapNode(t)
  BY <1>6 DEF AddEtherEncapNode, Outside, AftLabels, mapVars
<1>7. CASE AddRoute(t)
  BY <1>1, <1>7 DEF AddRoute, Outside, AftLabels, mapVars
<1>8. QED BY <1>2, <1>3, <1>4, <1>5, <1>6, <1>7 DEF Bind

\* Every step keeps the shape of the core.
LEMMA StepShape ==
    ASSUME TypeInv, [Next]_vars
    PROVE  Shape' /\ pc' \in [Threads -> AftLabels]
<1>0. Shape /\ pc \in [Threads -> AftLabels] /\ CoreLabels \subseteq AftLabels
  BY DEF TypeInv, TypeOK, AftLabels, CoreLabels, Outside
<1>1. ASSUME NEW t \in Threads, Call(t) PROVE Shape' /\ pc' \in [Threads -> AftLabels]
  BY <1>0, <1>1, CallShape
<1>2. ASSUME NEW t \in Threads, CoreStep(t) PROVE Shape' /\ pc' \in [Threads -> AftLabels]
  BY <1>0, <1>2, CoreShape
<1>3. ASSUME NEW t \in Threads, Bind(t) PROVE Shape' /\ pc' \in [Threads -> AftLabels]
  <2>1. PICK label \in AftLabels : Goto(t, label) /\ label # "addObj"
    BY <1>3, BindFrame
  <2>2. UNCHANGED objectsMap \/ \E n \in Names : GetAfiObject(n) BY <1>3, BindFrame
  <2>3. /\ ~crashed /\ pc[t] \notin Outside
        /\ UNCHANGED <<heap, p4Vars, callVars, crashed, calls>>
    BY <1>3, BindFrame
  <2>4. QED BY <1>0, <2>1, <2>2, <2>3, TargetShape
<1>4. CASE UNCHANGED vars
  BY <1>0, <1>4 DEF vars, coreVars, Shape, CoreTypeOK, GoodHeap, GoodTodo, NamedMap, Found, HasObject
<1>5. QED BY <1>1, <1>2, <1>3, <1>4 DEF Next, Step, Halted

-----------------------------------------------------------------------------
(* Types.                                                                  *)

\* The target's own part of TypeOK.
AftTypeOK ==
    /\ nodes \in Seq({"tree", "encap"})
    /\ ports \in [Ports -> 0..Len(nodes)]
    /\ routes \subseteq [table : 0..Len(nodes), key : Nat, plen : Nat,
                         target : 1..Len(nodes)]
    /\ token \in [DOMAIN token -> 1..Len(nodes)]
    /\ DOMAIN token \subseteq 1..Len(heap)
    /\ tree \in [Threads -> 0..Len(heap)]
    /\ table \in [Threads -> 0..Len(nodes)]
    /\ encap \in [Threads -> 0..Len(nodes)]
    /\ port \in [Threads -> Ports]

\* TypeInv, part by part.
LEMMA TypeParts ==
    /\ TypeInv <=> Shape /\ pc \in [Threads -> AftLabels] /\ AftTypeOK /\ HasEncap
    /\ TypeInv' <=> Shape' /\ pc' \in [Threads -> AftLabels] /\ AftTypeOK' /\ HasEncap'
BY DEF TypeInv, TypeOK, AftTypeOK, AftLabels, Shape

\* A token is a node of the sandbox or none.
LEMMA TokenType ==
    ASSUME AftTypeOK, NEW o
    PROVE  Token(o) \in 0..Len(nodes)
<1>1. Len(nodes) \in Nat BY DEF AftTypeOK
<1>2. token \in [DOMAIN token -> 1..Len(nodes)] BY DEF AftTypeOK
<1>3. CASE o \in DOMAIN token
  <2>1. token[o] \in 1..Len(nodes) BY <1>2, <1>3
  <2>2. QED BY <1>1, <1>3, <2>1 DEF Token
<1>4. CASE o \notin DOMAIN token BY <1>1, <1>4 DEF Token, NONE
<1>5. QED BY <1>3, <1>4

\* Pushing a node widens the types.
LEMMA PushNode ==
    ASSUME AftTypeOK, NEW kind \in {"tree", "encap"}, nodes' = Append(nodes, kind)
    PROVE  /\ nodes' \in Seq({"tree", "encap"}) /\ Len(nodes') = Len(nodes) + 1
           /\ Len(nodes) \in Nat /\ nodes'[Len(nodes) + 1] = kind
           /\ \A i \in 1..Len(nodes) : nodes'[i] = nodes[i]
           /\ Len(nodes) + 1 \in 1..Len(nodes')
           /\ ports \in [Ports -> 0..Len(nodes')]
           /\ routes \subseteq [table : 0..Len(nodes'), key : Nat, plen : Nat,
                                target : 1..Len(nodes')]
           /\ token \in [DOMAIN token -> 1..Len(nodes')]
           /\ table \in [Threads -> 0..Len(nodes')]
           /\ encap \in [Threads -> 0..Len(nodes')]
<1>1. /\ nodes' \in Seq({"tree", "encap"}) /\ Len(nodes') = Len(nodes) + 1
      /\ Len(nodes) \in Nat /\ nodes'[Len(nodes) + 1] = kind
      /\ \A i \in 1..Len(nodes) : nodes'[i] = nodes[i]
  BY DEF AftTypeOK
<1>2. 0..Len(nodes) \subseteq 0..Len(nodes') /\ 1..Len(nodes) \subseteq 1..Len(nodes')
      /\ Len(nodes) + 1 \in 1..Len(nodes')
  BY <1>1
<1>3. /\ ports \in [Ports -> 0..Len(nodes')] /\ table \in [Threads -> 0..Len(nodes')]
      /\ encap \in [Threads -> 0..Len(nodes')]
  BY <1>2 DEF AftTypeOK
<1>4. routes \subseteq [table : 0..Len(nodes'), key : Nat, plen : Nat, target : 1..Len(nodes')]
  BY <1>2 DEF AftTypeOK
<1>5. token \in [DOMAIN token -> 1..Len(nodes')]
  BY <1>2 DEF AftTypeOK
<1>6. QED BY <1>1, <1>2, <1>3, <1>4, <1>5

\* Initially.
LEMMA InitType == Init => TypeInv
<1> SUFFICES ASSUME Init PROVE TypeInv
  OBVIOUS
<1>1. Shape BY CoreInitShape DEF Init
<1>2. pc \in [Threads -> AftLabels] /\ HasEncap BY DEF Init, CoreInit, AftLabels, HasEncap
<1>3. nodes = <<>> /\ Len(nodes) = 0 /\ nodes \in Seq({"tree", "encap"}) /\ heap = <<>> /\ Len(heap) = 0
  BY DEF Init, CoreInit
<1>4. DOMAIN token = {} /\ token \in [DOMAIN token -> 1..Len(nodes)]
  BY DEF Init
<1>5. 1 \in Ports BY NumPortsAssumption DEF Ports
<1>6. AftTypeOK BY <1>3, <1>4, <1>5 DEF Init, AftTypeOK, NONE
<1>7. QED BY <1>1, <1>2, <1>6, TypeParts

\* Inside bind() the object is on the heap, and has a key.
LEMMA BoundObject ==
    ASSUME TypeInv, ~crashed, NEW t \in Threads, pc[t] \notin Outside
    PROVE  obj[t] \in 1..Len(heap) /\ heap[obj[t]] \in GoodResources /\ heap[obj[t]].key \in Nat
<1>1. obj[t] \in 0..Len(heap) /\ obj[t] # 0 /\ heap \in Seq(GoodResources)
  BY DEF TypeInv, Shape, CoreTypeOK, HasObject, GoodHeap
<1>2. obj[t] \in 1..Len(heap) BY <1>1
<1>3. heap[obj[t]] \in GoodResources BY <1>1, <1>2
<1>4. QED BY <1>2, <1>3, GoodFields

\* A step inside bind() keeps the target's types.
LEMMA BindType ==
    ASSUME TypeInv, NEW t \in Threads, Bind(t)
    PROVE  AftTypeOK' /\ HasEncap'
<1>0. AftTypeOK /\ HasEncap /\ pc \in [Threads -> AftLabels] /\ ~crashed /\ heap' = heap
      /\ pc[t] \notin Outside
  BY TypeParts, BindFrame
<1>1. obj[t] \in 1..Len(heap) /\ heap[obj[t]].key \in Nat BY <1>0, BoundObject
<1>2. ASSUME UNCHANGED <<nodes, encap>>, NEW label, label # "route", Goto(t, label) PROVE HasEncap'
  BY <1>0, <1>2 DEF HasEncap, Goto
<1>b. ASSUME UNCHANGED <<nodes, encap>>, BindDone(t) PROVE HasEncap'
  BY <1>2, <1>b DEF BindDone
<1> USE DEF sandboxVars, localVars
<1>3. CASE BindTree(t)
  <2>1. /\ nodes' = Append(nodes, "tree") /\ pc' = [pc EXCEPT ![t] = "ingress"]
        /\ token' = [x \in DOMAIN token \cup {obj[t]} |-> IF x = obj[t] THEN Len(nodes) + 1 ELSE token[x]]
        /\ UNCHANGED <<ports, routes, tree, table, encap, port>>
    BY <1>3 DEF BindTree, AddSandboxTable, Goto
  <2>2. DOMAIN token' = DOMAIN token \cup {obj[t]} BY <2>1
  <2>3. token' \in [DOMAIN token' -> 1..Len(nodes')] BY <1>0, <2>1, <2>2, PushNode
  <2>4. DOMAIN token' \subseteq 1..Len(heap) BY <1>0, <1>1, <2>2 DEF AftTypeOK
  <2>5. AftTypeOK' BY <1>0, <2>1, <2>3, <2>4, PushNode DEF AftTypeOK
  <2>6. HasEncap' BY <1>0, <2>1, PushNode DEF HasEncap
  <2>7. QED BY <2>5, <2>6
<1>4. CASE SetIngressStart(t)
  <2>1. 1 \in Ports BY NumPortsAssumption DEF Ports
  <2>2. Token(obj[t]) \in 0..Len(nodes) BY <1>0, TokenType
  <2>3. QED BY <1>0, <1>2, <1>4, <2>1, <2>2 DEF SetIngressStart, AftTypeOK
<1>5. CASE SetInputPortNextNode(t)
  <2>1. /\ ports' = [ports EXCEPT ![port[t]] = table[t]] /\ pc[t] = "ports"
        /\ UNCHANGED <<nodes, routes, token, tree, table, encap>>
        /\ \/ port[t] = NumPorts /\ BindDone(t) /\ UNCHANGED port
           \/ port[t] # NumPorts /\ port' = [port EXCEPT ![t] = port[t] + 1] /\ UNCHANGED pc
    BY <1>5 DEF SetInputPortNextNode, IngressLoop
  <2>2. port' \in [Threads -> Ports]
    <3>1. port \in [Threads -> Ports] BY <1>0 DEF AftTypeOK
    <3>2. port[t] # NumPorts => port[t] + 1 \in Ports BY <3>1, NumPortsAssumption DEF Ports
    <3>3. QED BY <2>1, <3>1, <3>2
  <2>3. ports' \in [Ports -> 0..Len(nodes)] BY <1>0, <2>1 DEF AftTypeOK
  <2>4. AftTypeOK' BY <1>0, <2>1, <2>2, <2>3 DEF AftTypeOK
  <2>5. HasEncap' BY <1>0, <1>b, <2>1 DEF HasEncap
  <2>6. QED BY <2>4, <2>5
<1>6. CASE BindTreeEntry(t)
  <2> DEFINE n == heap[obj[t]].refs[1]
  <2>1. /\ UNCHANGED <<nodes, ports, routes, token, table, encap, port>>
        /\ \/ /\ tree' = [tree EXCEPT ![t] = objectsMap[n]] /\ Goto(t, "encap")
              /\ Found(n) /\ heap[objectsMap[n]].type = "afi-tree"
           \/ UNCHANGED tree /\ BindDone(t)
    BY <1>6 DEF BindTreeEntry
  <2>2. HasEncap' BY <1>2, <1>b, <2>1
  <2>3. n \in Names
    <3>1. heap[obj[t]] \in GoodResources BY <1>0, BoundObject
    <3>2. heap[obj[t]].type = "afi-tree-entry" BY <1>6 DEF BindTreeEntry, Binding
    <3>3. Len(RefTypes["afi-tree-entry"]) = 1 BY RefCounts
    <3>4. heap[obj[t]].refs \in Seq(Names) /\ Len(heap[obj[t]].refs) = 1
      BY <3>1, <3>2, <3>3, GoodFields
    <3>5. QED BY <3>4
  <2>4. tree' \in [Threads -> 0..Len(heap)]
    <3>1. tree \in [Threads -> 0..Len(heap)] BY <1>0 DEF AftTypeOK
    <3>2. Found(n) => objectsMap[n] \in 1..Len(heap) BY <2>3, FoundPointer DEF TypeInv
    <3>3. Found(n) => objectsMap[n] \in 0..Len(heap) BY <3>2
    <3>4. QED BY <2>1, <3>1, <3>3
  <2>5. AftTypeOK' BY <1>0, <2>1, <2>4 DEF AftTypeOK
  <2>6. QED BY <2>2, <2>5
<1>7. CASE AddEtherEncapNode(t)
  <2>1. /\ nodes' = Append(nodes, "encap") /\ pc' = [pc EXCEPT ![t] = "route"]
        /\ table' = [table EXCEPT ![t] = Token(tree[t])]
        /\ encap' = [encap EXCEPT ![t] = Len(nodes) + 1]
        /\ UNCHANGED <<ports, routes, token, tree, port>>
    BY <1>7 DEF AddEtherEncapNode, Goto
  <2>2. Token(tree[t]) \in 0..Len(nodes) BY <1>0, TokenType
  <2>3. Token(tree[t]) \in 0..Len(nodes') BY <1>0, <2>1, <2>2, PushNode
  <2>4. Len(nodes) + 1 \in 0..Len(nodes') BY <1>0, <2>1, PushNode
  <2>5. table' \in [Threads -> 0..Len(nodes')] /\ encap' \in [Threads -> 0..Len(nodes')]
    BY <1>0, <2>1, <2>3, <2>4, PushNode
  <2>6. AftTypeOK' BY <1>0, <2>1, <2>5, PushNode DEF AftTypeOK
  <2>7. ASSUME NEW u \in Threads, pc'[u] = "route" PROVE encap'[u] \in 1..Len(nodes')
    <3>1. encap \in [Threads -> 0..Len(nodes)] BY <1>0 DEF AftTypeOK
    <3>2. CASE u = t BY <1>0, <2>1, <3>1, <3>2, PushNode
    <3>3. CASE u # t BY <1>0, <2>1, <2>7, <3>1, <3>3, PushNode DEF HasEncap
    <3>4. QED BY <3>2, <3>3
  <2>8. QED BY <2>6, <2>7 DEF HasEncap
<1>8. CASE AddRoute(t)
  <2> DEFINE r == [table |-> table[t], key |-> heap[obj[t]].key, plen |-> HostPrefixLength,
                   target |-> encap[t]]
  <2>1. /\ pc[t] = "route" /\ routes' = routes \cup {r} /\ BindDone(t)
        /\ UNCHANGED <<nodes, ports, token, tree, table, encap, port>>
    BY <1>8 DEF AddRoute
  <2>2. r \in [table : 0..Len(nodes), key : Nat, plen : Nat, target : 1..Len(nodes)]
    BY <1>0, <1>1, <2>1 DEF AftTypeOK, HasEncap, HostPrefixLength
  <2>3. AftTypeOK' BY <1>0, <2>1, <2>2 DEF AftTypeOK
  <2>4. QED BY <1>b, <2>1, <2>3
<1>9. QED BY <1>3, <1>4, <1>5, <1>6, <1>7, <1>8, Zenon DEF Bind

\* Every step keeps TypeInv.
LEMMA StepType == TypeInv /\ [Next]_vars => TypeInv'
<1> SUFFICES ASSUME TypeInv, [Next]_vars PROVE TypeInv'
  OBVIOUS
<1>0. AftTypeOK /\ HasEncap /\ Shape /\ pc \in [Threads -> AftLabels] BY TypeParts
<1>1. ASSUME NEW t \in Threads, Bind(t) PROVE AftTypeOK' /\ HasEncap' BY <1>1, BindType
<1>2. ASSUME NEW t \in Threads, Call(t) \/ CoreStep(t), UNCHANGED aftVars PROVE AftTypeOK' /\ HasEncap'
  <2>1. UNCHANGED <<nodes, ports, routes, token, tree, table, encap, port>>
    BY <1>2 DEF aftVars, sandboxVars, localVars
  <2>2. 1..Len(heap) \subseteq 1..Len(heap') /\ 0..Len(heap) \subseteq 0..Len(heap')
    <3>1. Len(heap) \in Nat /\ Len(heap') \in Nat /\ Len(heap) <= Len(heap') BY <1>0, <1>2, CoreFrame
    <3>2. QED BY <3>1
  <2>3. AftTypeOK' BY <1>0, <2>1, <2>2 DEF AftTypeOK
  <2>4. pc'[t] # "route" /\ \A u \in Threads : u # t => pc'[u] = pc[u]
    BY <1>0, <1>2, CoreFrame DEF CoreLabels, Outside
  <2>5. HasEncap' BY <1>0, <2>1, <2>4 DEF HasEncap
  <2>6. QED BY <2>3, <2>5
<1>3. ASSUME UNCHANGED vars PROVE AftTypeOK' /\ HasEncap'
  BY <1>0, <1>3 DEF vars, coreVars, aftVars, sandboxVars, localVars, AftTypeOK, HasEncap
<1>4. AftTypeOK' /\ HasEncap' BY <1>1, <1>2, <1>3 DEF Next, Step, Halted
<1>5. QED BY <1>4, StepShape, TypeParts

LEMMA TypeInvariant == Spec => []TypeInv
BY InitType, StepType, PTL DEF Spec

\* Whatever the configurations and however calls interleave, every pointer in
\* the map, every object a thread binds and every token in a port, a route or
\* a tree denotes an object or a node that exists.
THEOREM TypeCorrect == Spec => []TypeOK
<1>1. TypeInv => TypeOK BY DEF TypeInv
<1>2. QED BY <1>1, TypeInvariant, PTL

-----------------------------------------------------------------------------
(* Null objects.                                                           *)

\* Every step keeps the map free of unexpected null objects.
LEMMA StepNullFree ==
    ASSUME CompleteConfigs, ~ShowAllowed, TypeInv, NullFree, [Next]_vars
    PROVE  NullFree'
<1>0. Shape /\ pc \in [Threads -> AftLabels] /\ CoreLabels \subseteq AftLabels
  BY TypeParts DEF AftLabels, CoreLabels, Outside
<1>1. ASSUME NEW t \in Threads, Call(t) PROVE NullFree'
  BY <1>0, <1>1, CallNullFree
<1>2. ASSUME NEW t \in Threads, CoreStep(t) PROVE NullFree'
  BY <1>0, <1>2, CoreNullFree
<1>3. ASSUME NEW t \in Threads, Bind(t) PROVE NullFree'
  <2>1. PICK label \in AftLabels :
          /\ Goto(t, label)
          /\ label \notin Outside \/ label = IF stage[t] THEN "bindAll" ELSE "handle"
    BY <1>3, BindFrame
  <2>2. ~crashed /\ pc[t] \notin Outside /\ UNCHANGED <<heap, p4Vars, callVars, crashed>>
    BY <1>3, BindFrame
  <2>3. obj[t] \in 1..Len(heap) BY <2>2, BoundObject
  <2>4. \A n \in Refs(heap[obj[t]]) : Available(n) BY <2>3 DEF NullFree, HeapAvailable
  <2>5. UNCHANGED objectsMap \/ \E n \in Names : Available(n) /\ GetAfiObject(n)
    BY <1>3, <2>4, BindFrame
  <2>6. QED BY <1>0, <2>1, <2>2, <2>5, TargetNullFree
<1>4. CASE UNCHANGED vars
  <2>1. UNCHANGED <<heap, objectsMap, tables, pc, todo, stage, crashed>>
    BY <1>4 DEF vars, coreVars
  <2>2. QED BY <2>1 DEF NullFree, TablesAvailable, NullsLookedUp, HeapAvailable, Refs, Available,
                       Found, ThreadCovers, Provided, AllFound, Covered, Creatable
<1>5. QED BY <1>1, <1>2, <1>3, <1>4 DEF Next, Step, Halted

\* When every configuration has a creatable object for each name that is
\* looked up, and nobody lists the objects, bindAfiObjects meets no null
\* object, however many pushes, writes and CLI calls overlap.
THEOREM NullSafe ==
    ASSUME CompleteConfigs, ~ShowAllowed
    PROVE  Spec => []NoNullDeref
<1>1. Init => NullFree BY CoreInitNullFree DEF Init
<1>2. TypeInv /\ NullFree /\ [Next]_vars => NullFree' BY StepNullFree
<1>3. NullFree => NoNullDeref BY DEF NullFree, NoNullDeref
<1>4. QED BY <1>1, <1>2, <1>3, TypeInvariant, PTL DEF Spec

\* No step takes an object away from its name.
LEMMA StepObjectsKept ==
    ASSUME TypeInv, [Next]_vars
    PROVE  ObjectsKept
<1>0. Shape /\ pc \in [Threads -> AftLabels] BY TypeParts
<1>1. ASSUME NEW t \in Threads, Call(t) \/ CoreStep(t) PROVE ObjectsKept
  BY <1>0, <1>1, CoreFrame
<1>2. ASSUME NEW t \in Threads, Bind(t) PROVE ObjectsKept
  <2>1. UNCHANGED objectsMap \/ \E n \in Names : GetAfiObject(n) BY <1>2, BindFrame
  <2>2. QED BY <1>0, <2>1, LookUpMap DEF ObjectsKept, Found
<1>3. ASSUME UNCHANGED vars PROVE ObjectsKept
  BY <1>3 DEF vars, coreVars, ObjectsKept, Found
<1>4. QED BY <1>1, <1>2, <1>3 DEF Next, Step, Halted

\* A name that has an object keeps one, whatever fails: neither a rejected
\* configuration nor a lookup puts a null entry back.
THEOREM ObjectsStay == Spec => NamesKeepObjects
<1>1. TypeInv /\ [Next]_vars
        => [\A n \in Names : Found(n) => objectsMap'[n] \notin {NULL, ABSENT}]_vars
  BY StepObjectsKept DEF ObjectsKept
<1>2. QED BY <1>1, TypeInvariant, PTL DEF Spec, NamesKeepObjects

-----------------------------------------------------------------------------
(* Encap nodes.                                                            *)

EncapInv == RouteOwnsEncap /\ EncapPrivate

\* A step keeps every encap node with its owner.
LEMMA StepEncap ==
    ASSUME TypeInv, EncapInv, [Next]_vars
    PROVE  EncapInv'
<1>0. AftTypeOK /\ HasEncap /\ Shape /\ pc \in [Threads -> AftLabels] BY TypeParts
<1>r. \A r \in routes : r.target \in 1..Len(nodes) BY <1>0 DEF AftTypeOK
<1>1. ASSUME UNCHANGED <<routes, encap>>, \A i \in 1..Len(nodes) : nodes'[i] = nodes[i],
             \A u \in Threads : pc'[u] = "route" => pc[u] = "route"
      PROVE  EncapInv'
  <2>1. RouteOwnsEncap' BY <1>1, <1>r DEF EncapInv, RouteOwnsEncap
  <2>2. EncapPrivate' BY <1>0, <1>1 DEF EncapInv, EncapPrivate, HasEncap
  <2>3. QED BY <2>1, <2>2 DEF EncapInv
<1> USE DEF sandboxVars, localVars
<1>2. ASSUME NEW t \in Threads, Call(t) \/ CoreStep(t), UNCHANGED aftVars PROVE EncapInv'
  <2>1. pc'[t] # "route" /\ \A u \in Threads : u # t => pc'[u] = pc[u]
    BY <1>0, <1>2, CoreFrame DEF CoreLabels, Outside
  <2>2. QED BY <1>1, <1>2, <2>1 DEF aftVars
<1>3. ASSUME NEW t \in Threads, NEW label, label # "route", Goto(t, label)
      PROVE  \A u \in Threads : pc'[u] = "route" => pc[u] = "route"
  BY <1>0, <1>3 DEF Goto
<1>b. ASSUME NEW t \in Threads, BindDone(t)
      PROVE  \A u \in Threads : pc'[u] = "route" => pc[u] = "route" /\ u # t
  BY <1>0, <1>b DEF BindDone, Goto
<1>4. ASSUME NEW t \in Threads, Bind(t), ~AddEtherEncapNode(t), ~AddRoute(t) PROVE EncapInv'
  <2>1. CASE BindTree(t)
    <3>1. nodes' = Append(nodes, "tree") BY <2>1 DEF BindTree, AddSandboxTable
    <3>2. \A i \in 1..Len(nodes) : nodes'[i] = nodes[i] BY <1>0, <3>1, PushNode
    <3>3. QED BY <1>1, <1>3, <2>1, <3>2 DEF BindTree
  <2>2. CASE SetIngressStart(t) BY <1>1, <1>3, <2>2 DEF SetIngressStart
  <2>3. CASE SetInputPortNextNode(t)
    BY <1>1, <1>b, <2>3 DEF SetInputPortNextNode, IngressLoop
  <2>4. CASE BindTreeEntry(t)
    BY <1>1, <1>3, <1>b, <2>4 DEF BindTreeEntry
  <2>5. QED BY <1>4, <2>1, <2>2, <2>3, <2>4 DEF Bind
<1>5. ASSUME NEW t \in Threads, AddEtherEncapNode(t) PROVE EncapInv'
  <2> DEFINE k == Len(nodes) + 1
  <2>1. /\ nodes' = Append(nodes, "encap") /\ pc' = [pc EXCEPT ![t] = "route"]
        /\ encap' = [encap EXCEPT ![t] = k] /\ routes' = routes
    BY <1>5 DEF AddEtherEncapNode, Goto
  <2>2. /\ Len(nodes) \in Nat /\ nodes'[k] = "encap" /\ k \notin 1..Len(nodes)
        /\ \A i \in 1..Len(nodes) : nodes'[i] = nodes[i]
    BY <1>0, <2>1, PushNode
  <2>3. RouteOwnsEncap' BY <1>r, <2>1, <2>2 DEF EncapInv, RouteOwnsEncap
  <2>4. /\ encap'[t] = k
        /\ \A u \in Threads : u # t => encap'[u] = encap[u] /\ pc'[u] = pc[u]
    BY <1>0, <2>1 DEF AftTypeOK
  <2> HIDE DEF k
  <2>5. EncapPrivate'
    <3>1. SUFFICES ASSUME NEW u \in Threads, pc'[u] = "route"
                   PROVE  /\ nodes'[encap'[u]] = "encap"
                          /\ \A r \in routes' : r.target # encap'[u]
                          /\ \A v \in Threads : v # u /\ pc'[v] = "route" => encap'[v] # encap'[u]
      BY DEF EncapPrivate
    <3>2. \A v \in Threads : v # t /\ pc'[v] = "route" => pc[v] = "route" /\ encap[v] \in 1..Len(nodes)
      BY <1>0, <2>4 DEF HasEncap
    <3>3. CASE u = t
      <4>1. encap'[u] = k /\ nodes'[k] = "encap" BY <2>2, <2>4, <3>3
      <4>2. \A r \in routes' : r.target # k BY <1>r, <2>1, <2>2
      <4>3. \A v \in Threads : v # u /\ pc'[v] = "route" => encap'[v] # k
        BY <2>2, <2>4, <3>2, <3>3
      <4>4. QED BY <4>1, <4>2, <4>3
    <3>4. CASE u # t BY <2>1, <2>2, <2>4, <3>1, <3>2, <3>4 DEF EncapInv, EncapPrivate
    <3>5. QED BY <3>3, <3>4
  <2>6. QED BY <2>3, <2>5 DEF EncapInv
<1>6. ASSUME NEW t \in Threads, AddRoute(t) PROVE EncapInv'
  <2> DEFINE r == [table |-> table[t], key |-> heap[obj[t]].key, plen |-> HostPrefixLength,
                   target |-> encap[t]]
  <2>1. pc[t] = "route" /\ routes' = routes \cup {r} /\ BindDone(t) /\ UNCHANGED <<nodes, encap>>
    BY <1>6 DEF AddRoute
  <2>2. r.target = encap[t] OBVIOUS
  <2> HIDE DEF r
  <2>3. RouteOwnsEncap' BY <2>1, <2>2 DEF EncapInv, RouteOwnsEncap, EncapPrivate
  <2>4. EncapPrivate' BY <1>b, <2>1, <2>2 DEF EncapInv, EncapPrivate
  <2>5. QED BY <2>3, <2>4 DEF EncapInv
<1>7. ASSUME UNCHANGED vars PROVE EncapInv'
  BY <1>1, <1>7 DEF vars, coreVars, aftVars
<1>8. QED BY <1>2, <1>4, <1>5, <1>6, <1>7 DEF Next, Step, Halted

\* Each route leads to an encap node of its own: whatever threads run between
\* addEtherEncapNode and addRoute, no two routes share or mix up a node.
THEOREM EncapsOwned == Spec => []RouteOwnsEncap
<1>1. Init => EncapInv
  BY DEF Init, CoreInit, EncapInv, RouteOwnsEncap, EncapPrivate
<1>2. TypeInv /\ EncapInv /\ [Next]_vars => EncapInv' BY StepEncap
<1>3. EncapInv => RouteOwnsEncap BY DEF EncapInv
<1>4. QED BY <1>1, <1>2, <1>3, TypeInvariant, PTL DEF Spec

-----------------------------------------------------------------------------
(* Which call binds which tree.                                            *)

TreeInv == (\A t \in Threads : Staged(t)) /\ TreesOwned

\* A thread that others leave alone still binds what it was to bind.
LEMMA OwnerKept ==
    ASSUME NEW u, NEW n, WillBind(u, n), pc'[u] = pc[u], obj'[u] = obj[u], stage'[u] = stage[u],
           cursor'[u] = cursor[u], objectsMap'[n] = objectsMap[n]
    PROVE  WillBind(u, n)'
BY DEF WillBind

\* Every step of the core leaves an owner to each tree that is not bound.
LEMMA CoreTrees ==
    ASSUME TypeInv, TreeInv, NEW t \in Threads, Call(t) \/ CoreStep(t), UNCHANGED aftVars
    PROVE  TreesOwned'
<1> SUFFICES ASSUME ~crashed', NEW n \in Names, objectsMap'[n] \notin {NULL, ABSENT},
                    heap'[objectsMap'[n]].type = "afi-tree", Token(objectsMap[n])' = NONE
             PROVE  \E u \in Threads : WillBind(u, n)'
  BY DEF TreesOwned, Found
<1>0. Shape /\ pc \in [Threads -> AftLabels] /\ Staged(t) BY TypeParts DEF TreeInv
<1>1. /\ ~crashed
      /\ \A u \in Threads : u # t => /\ pc'[u] = pc[u] /\ obj'[u] = obj[u]
                                     /\ stage'[u] = stage[u] /\ cursor'[u] = cursor[u]
      /\ \A i \in 1..Len(heap) : heap'[i] = heap[i]
  BY <1>0, CoreFrame
<1>2. token' = token BY DEF aftVars
<1>3. ASSUME objectsMap'[n] = objectsMap[n] PROVE \E u \in Threads : WillBind(u, n)
  <2>1. Found(n) BY <1>3 DEF Found
  <2>2. objectsMap[n] \in 1..Len(heap) BY <1>0, <2>1, FoundPointer
  <2>3. heap[objectsMap[n]].type = "afi-tree" BY <1>1, <1>3, <2>2
  <2>4. Token(objectsMap[n]) = NONE BY <1>2, <1>3 DEF Token
  <2>5. QED BY <1>1, <2>1, <2>3, <2>4 DEF TreeInv, TreesOwned
<1>4. CASE WillBind(t, n)' BY <1>4
<1>5. CASE objectsMap'[n] = objectsMap[n] /\ (WillBind(t, n) => WillBind(t, n)')
  <2>1. PICK u \in Threads : WillBind(u, n) BY <1>3, <1>5
  <2>2. CASE u = t BY <1>5, <2>1, <2>2
  <2>3. CASE u # t BY <1>1, <1>5, <2>1, <2>3, OwnerKept
  <2>4. QED BY <2>2, <2>3
<1>6. QED BY <1>0, <1>4, <1>5, CoreWillBind

\* So does every step inside bind(): a tree loses its owner when it is bound.
LEMMA BindTrees ==
    ASSUME TypeInv, TreeInv, NEW t \in Threads, Bind(t)
    PROVE  (\A u \in Threads : Staged(u)') /\ TreesOwned'
<1>0. Shape /\ pc \in [Threads -> AftLabels] /\ AftTypeOK /\ \A u \in Threads : Staged(u)
  BY TypeParts DEF TreeInv
<1>1. /\ ~crashed /\ pc[t] \notin Outside
      /\ UNCHANGED <<heap, todo, stage, obj, cursor>>
  BY BindFrame DEF callVars
<1>2. PICK label \in AftLabels :
        /\ Goto(t, label) /\ label # "addObj"
        /\ label \notin Outside \/ label = IF stage[t] THEN "bindAll" ELSE "handle"
  BY BindFrame
<1>3. pc'[t] = label /\ \A u \in Threads : u # t => pc'[u] = pc[u]
  BY <1>0, <1>2 DEF Goto
<1>4. ASSUME NEW u \in Threads PROVE Staged(u)'
  <2>1. CASE u = t BY <1>0, <1>1, <1>2, <1>3, <2>1 DEF Staged, Creatable, Outside
  <2>2. CASE u # t BY <1>0, <1>1, <1>3, <2>2 DEF Staged, Creatable
  <2>3. QED BY <2>1, <2>2
<1>5. TreesOwned'
  <2> SUFFICES ASSUME ~crashed', NEW n \in Names, objectsMap'[n] \notin {NULL, ABSENT},
                      heap'[objectsMap'[n]].type = "afi-tree", Token(objectsMap[n])' = NONE
               PROVE  \E u \in Threads : WillBind(u, n)'
    BY DEF TreesOwned, Found
  <2>1. objectsMap'[n] = objectsMap[n] /\ Found(n)
    <3>1. UNCHANGED objectsMap \/ \E m \in Names : GetAfiObject(m) BY BindFrame
    <3>2. objectsMap'[n] = objectsMap[n] BY <1>0, <3>1, LookUpMap
    <3>3. QED BY <3>2 DEF Found
  <2>2. objectsMap[n] \in 1..Len(heap) /\ heap[objectsMap[n]].type = "afi-tree"
    BY <1>0, <1>1, <2>1, FoundPointer
  <2>3. Token(objectsMap[n]) = NONE /\ (pc[t] = "bind" => obj[t] # objectsMap[n])
    <3>1. CASE BindTree(t)
      <4>1. token' = [x \in DOMAIN token \cup {obj[t]} |-> IF x = obj[t] THEN Len(nodes) + 1 ELSE token[x]]
        BY <3>1 DEF BindTree, AddSandboxTable
      <4>2. Len(nodes) \in Nat BY <1>0 DEF AftTypeOK
      <4>3. DOMAIN token' = DOMAIN token \cup {obj[t]} BY <4>1
      <4>4. obj[t] # objectsMap[n]
        <5>1. SUFFICES ASSUME obj[t] = objectsMap[n] PROVE FALSE OBVIOUS
        <5>2. objectsMap[n] \in DOMAIN token' /\ token'[objectsMap[n]] = Len(nodes) + 1
          BY <4>1, <4>3, <5>1
        <5>3. QED BY <2>1, <4>2, <5>2 DEF Token, NONE
      <4>5. objectsMap[n] \in DOMAIN token => token'[objectsMap[n]] = token[objectsMap[n]]
        BY <4>1, <4>4
      <4>6. QED BY <2>1, <4>3, <4>4, <4>5 DEF Token
    <3>2. CASE ~BindTree(t)
      <4>1. token' = token
        BY <3>2 DEF Bind, SetIngressStart, SetInputPortNextNode, IngressLoop, BindTreeEntry,
                    AddEtherEncapNode, AddRoute
      <4>2. Token(objectsMap[n]) = NONE BY <2>1, <4>1 DEF Token
      <4>3. pc[t] = "bind" => heap[obj[t]].type = "afi-tree-entry"
        BY <3>2 DEF Bind, SetIngressStart, SetInputPortNextNode, IngressLoop, BindTreeEntry,
                    Binding, AddEtherEncapNode, AddRoute
      <4>4. QED BY <2>2, <4>2, <4>3
    <3>3. QED BY <3>1, <3>2
  <2>4. PICK u \in Threads : WillBind(u, n)
    BY <1>1, <2>1, <2>2, <2>3 DEF TreeInv, TreesOwned
  <2>5. CASE u # t BY <1>1, <1>3, <2>1, <2>4, <2>5, OwnerKept
  <2>6. CASE u = t
    <3>1. stage[t] /\ n > cursor[t] BY <1>1, <2>3, <2>4, <2>6 DEF WillBind, Outside
    <3>2. pc'[t] \notin {"idle", "handle"} BY <1>2, <1>3, <3>1 DEF Outside
    <3>3. WillBind(t, n)' BY <1>1, <3>1, <3>2 DEF WillBind
    <3>4. QED BY <3>3
  <2>7. QED BY <2>5, <2>6
<1>6. QED BY <1>4, <1>5

\* When no configuration has an object of an unknown type, every tree of the
\* map has a table in the sandbox whenever no call is in progress, however
\* calls overlap: the thread that owns an unbound tree is not idle.
THEOREM TreesBound ==
    ASSUME CreatableConfigs
    PROVE  Spec => []QuietTreesBound
<1>1. Init => TreeInv
  <2>1. SUFFICES ASSUME Init PROVE TreeInv OBVIOUS
  <2>2. \A t \in Threads : Staged(t) BY <2>1 DEF Init, CoreInit, Staged
  <2>3. TreesOwned BY <2>1 DEF Init, CoreInit, TreesOwned, Found
  <2>4. QED BY <2>2, <2>3 DEF TreeInv
<1>2. TypeInv /\ TreeInv /\ [Next]_vars => TreeInv'
  <2>1. SUFFICES ASSUME TypeInv, TreeInv, [Next]_vars PROVE TreeInv' OBVIOUS
  <2>2. ASSUME NEW t \in Threads, Call(t) \/ CoreStep(t), UNCHANGED aftVars PROVE TreeInv'
    <3>1. Shape /\ pc \in [Threads -> AftLabels] BY <2>1, TypeParts
    <3>2. \A u \in Threads : Staged(u)' BY <2>1, <2>2, <3>1, CoreStaged DEF TreeInv
    <3>3. TreesOwned' BY <2>1, <2>2, CoreTrees
    <3>4. QED BY <3>2, <3>3 DEF TreeInv
  <2>3. ASSUME NEW t \in Threads, Bind(t) PROVE TreeInv' BY <2>1, <2>3, BindTrees DEF TreeInv
  <2>4. CASE UNCHANGED vars
    <3>1. /\ UNCHANGED <<heap, objectsMap, pc, todo, stage, obj, cursor, crashed>>
          /\ UNCHANGED token
      BY <2>4 DEF vars, coreVars, aftVars
    <3>2. QED BY <2>1, <3>1 DEF TreeInv, Staged, Creatable, TreesOwned, Found, Token, WillBind
  <2>5. QED BY <2>1, <2>2, <2>3, <2>4 DEF Next, Step, Halted
<1>3. TypeInv /\ TreeInv => QuietTreesBound
  BY DEF TreeInv, TreesOwned, QuietTreesBound, Quiet, WillBind
<1>4. QED BY <1>1, <1>2, <1>3, TypeInvariant, PTL DEF Spec

-----------------------------------------------------------------------------
(* Ingress.                                                                *)

\* A port or token that is the newest table stays so while no table is added.
LEMMA LatestKept ==
    ASSUME Tables' = Tables, NEW x
    PROVE  IsLatest(x) <=> IsLatest(x)'
BY DEF IsLatest

\* With one server thread, all input ports point to the newest table whenever
\* no call is in progress.
THEOREM IngressLatest ==
    ASSUME NEW t, Threads = {t}
    PROVE  Spec => []IngressIsLatest
<1>0. t \in Threads OBVIOUS
<1>1. Init => LatestAt(t)
  <2>1. SUFFICES ASSUME Init PROVE LatestAt(t) OBVIOUS
  <2>2. Tables = {} /\ pc[t] = "idle" BY <1>0, <2>1 DEF Init, CoreInit, Tables
  <2>3. QED BY <2>2 DEF LatestAt
<1>2. TypeInv /\ LatestAt(t) /\ [Next]_vars => LatestAt(t)'
  <2> SUFFICES ASSUME TypeInv, LatestAt(t), [Next]_vars PROVE LatestAt(t)' OBVIOUS
  <2>0. AftTypeOK /\ Shape /\ pc \in [Threads -> AftLabels] BY TypeParts
  <2>1. ASSUME Tables' = Tables, UNCHANGED ports, pc[t] \notin {"ingress", "ports"},
               pc'[t] \notin {"ingress", "ports"}
        PROVE  LatestAt(t)'
    BY <2>1, LatestKept DEF LatestAt
  <2>2. UNCHANGED nodes => Tables' = Tables BY DEF Tables
  <2>3. ASSUME Call(t) \/ CoreStep(t), UNCHANGED aftVars PROVE LatestAt(t)'
    <3>1. pc[t] \in Outside /\ pc'[t] \in CoreLabels BY <1>0, <2>0, <2>3, CoreFrame
    <3>2. UNCHANGED <<nodes, ports>> BY <2>3 DEF aftVars, sandboxVars
    <3>3. QED BY <2>1, <2>2, <3>1, <3>2 DEF Outside, CoreLabels
  <2>b. BindDone(t) => pc'[t] \in {"bindAll", "handle"} BY <1>0, <2>0 DEF BindDone, Goto
  <2> USE DEF sandboxVars, localVars
  <2>4. CASE BindTree(t)
    <3> DEFINE k == Len(nodes) + 1
    <3>1. /\ nodes' = Append(nodes, "tree") /\ pc'[t] = "ingress" /\ obj' = obj
          /\ token' = [x \in DOMAIN token \cup {obj[t]} |-> IF x = obj[t] THEN k ELSE token[x]]
      BY <1>0, <2>0, <2>4 DEF BindTree, AddSandboxTable, Goto, callVars
    <3>2. Token(obj[t])' = k
      <4>1. obj[t] \in DOMAIN token' /\ token'[obj[t]] = k BY <3>1
      <4>2. QED BY <3>1, <4>1 DEF Token
    <3>3. Len(nodes) \in Nat /\ Len(nodes') = k /\ nodes'[k] = "tree" BY <2>0, <3>1, PushNode
    <3>4. IsLatest(Token(obj[t]))' BY <3>2, <3>3 DEF IsLatest, Tables
    <3>5. QED BY <3>1, <3>4 DEF LatestAt
  <2>5. CASE SetIngressStart(t)
    <3>1. /\ pc[t] = "ingress" /\ pc'[t] = "ports" /\ UNCHANGED <<nodes, ports>>
          /\ table'[t] = Token(obj[t]) /\ port'[t] = 1
      BY <1>0, <2>0, <2>5 DEF SetIngressStart, Goto, AftTypeOK
    <3>2. IsLatest(Token(obj[t])) BY <3>1 DEF LatestAt
    <3>3. Tables' = Tables BY <2>2, <3>1
    <3>4. IsLatest(table[t])' BY <3>1, <3>2, <3>3 DEF IsLatest
    <3>5. \A p \in Ports : ~(p < port'[t]) BY <3>1, NumPortsAssumption DEF Ports
    <3>6. QED BY <3>1, <3>4, <3>5 DEF LatestAt
  <2>6. CASE SetInputPortNextNode(t)
    <3>1. /\ pc[t] = "ports" /\ ports' = [ports EXCEPT ![port[t]] = table[t]]
          /\ UNCHANGED <<nodes, table>>
          /\ \/ port[t] = NumPorts /\ BindDone(t)
             \/ port' = [port EXCEPT ![t] = port[t] + 1] /\ UNCHANGED pc
      BY <2>6 DEF SetInputPortNextNode, IngressLoop
    <3>2. IsLatest(table[t]) /\ \A p \in Ports : p < port[t] => ports[p] = table[t]
      BY <3>1 DEF LatestAt
    <3>3. Tables' = Tables BY <2>2, <3>1
    <3>4. port[t] \in Ports /\ ports \in [Ports -> 0..Len(nodes)] /\ port \in [Threads -> Ports]
      BY <1>0, <2>0 DEF AftTypeOK
    <3>5. \A p \in Ports : p < port[t] + 1 => ports'[p] = table[t]
      <4>1. TAKE p \in Ports
      <4>2. p \in Nat /\ port[t] \in Nat BY <3>4, NumPortsAssumption DEF Ports
      <4>3. CASE p = port[t] BY <3>1, <3>4, <4>3
      <4>4. CASE p # port[t] BY <3>1, <3>2, <3>4, <4>2, <4>4
      <4>5. QED BY <4>3, <4>4
    <3>6. IsLatest(table[t])' BY <3>1, <3>2, <3>3 DEF IsLatest
    <3>7. CASE port' = [port EXCEPT ![t] = port[t] + 1] /\ UNCHANGED pc
      <4>1. port'[t] = port[t] + 1 BY <1>0, <3>4, <3>7
      <4>2. QED BY <3>1, <3>5, <3>6, <3>7, <4>1 DEF LatestAt
    <3>8. CASE port[t] = NumPorts /\ BindDone(t)
      <4>1. \A p \in Ports : p < port[t] + 1 BY <3>8, NumPortsAssumption DEF Ports
      <4>2. \A p \in Ports : ports'[p] = table[t] BY <3>5, <4>1
      <4>3. \A p \in Ports : IsLatest(ports[p])' BY <3>1, <3>6, <4>2 DEF IsLatest
      <4>4. QED BY <2>b, <3>8, <4>3 DEF LatestAt
    <3>9. QED BY <3>1, <3>7, <3>8
  <2>7. CASE BindTreeEntry(t)
    <3>1. pc[t] = "bind" /\ UNCHANGED <<nodes, ports>> /\ (Goto(t, "encap") \/ BindDone(t))
      BY <2>7 DEF BindTreeEntry, Binding
    <3>2. pc'[t] \notin {"ingress", "ports"} BY <1>0, <2>0, <2>b, <3>1 DEF Goto
    <3>3. QED BY <2>1, <2>2, <3>1, <3>2
  <2>8. CASE AddEtherEncapNode(t)
    <3>1. /\ pc[t] = "encap" /\ pc'[t] = "route" /\ UNCHANGED ports
          /\ nodes' = Append(nodes, "encap")
      BY <1>0, <2>0, <2>8 DEF AddEtherEncapNode, Goto
    <3>2. Tables' = Tables
      <4>1. /\ Len(nodes) \in Nat /\ Len(nodes') = Len(nodes) + 1
            /\ nodes'[Len(nodes) + 1] = "encap" /\ \A i \in 1..Len(nodes) : nodes'[i] = nodes[i]
        BY <2>0, <3>1, PushNode
      <4>2. QED BY <4>1 DEF Tables
    <3>3. QED BY <2>1, <3>1, <3>2
  <2>9. CASE AddRoute(t)
    <3>1. pc[t] = "route" /\ UNCHANGED <<nodes, ports>> /\ BindDone(t) BY <2>9 DEF AddRoute
    <3>2. QED BY <2>1, <2>2, <2>b, <3>1
  <2>10. CASE UNCHANGED vars
    <3>1. UNCHANGED <<nodes, ports, pc, table, port, token, obj>>
      BY <2>10 DEF vars, coreVars, aftVars
    <3>2. QED BY <3>1 DEF LatestAt, IsLatest, Tables, Token
  <2>11. QED BY <2>3, <2>4, <2>5, <2>6, <2>7, <2>8, <2>9, <2>10 DEF Next, Step, Bind, Halted
<1>3. LatestAt(t) => IngressIsLatest
  BY <1>0 DEF LatestAt, IngressIsLatest, Quiet, IsLatest
<1>4. QED BY <1>1, <1>2, <1>3, TypeInvariant, PTL DEF Spec
=============================================================================
