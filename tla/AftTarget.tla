------------------------------ MODULE AftTarget ------------------------------
(***************************************************************************)
(* JP4Agent on the AFT target: AfiDevice with AftTree, AftTreeEntry and    *)
(* AftClient, which builds the forwarding graph of a sandbox.  The sandbox *)
(* is external: it hands out a new token for every node that is pushed.    *)
(***************************************************************************)
EXTENDS AfiDevice

CONSTANT NumPorts   \* inputPortTable()->maxIndex()

ASSUME NumPortsAssumption == NumPorts \in Nat \ {0}

VARIABLES
    nodes,    \* the kinds of the nodes in the sandbox: a token is an index
    ports,    \* the next node of each input port
    routes,   \* the route entries in the sandbox
    token,    \* AftTree::_token of the objects that have been bound
    tree,     \* aftTreePtr: the parent of the entry a thread is binding
    table,    \* the table a thread works on: ingressStartToken, aftTreeToken
    encap,    \* etherEncapToken
    port      \* the input port setIngressStart has reached

sandboxVars == <<nodes, ports, routes>>
localVars == <<tree, table, encap, port>>
aftVars == <<sandboxVars, token, localVars>>
vars == <<coreVars, aftVars>>

NONE == 0               \* AFT_NODE_TOKEN_NONE
HostPrefixLength == 32  \* what _bind passes for the entry's prefix_length
Ports == 1..NumPorts

\* AftTree::_token of object o; it starts as AFT_NODE_TOKEN_NONE.
Token(o) == IF o \in DOMAIN token THEN token[o] ELSE NONE

Init ==
    /\ CoreInit
    /\ nodes = <<>>
    /\ ports = [p \in Ports |-> NONE]
    /\ routes = {}
    /\ token = <<>>
    /\ tree = [t \in Threads |-> 0]
    /\ table = [t \in Threads |-> NONE]
    /\ encap = [t \in Threads |-> NONE]
    /\ port = [t \in Threads |-> 1]

-----------------------------------------------------------------------------
Binding(t, type) ==
    /\ ~crashed
    /\ pc[t] = "bind"
    /\ heap[obj[t]].type = type

\* AftClient::addTable pushes a new table to the sandbox, with the punt port
\* as its default target; its token becomes the _token of object o.
AddSandboxTable(o) ==
    /\ nodes' = Append(nodes, "tree")
    /\ token' = [x \in DOMAIN token \cup {o} |-> IF x = o THEN Len(nodes) + 1 ELSE token[x]]

\* AftTree::_bind up to the assignment of _token.
BindTree(t) ==
    /\ Binding(t, "afi-tree")
    /\ AddSandboxTable(obj[t])
    /\ Goto(t, "ingress")
    /\ UNCHANGED <<mapVars, p4Vars, callVars, crashed, calls, ports, routes, localVars>>

\* AftTree::_bind reads _token again to pass it to setIngressStart.
SetIngressStart(t) ==
    /\ ~crashed
    /\ pc[t] = "ingress"
    /\ table' = [table EXCEPT ![t] = Token(obj[t])]
    /\ port' = [port EXCEPT ![t] = 1]
    /\ Goto(t, "ports")
    /\ UNCHANGED <<mapVars, p4Vars, callVars, crashed, calls, sandboxVars, token, tree,
                   encap>>

\* One turn of the loop of setIngressStart, which calls setInputPortNextNode
\* and ends after port last or goes on with port next.
IngressLoop(t, last, next) ==
    /\ ~crashed
    /\ pc[t] = "ports"
    /\ ports' = [ports EXCEPT ![port[t]] = table[t]]
    /\ IF port[t] = last
       THEN BindDone(t) /\ UNCHANGED port
       ELSE port' = [port EXCEPT ![t] = next] /\ UNCHANGED pc
    /\ UNCHANGED <<mapVars, p4Vars, callVars, crashed, calls, nodes, routes, token,
                   tree, table, encap>>

\* Bugs to compare with: the loop ends one port late, one port early, or
\* never moves on.
SetInputPortNextNodeLate(t) == IngressLoop(t, NumPorts + 1, port[t] + 1)
SetInputPortNextNodeEarly(t) == IngressLoop(t, NumPorts - 1, port[t] + 1)
SetInputPortNextNodeStuck(t) == IngressLoop(t, NumPorts, port[t])

\* The loop of setIngressStart visits every port below maxIndex once.
SetInputPortNextNode(t) == IngressLoop(t, NumPorts, port[t] + 1)

\* AftTreeEntry::_bind up to the null check: a parent that is missing or not
\* a tree ends it.
BindTreeEntry(t) ==
    /\ Binding(t, "afi-tree-entry")
    /\ LET n == heap[obj[t]].refs[1] IN
       /\ GetAfiObject(n)
       /\ IF Found(n) /\ heap[objectsMap[n]].type = "afi-tree"
          THEN tree' = [tree EXCEPT ![t] = objectsMap[n]] /\ Goto(t, "encap")
          ELSE UNCHANGED tree /\ BindDone(t)
    /\ UNCHANGED <<heap, p4Vars, callVars, crashed, calls, sandboxVars, token, table,
                   encap, port>>

\* Reads the token of the parent and pushes an encap node for output port 1.
AddEtherEncapNode(t) ==
    /\ ~crashed
    /\ pc[t] = "encap"
    /\ table' = [table EXCEPT ![t] = Token(tree[t])]
    /\ nodes' = Append(nodes, "encap")
    /\ encap' = [encap EXCEPT ![t] = Len(nodes) + 1]
    /\ Goto(t, "route")
    /\ UNCHANGED <<mapVars, p4Vars, callVars, crashed, calls, ports, routes, token,
                   tree, port>>

\* A bug to compare with: the route takes the node that was pushed last.
AddRouteToLastNode(t) ==
    /\ ~crashed
    /\ pc[t] = "route"
    /\ routes' = routes \cup {[table |-> table[t], key |-> heap[obj[t]].key,
                               plen |-> HostPrefixLength, target |-> Len(nodes)]}
    /\ BindDone(t)
    /\ UNCHANGED <<mapVars, p4Vars, callVars, crashed, calls, nodes, ports, token,
                   localVars>>

\* Pushes the route of the entry, whatever its prefix_length as a host route.
AddRoute(t) ==
    /\ ~crashed
    /\ pc[t] = "route"
    /\ routes' = routes \cup {[table |-> table[t], key |-> heap[obj[t]].key,
                               plen |-> HostPrefixLength, target |-> encap[t]]}
    /\ BindDone(t)
    /\ UNCHANGED <<mapVars, p4Vars, callVars, crashed, calls, nodes, ports, token,
                   localVars>>

Bind(t) ==
    \/ BindTree(t) \/ SetIngressStart(t) \/ SetInputPortNextNode(t)
    \/ BindTreeEntry(t) \/ AddEtherEncapNode(t) \/ AddRoute(t)

Step(t) == (CoreStep(t) /\ UNCHANGED aftVars) \/ Bind(t)

\* The process is gone, or every call was served.
Halted ==
    /\ crashed \/ (calls = MaxCalls /\ \A t \in Threads : pc[t] = "idle")
    /\ UNCHANGED vars

Next ==
    \/ \E t \in Threads : (Call(t) /\ UNCHANGED aftVars) \/ Step(t)
    \/ Halted

Spec == Init /\ [][Next]_vars

(* The threads of the servers keep running; nobody need make a call.       *)
FairSpec == Spec /\ \A t \in Threads : WF_vars(Step(t))

-----------------------------------------------------------------------------
TypeOK ==
    /\ CoreTypeOK
    /\ pc \in [Threads -> {"idle", "handle", "bindAll", "addObj", "bind", "ingress",
                           "ports", "encap", "route"}]
    /\ nodes \in Seq({"tree", "encap"})
    /\ ports \in [Ports -> 0..Len(nodes)]
    /\ routes \subseteq [table : 0..Len(nodes), key : Nat, plen : Nat,
                         target : 1..Len(nodes)]
    /\ token \in [DOMAIN token -> 1..Len(nodes)]
    /\ DOMAIN token \subseteq 1..Len(heap)
    /\ tree \in [Threads -> 0..Len(heap)]
    /\ table \in [Threads -> 0..Len(nodes)]
    /\ encap \in [Threads -> 0..Len(nodes)]
    /\ port \in [Threads -> Ports]

\* No call dereferences a null object, neither bindAfiObjects nor the CLI's
\* show-afi-objects, although every failed lookup leaves one in the map.  (Asked
\* of configurations that parse, so that nothing else ends the process.)
NoNullDeref == ~crashed

Quiet == ~crashed /\ \A t \in Threads : pc[t] = "idle"

\* When no call is in progress every tree of the map has a table in the
\* sandbox, so that an entry added next finds its parent's token: whatever
\* pushes and CLI calls overlap, each tree is bound by the call that inserted
\* it or by one that replaced it.
QuietTreesBound ==
    Quiet => \A n \in Names :
        Found(n) /\ heap[objectsMap[n]].type = "afi-tree" => Token(objectsMap[n]) # NONE

\* Each route leads to an encap node, and no two routes to the same one:
\* AftTreeEntry::_bind calls of several threads never mix up the tokens
\* between addEtherEncapNode and addRoute.
RouteOwnsEncap ==
    /\ \A r \in routes : nodes[r.target] = "encap"
    /\ \A r, s \in routes : r.target = s.target => r = s

\* An object name that has an object never loses it again: neither a failed
\* push nor a lookup puts the null entry back.
NamesKeepObjects ==
    [][\A n \in Names : Found(n) => objectsMap'[n] \notin {NULL, ABSENT}]_vars

\* The tables in the sandbox.
Tables == {i \in 1..Len(nodes) : nodes[i] = "tree"}

\* With one call at a time, all input ports point to the table that was bound
\* last once the call has returned ("Make all input ports point to ingress
\* start node").
IngressIsLatest ==
    Quiet => \A p \in Ports : \A i \in Tables : ports[p] \in Tables /\ ports[p] >= i

\* The same promise when calls overlap: no two ports disagree when all calls
\* have returned.
IdlePortsAgree == Quiet => \A p, q \in Ports : ports[p] = ports[q]

\* Every route was added to a routing table ("rttNodeToken Routing table node
\* token"), never to AFT_NODE_TOKEN_NONE.
RouteTableExists == \A r \in routes : r.table \in Tables

\* Every call returns, unless the process died: setIngressStart reaches its
\* last port and bindAfiObjects the end of the map.
EveryCallReturns == \A t \in Threads : pc[t] # "idle" ~> (pc[t] = "idle" \/ crashed)
=============================================================================
