------------------------------ MODULE BrcmTarget ------------------------------
(***************************************************************************)
(* JP4Agent on the Broadcom target: AfiDevice with BrcmCap, BrcmCapEntry   *)
(* and BrcmTreeEntry, which program field processor groups, rules and      *)
(* routes through an SDK that is external.                                 *)
(***************************************************************************)
EXTENDS AfiDevice

VARIABLES
    groups,   \* the field processor groups
    rules,    \* the rules installed, with the object they belong to
    routes,   \* the IPv4 routes
    found     \* the objects that the bind() of each thread has looked up

sdkVars == <<groups, rules, routes>>
brcmVars == <<sdkVars, found>>
vars == <<coreVars, brcmVars>>

\* The ports with an L3 interface, as BrcmDevice::create sets them up, the port
\* of the CPU, and one that stands for all others.
L3Ports == {9, 13}
CpuPort == 0
OtherPort == 7

\* The four addresses BrcmTreeEntry::_bind knows, numbered, and their ports;
\* for any other address port is uninitialised.
KnownPorts == <<9, 13, CpuPort, CpuPort>>
PortsOf(addr) ==
    IF addr \in DOMAIN KnownPorts THEN {KnownPorts[addr]} ELSE L3Ports \cup {CpuPort, OtherPort}

Init ==
    /\ CoreInit
    /\ groups = {}
    /\ rules = {}
    /\ routes = {}
    /\ found = [t \in Threads |-> <<>>]

-----------------------------------------------------------------------------
Binding(t) == ~crashed /\ pc[t] = "bind"

\* Every object that bind() needs has been looked up.
Complete(t) == Len(found[t]) = Len(heap[obj[t]].refs)

\* The next lookup of bind(): an object that is missing or of another type
\* ends it.
LookUp(t) ==
    /\ Binding(t)
    /\ ~Complete(t)
    /\ LET i == Len(found[t]) + 1
           n == heap[obj[t]].refs[i]
       IN
       /\ GetAfiObject(n)
       /\ IF Found(n) /\ heap[objectsMap[n]].type = RefTypes[heap[obj[t]].type][i]
          THEN found' = [found EXCEPT ![t] = Append(@, objectsMap[n])] /\ UNCHANGED pc
          ELSE found' = [found EXCEPT ![t] = <<>>] /\ BindDone(t)
    /\ UNCHANGED <<heap, p4Vars, callVars, crashed, calls, sdkVars>>

\* bind() of an object of type type returns, all lookups done.
Bound(t, type) ==
    /\ Binding(t)
    /\ heap[obj[t]].type = type
    /\ Complete(t)
    /\ found' = [found EXCEPT ![t] = <<>>]
    /\ BindDone(t)
    /\ UNCHANGED <<mapVars, p4Vars, callVars, crashed, calls>>

\* Trees only leave a line in a test file; match and action sets do nothing.
BindPlain(t) ==
    /\ \E type \in {"afi-tree", "afi-cap-match", "afi-cap-action", "afi-cap-entry-match",
                    "afi-cap-entry-action"} : Bound(t, type)
    /\ UNCHANGED sdkVars

\* BrcmCap::_bind ends with Fp::addGroup.
BindCap(t) ==
    /\ Bound(t, "afi-cap")
    /\ groups' = groups \cup {heap[obj[t]].key}
    /\ UNCHANGED <<rules, routes>>

\* BrcmCapEntry::_bind: a rule in the group of the cap, with the fields of the
\* match set and the parameters of the action set that it has looked up.
BindCapEntry(t) ==
    /\ Bound(t, "afi-cap-entry")
    /\ rules' = rules \cup {[entry |-> obj[t], group |-> heap[found[t][1]].key,
                             match |-> heap[found[t][2]].key,
                             action |-> heap[found[t][3]].key]}
    /\ UNCHANGED <<groups, routes>>

\* A bug to compare with: the interface of the port is not checked.
BindTreeEntryUnchecked(t) ==
    /\ Bound(t, "afi-tree-entry")
    /\ \E p \in PortsOf(heap[obj[t]].key) :
        routes' = routes \cup {[key |-> heap[obj[t]].key, plen |-> heap[obj[t]].plen,
                                port |-> p]}
    /\ UNCHANGED <<groups, rules>>

\* BrcmTreeEntry::_bind: a route to the CPU or to a port with an L3 interface;
\* without an interface there is no route.  The address is one of the 4 bytes
\* that dstAddr holds: what memcpy does with a longer or shorter prefix, and the
\* uninitialised MAC address of the next hop, are left out.
BindTreeEntry(t) ==
    /\ Bound(t, "afi-tree-entry")
    /\ \E p \in PortsOf(heap[obj[t]].key) :
        routes' = IF p \in L3Ports \cup {CpuPort}
                  THEN routes \cup {[key |-> heap[obj[t]].key, plen |-> heap[obj[t]].plen,
                                     port |-> p]}
                  ELSE routes
    /\ UNCHANGED <<groups, rules>>

Bind(t) == LookUp(t) \/ BindPlain(t) \/ BindCap(t) \/ BindCapEntry(t) \/ BindTreeEntry(t)

Step(t) == (CoreStep(t) /\ UNCHANGED brcmVars) \/ Bind(t)

\* The process is gone, or every call was served.
Halted ==
    /\ crashed \/ (calls = MaxCalls /\ \A t \in Threads : pc[t] = "idle")
    /\ UNCHANGED vars

Next ==
    \/ \E t \in Threads : (Call(t) /\ UNCHANGED brcmVars) \/ Step(t)
    \/ Halted

Spec == Init /\ [][Next]_vars

-----------------------------------------------------------------------------
\* Type correctness; routes only leave through the CPU or a port with an L3
\* interface, although BrcmTreeEntry::_bind may read port uninitialised, and a
\* thread holds looked-up objects only inside bind().
TypeOK ==
    /\ CoreTypeOK
    /\ pc \in [Threads -> {"idle", "handle", "bindAll", "addObj", "bind"}]
    /\ groups \subseteq Nat
    /\ rules \subseteq [entry : 1..Len(heap), group : Nat, match : Nat, action : Nat]
    /\ routes \subseteq [key : Nat, plen : Nat, port : L3Ports \cup {CpuPort}]
    /\ found \in [Threads -> Seq(1..Len(heap))]
    /\ ~crashed => \A t \in Threads :
          Len(found[t]) <= IF pc[t] = "bind" THEN Len(heap[obj[t]].refs) ELSE 0

\* No call dereferences a null object, although an entry written before the
\* pipeline is pushed leaves one under the name of its parent.  (Asked of
\* configurations that parse, so that nothing else ends the process.)
NoNullDeref == ~crashed

Quiet == ~crashed /\ \A t \in Threads : pc[t] = "idle"

\* A rule has the match fields and the action parameters of one table entry,
\* the one its object was made for: afiAddObjEntry puts all three objects into
\* the map under names that every entry of the table shares, and bind() looks
\* them up again.
RulePaired ==
    \A r \in rules : r.match = heap[r.entry].key /\ r.action = heap[r.entry].key

\* Rules are only installed in groups that exist: the cap of a table is bound
\* before the first entry that refers to it.
RuleHasGroup == \A r \in rules : r.group \in groups

\* When no call is in progress every cap entry ever created has its rule: each
\* of its three lookups found what afiAddObjEntry had inserted.
EntriesInstalled ==
    Quiet => \A o \in 1..Len(heap) :
        heap[o].type = "afi-cap-entry" => \E r \in rules : r.entry = o

-----------------------------------------------------------------------------
(* What is asked of the configurations for rules to be complete.           *)

EntryTypes == {"afi-cap-entry-match", "afi-cap-entry-action", "afi-cap-entry"}
EntryNames(n) == {EntryOf(n), ActionOf(n), MatchOf(n)}

\* A configuration has a cap of name n; it, addEntry or the CLI an object.
IsCap(n) ==
    \E c \in Configs : \E i \in 1..Len(c.objects) :
        c.objects[i].type = "afi-cap" /\ c.objects[i].name = n
IsOther(n) ==
    \/ n \in CliTables \cup {EntryName}
    \/ \E c \in Configs : \E i \in 1..Len(c.objects) : c.objects[i].name = n

\* Only afiAddObjEntry makes the objects of an entry, whose names nothing
\* else has: n_entry_match_1233458 of no two tables are the same.
NamesApart ==
    /\ EntryTypes \subseteq Creators
    /\ \A c \in Configs : \A i \in 1..Len(c.objects) : c.objects[i].type \notin EntryTypes
    /\ \A n \in Names : IsCap(n) => \A m \in EntryNames(n) : ~IsOther(m)
    /\ \A n, m \in Names : IsCap(n) /\ IsCap(m) /\ n # m => EntryNames(n) \cap EntryNames(m) = {}

\* The match and action sets that a cap names are sets in every configuration.
TypedSets ==
    \A c \in Configs : \A i \in 1..Len(c.objects) : c.objects[i].type = "afi-cap" =>
        \A j \in 1..Len(c.objects[i].refs) :
            LET n == c.objects[i].refs[j] IN
            /\ n \notin CliTables \cup {EntryName}
            /\ \A d \in Configs : \A k \in 1..Len(d.objects) :
                 d.objects[k].name = n => d.objects[k].type = RefTypes["afi-cap"][j]
=============================================================================
