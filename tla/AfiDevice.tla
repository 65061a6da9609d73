------------------------------ MODULE AfiDevice ------------------------------
(***************************************************************************)
(* The AFI layer of JP4Agent and the calls that drive it: the P4Runtime    *)
(* RPCs SetForwardingPipelineConfig and Write and the CLI's SendCmd, each  *)
(* on a thread of a gRPC server, all working without a lock on P4Info and  *)
(* on AfiDevice::_objectsMap.                                              *)
(*                                                                         *)
(* A thread takes one step per access to the object map.  What bind() does *)
(* to the hardware belongs to a target: a thread at "bind" is moved on by  *)
(* the module of the target, which ends with BindDone.                     *)
(***************************************************************************)
EXTENDS Naturals, Sequences, FiniteSets

CONSTANTS
    Threads,       \* the server threads
    Names,         \* object names, as numbers in the order of std::map
    EntryName,     \* "entry1", the name addEntry gives to every entry
    LpmName,       \* "ipv4_lpm", the parent it names; also table 33581985
    Creators,      \* the object types the device has a creator for
    Configs,       \* the pipeline configurations controllers push
    Unparsed,      \* the P4Info of those whose device data is not JSON
    Writes,        \* the table entries they insert
    CliTables,     \* the names the CLI adds tables under
    ShowAllowed,   \* whether the CLI may list the objects
    Actions,       \* P4 action ids
    NULL,          \* nullptr
    ABSENT,        \* a name that _objectsMap has no entry for
    MaxCalls       \* bound: calls the agent serves

Types == {"afi-tree", "afi-tree-entry", "afi-cap", "afi-cap-match", "afi-cap-action",
          "afi-cap-entry", "afi-cap-entry-match", "afi-cap-entry-action", "other"}
\* The objects that bind() looks up, by type: what it casts each of them to.
RefTypes == [type \in Types |->
    CASE type = "afi-tree-entry" -> <<"afi-tree">>
      [] type = "afi-cap" -> <<"afi-cap-match", "afi-cap-action">>
      [] type = "afi-cap-entry" -> <<"afi-cap", "afi-cap-entry-match", "afi-cap-entry-action">>
      [] OTHER -> <<>>]
\* A JSON object: refs are the names its bind() looks up, in order; key stands
\* for what it holds: a prefix, a group id, match fields, action parameters.
Resource == [type : Types, name : Names, refs : Seq(Names), key : Nat, plen : Nat]
Config == [tables : SUBSET Names, actions : SUBSET Actions, objects : Seq(Resource)]
Info == [tables : SUBSET Names, actions : SUBSET Actions]
LpmField == [key : Nat, plen : Nat]
\* An entry to insert: its LPM fields, and what afiAddObjEntry is given.  key
\* stands for its match fields and parameters, valid says whether the table
\* and the action know them all.
TableInsert == [table : Names, lpms : Seq(LpmField), action : Actions \cup {NULL},
                key : Nat, valid : BOOLEAN]
\* The names of the objects an entry of table n is made of: n_entry_1233457,
\* n_entry_action_1233459, n_entry_match_1233458, in the order of std::map.
EntryOf(n) == n + 1
ActionOf(n) == n + 2
MatchOf(n) == n + 3

ASSUME NamesAssumption ==
    Names \subseteq Nat \ {0} /\ {EntryName, LpmName} \cup CliTables \subseteq Names
ASSUME NullsAssumption ==
    NULL \notin Nat /\ ABSENT \notin Nat /\ NULL # ABSENT /\ NULL \notin Actions
ASSUME CreatorsAssumption ==
    {"afi-tree", "afi-tree-entry"} \subseteq Creators /\ "other" \notin Creators
ResourceOK(r) ==
    /\ r \in Resource
    /\ Len(r.refs) = Len(RefTypes[r.type])
    /\ r.type = "afi-cap" => {EntryOf(r.name), ActionOf(r.name), MatchOf(r.name)} \subseteq Names
ASSUME ConfigsAssumption ==
    \A c \in Configs : c \in Config /\ \A i \in 1..Len(c.objects) : ResourceOK(c.objects[i])
ASSUME UnparsedAssumption == \A c \in Unparsed : c \in Info
ASSUME WritesAssumption == \A w \in Writes : w \in TableInsert
ASSUME CallsAssumption == MaxCalls \in Nat /\ ShowAllowed \in BOOLEAN

VARIABLES
    heap,          \* every object created, in order: a pointer is an index
    objectsMap,    \* AfiDevice::_objectsMap
    tables,        \* the tables P4Info knows
    actions,       \* the actions P4Info knows
    pc,            \* where each thread is
    todo,          \* the resources it has still to handle
    stage,         \* pipelineStage of the objects it handles
    obj,           \* the object it is binding
    cursor,        \* the last name bindAfiObjects has visited
    pending,       \* the afiAddObjEntry call a Write ends with
    crashed,       \* a null object was dereferenced, or an exception not caught
    calls          \* how many calls were accepted

p4Vars == <<tables, actions>>
mapVars == <<heap, objectsMap>>
callVars == <<todo, stage, obj, cursor, pending>>
coreVars == <<heap, objectsMap, tables, actions, pc, todo, stage, obj, cursor,
              pending, crashed, calls>>

CoreInit ==
    /\ heap = <<>>
    /\ objectsMap = [n \in Names |-> ABSENT]
    /\ tables = {}
    /\ actions = {}
    /\ pc = [t \in Threads |-> "idle"]
    /\ todo = [t \in Threads |-> <<>>]
    /\ stage = [t \in Threads |-> FALSE]
    /\ obj = [t \in Threads |-> 0]
    /\ cursor = [t \in Threads |-> 0]
    /\ pending = [t \in Threads |-> NULL]
    /\ crashed = FALSE
    /\ calls = 0

-----------------------------------------------------------------------------
(* The object map.                                                         *)

Found(n) == objectsMap[n] \notin {NULL, ABSENT}

\* getAfiObject reads _objectsMap[n], which adds a null entry when n has none.
GetAfiObject(n) ==
    objectsMap' = IF Found(n) THEN objectsMap ELSE [objectsMap EXCEPT ![n] = NULL]

\* A bug to compare with: an insertion that keeps an entry the name has.
InsertToObjectMapEmplace(n, o) ==
    objectsMap' = IF objectsMap[n] = ABSENT THEN [objectsMap EXCEPT ![n] = o] ELSE objectsMap

InsertToObjectMap(n, o) == objectsMap' = [objectsMap EXCEPT ![n] = o]

Goto(t, label) == pc' = [pc EXCEPT ![t] = label]

-----------------------------------------------------------------------------
(* The calls.                                                              *)

TreeResource(n) ==
    [type |-> "afi-tree", name |-> n, refs |-> <<>>, key |-> 0, plen |-> 0]
\* Every entry added outside a pipeline configuration has the same name.
EntryResource(f) ==
    [type |-> "afi-tree-entry", name |-> EntryName, refs |-> <<LpmName>>,
     key |-> f.key, plen |-> f.plen]

\* A bug to compare with: the entry comes before the objects it names.
CapChildrenEntryFirst(n, key) ==
    <<[type |-> "afi-cap-entry", name |-> EntryOf(n),
       refs |-> <<n, MatchOf(n), ActionOf(n)>>, key |-> key, plen |-> 0],
      [type |-> "afi-cap-entry-match", name |-> MatchOf(n), refs |-> <<>>,
       key |-> key, plen |-> 0],
      [type |-> "afi-cap-entry-action", name |-> ActionOf(n), refs |-> <<>>,
       key |-> key, plen |-> 0]>>

\* AfiCap::createChildJsonRes for an entry of the table named n: the match set,
\* the action set, and the entry that names them.
CapChildren(n, key) ==
    <<[type |-> "afi-cap-entry-match", name |-> MatchOf(n), refs |-> <<>>,
       key |-> key, plen |-> 0],
      [type |-> "afi-cap-entry-action", name |-> ActionOf(n), refs |-> <<>>,
       key |-> key, plen |-> 0],
      [type |-> "afi-cap-entry", name |-> EntryOf(n),
       refs |-> <<n, MatchOf(n), ActionOf(n)>>, key |-> key, plen |-> 0]>>

\* Thread t accepts a call that handles the resources rs.
Accept(t, rs, pipeline, then) ==
    /\ ~crashed
    /\ pc[t] = "idle"
    /\ calls < MaxCalls
    /\ calls' = calls + 1
    /\ todo' = [todo EXCEPT ![t] = rs]
    /\ stage' = [stage EXCEPT ![t] = pipeline]
    /\ pending' = [pending EXCEPT ![t] = then]
    /\ Goto(t, "handle")
    /\ UNCHANGED <<mapVars, obj, cursor, crashed>>

\* Thread t accepts a call that touches no object of the map.
ServeAtOnce(t) ==
    /\ ~crashed
    /\ pc[t] = "idle"
    /\ calls < MaxCalls
    /\ calls' = calls + 1
    /\ UNCHANGED <<mapVars, pc, callVars>>

\* The actions and tables of a configuration are added to what P4Info knows,
\* which is never cleared.
AddP4Info(c) ==
    /\ actions' = actions \cup c.actions
    /\ tables' = tables \cup c.tables

\* P4Info, then Afi::handlePipelineConfig, whose result is ignored.
SetForwardingPipelineConfig(t, c) ==
    Accept(t, c.objects, TRUE, NULL) /\ AddP4Info(c)

\* Device data that is not JSON: the >> throws, nothing catches it, and the
\* process ends.
UnparsedConfig(t, c) ==
    ServeAtOnce(t) /\ AddP4Info(c) /\ crashed' = TRUE

\* The match loop of tableInsert: each LPM field of table 33581985 becomes an
\* addEntry at once; the other fields go to afiAddObjEntry.
LpmEntries(w) ==
    IF w.table = LpmName
    THEN [i \in 1..Len(w.lpms) |-> EntryResource(w.lpms[i])]
    ELSE <<>>

\* actionId is uninitialised for an action that is not of type kAction: any
\* id, known or not.
ActionIds(w) == IF w.action = NULL THEN Actions \cup {NULL} ELSE {w.action}

\* One update of a Write, of type INSERT and with no default action: every
\* other update changes nothing.  The updates of a request follow each other
\* like calls, whatever their results.
Write(t, w) ==
    \E a \in ActionIds(w) :
        /\ Accept(t, LpmEntries(w), FALSE,
                  [table |-> w.table, action |-> a, key |-> w.key, valid |-> w.valid])
        /\ UNCHANGED p4Vars

\* SendCmd "add-table-entry" ignores the table it names.
AddTableEntry(t, f) ==
    Accept(t, <<EntryResource(f)>>, FALSE, NULL) /\ UNCHANGED p4Vars

\* SendCmd "add-table": Afi::addAfiTree.
AddTable(t, n) ==
    Accept(t, <<TreeResource(n)>>, FALSE, NULL) /\ UNCHANGED p4Vars

\* SendCmd "show-afi-objects" dereferences every entry of the map.
ShowAfiObjects(t) ==
    /\ ShowAllowed
    /\ ServeAtOnce(t)
    /\ crashed' = (\E n \in Names : objectsMap[n] = NULL)
    /\ UNCHANGED p4Vars

Call(t) ==
    \/ \E c \in Configs : SetForwardingPipelineConfig(t, c)
    \/ \E c \in Unparsed : UnparsedConfig(t, c)
    \/ \E w \in Writes : Write(t, w)
    \/ \E w \in Writes : \E i \in 1..Len(w.lpms) : AddTableEntry(t, w.lpms[i])
    \/ \E n \in CliTables : AddTable(t, n)
    \/ ShowAfiObjects(t)

-----------------------------------------------------------------------------
(* Handling one resource, and binding.                                     *)

\* Afi::handleAfiJsonObject and AfiDevice::handleDMObject for the next
\* resource: outside a pipeline configuration its object is bound at once.
HandleObject(t) ==
    /\ ~crashed
    /\ pc[t] = "handle"
    /\ todo[t] # <<>>
    /\ LET res == Head(todo[t]) IN
       /\ res.type \in Creators
       /\ heap' = Append(heap, res)
       /\ InsertToObjectMap(res.name, Len(heap) + 1)
       /\ todo' = [todo EXCEPT ![t] = Tail(@)]
       /\ IF stage[t]
          THEN UNCHANGED <<obj, pc>>
          ELSE obj' = [obj EXCEPT ![t] = Len(heap) + 1] /\ Goto(t, "bind")
    /\ UNCHANGED <<p4Vars, stage, cursor, pending, crashed, calls>>

\* A bug to compare with: the object is inserted before it is checked.
RejectObjectLate(t) ==
    /\ ~crashed
    /\ pc[t] = "handle"
    /\ todo[t] # <<>>
    /\ Head(todo[t]).type \notin Creators
    /\ InsertToObjectMap(Head(todo[t]).name, NULL)
    /\ todo' = [todo EXCEPT ![t] = <<>>]
    /\ Goto(t, "idle")
    /\ UNCHANGED <<heap, p4Vars, stage, obj, cursor, pending, crashed, calls>>

\* A resource of an unknown type ends handlePipelineConfig, and with it the
\* call: nothing is bound, and what was inserted before stays in the map.
\* Only a configuration holds such resources.
RejectObject(t) ==
    /\ ~crashed
    /\ pc[t] = "handle"
    /\ todo[t] # <<>>
    /\ Head(todo[t]).type \notin Creators
    /\ todo' = [todo EXCEPT ![t] = <<>>]
    /\ Goto(t, "idle")
    /\ UNCHANGED <<mapVars, p4Vars, stage, obj, cursor, pending, crashed, calls>>

\* All resources are handled: a pipeline configuration goes on to bind every
\* object of the map, a Write to afiAddObjEntry.
HandleDone(t) ==
    /\ ~crashed
    /\ pc[t] = "handle"
    /\ todo[t] = <<>>
    /\ cursor' = [cursor EXCEPT ![t] = 0]
    /\ Goto(t, IF stage[t] THEN "bindAll" ELSE IF pending[t] # NULL THEN "addObj" ELSE "idle")
    /\ UNCHANGED <<mapVars, p4Vars, todo, stage, obj, pending, crashed, calls>>

\* A bug to compare with: the loop skips the name after each one it visits.
AheadSkips(t) == {n \in Names : n > cursor[t] + 1 /\ objectsMap[n] # ABSENT}

\* The names bindAfiObjects has not visited.
Ahead(t) == {n \in Names : n > cursor[t] /\ objectsMap[n] # ABSENT}

\* One turn of the loop of bindAfiObjects, in the order of the names.
BindNext(t) ==
    /\ ~crashed
    /\ pc[t] = "bindAll"
    /\ \E n \in Ahead(t) :
        /\ \A m \in Ahead(t) : n <= m
        /\ crashed' = (objectsMap[n] = NULL)
        /\ obj' = IF objectsMap[n] = NULL THEN obj ELSE [obj EXCEPT ![t] = objectsMap[n]]
        /\ cursor' = [cursor EXCEPT ![t] = n]
        /\ Goto(t, "bind")
    /\ UNCHANGED <<mapVars, p4Vars, todo, stage, pending, calls>>

BindAllDone(t) ==
    /\ ~crashed
    /\ pc[t] = "bindAll"
    /\ Ahead(t) = {}
    /\ Goto(t, "idle")
    /\ UNCHANGED <<mapVars, p4Vars, callVars, crashed, calls>>

\* bind() returns to handleDMObject or to bindAfiObjects, always with true.
BindDone(t) == Goto(t, IF stage[t] THEN "bindAll" ELSE "handle")

\* Afi::afiAddObjEntry: a table, action or object that is not there ends it.
\* An afi-cap creates the objects of the entry, which are handled one by one;
\* createChildJsonRes of other objects is AfiObject's, and returns false.
AfiAddObjEntry(t) ==
    /\ ~crashed
    /\ pc[t] = "addObj"
    /\ LET e == pending[t]
           known == e.table \in tables /\ e.action \in actions
       IN
       /\ IF known THEN GetAfiObject(e.table) ELSE UNCHANGED objectsMap
       /\ IF /\ known /\ Found(e.table) /\ heap[objectsMap[e.table]].type = "afi-cap"
             /\ e.valid
          THEN todo' = [todo EXCEPT ![t] = CapChildren(e.table, e.key)] /\ Goto(t, "handle")
          ELSE UNCHANGED todo /\ Goto(t, "idle")
    /\ pending' = [pending EXCEPT ![t] = NULL]
    /\ UNCHANGED <<heap, p4Vars, stage, obj, cursor, crashed, calls>>

CoreStep(t) ==
    \/ HandleObject(t) \/ RejectObject(t) \/ HandleDone(t)
    \/ BindNext(t) \/ BindAllDone(t)
    \/ AfiAddObjEntry(t)

-----------------------------------------------------------------------------
Pending == [table : Names, action : Actions \cup {NULL}, key : Nat, valid : BOOLEAN]

CoreTypeOK ==
    /\ heap \in Seq(Resource)
    /\ objectsMap \in [Names -> (1..Len(heap)) \cup {NULL, ABSENT}]
    /\ tables \subseteq Names
    /\ actions \subseteq Actions
    /\ todo \in [Threads -> Seq(Resource)]
    /\ stage \in [Threads -> BOOLEAN]
    /\ obj \in [Threads -> 0..Len(heap)]
    /\ cursor \in [Threads -> Nat]
    /\ pending \in [Threads -> Pending \cup {NULL}]
    /\ crashed \in BOOLEAN
    /\ calls \in 0..MaxCalls
    /\ \A t \in Threads : pc[t] = "addObj" => pending[t] # NULL

\* The names some call may look up in the map.
Lookups ==
    {LpmName}
      \cup (UNION {c.tables : c \in Configs})
      \cup (UNION {UNION {{c.objects[i].refs[j] : j \in 1..Len(c.objects[i].refs)} :
                             i \in 1..Len(c.objects)} : c \in Configs})

\* Every configuration is JSON, with an object the device can create for each of
\* them.
CompleteConfigs ==
    /\ Unparsed = {}
    /\ \A c \in Configs :
        /\ \A i \in 1..Len(c.objects) : c.objects[i].type \in Creators
        /\ Lookups \subseteq {c.objects[i].name : i \in 1..Len(c.objects)}
=============================================================================
