----------------------------- MODULE MCAftTarget -----------------------------
(***************************************************************************)
(* Instances of AftTarget.  Object names are numbered in the order of      *)
(* std::map: 1 is "entry1", 2 "ipv4_lpm", 3 a second table.                *)
(***************************************************************************)
EXTENDS AftTarget, TLC

Tree(n) == TreeResource(n)
Entry(n, p, k) ==
    [type |-> "afi-tree-entry", name |-> n, refs |-> <<p>>, key |-> k, plen |-> 24]
Unknown(n) == [Tree(n) EXCEPT !.type = "other"]

MCCreators == {"afi-tree", "afi-tree-entry"}

\* A configuration with an object for every name a call looks up.
MCComplete == {[tables |-> {2}, actions |-> {10}, objects |-> <<Tree(2), Tree(3)>>]}

\* A configuration with a static entry, one that fails after its first object,
\* and one with a table that has no object.
MCPartial ==
    {[tables |-> {2}, actions |-> {10}, objects |-> <<Tree(2), Entry(3, 2, 7)>>],
     [tables |-> {2}, actions |-> {10}, objects |-> <<Tree(2), Unknown(3)>>],
     [tables |-> {2, 3}, actions |-> {10}, objects |-> <<Tree(2)>>]}

\* The P4Info of a push with device data that is not JSON.
MCUnparsed == {[tables |-> {2, 3}, actions |-> {10}]}

\* A configuration with the routing table alone.
MCOneTable == {[tables |-> {2}, actions |-> {10}, objects |-> <<Tree(2)>>]}

Insert(n, lpms, a) == [table |-> n, lpms |-> lpms, action |-> a, key |-> 0, valid |-> TRUE]

\* One entry of the routing table with a known action.
MCWrites == {Insert(2, <<[key |-> 5, plen |-> 24]>>, 10)}

\* Also two fields in one entry, an entry without an action of type kAction,
\* and an entry of the second table.
MCMoreWrites ==
    MCWrites \cup {Insert(2, <<[key |-> 5, plen |-> 24], [key |-> 6, plen |-> 8]>>, NULL),
                   Insert(3, <<>>, 10)}
=============================================================================
