----------------------------- MODULE MCBrcmTarget -----------------------------
(***************************************************************************)
(* Instances of BrcmTarget.  Object names are numbered in the order of     *)
(* std::map: 1 is a cap, 2 to 4 the objects of its entries, 5 and 6 the    *)
(* action and match sets of the cap, 7 "entry1", 8 "ipv4_lpm".             *)
(***************************************************************************)
EXTENDS BrcmTarget

Object(type, n, refs, key) ==
    [type |-> type, name |-> n, refs |-> refs, key |-> key, plen |-> 0]

MCCreators == Types \ {"other"}

\* The cap of group g, its sets, and the routing table.
Pipeline(g) ==
    [tables |-> {1, 8}, actions |-> {10},
     objects |-> <<Object("afi-cap", 1, <<6, 5>>, g), Object("afi-cap-match", 6, <<>>, 0),
                   Object("afi-cap-action", 5, <<>>, 0), TreeResource(8)>>]
MCConfigs == {Pipeline(1), Pipeline(2)}
MCOneConfig == {Pipeline(1)}

Insert(n, lpms, key, valid) ==
    [table |-> n, lpms |-> lpms, action |-> 10, key |-> key, valid |-> valid]

\* Two entries of the cap, one with a field the table does not have, and
\* routes to an address the target knows and to one it does not.
MCWrites ==
    {Insert(1, <<>>, 21, TRUE), Insert(1, <<>>, 22, TRUE), Insert(1, <<>>, 23, FALSE),
     Insert(8, <<[key |-> 1, plen |-> 32], [key |-> 9, plen |-> 24]>>, 0, TRUE)}
MCCapWrites == {Insert(1, <<>>, 21, TRUE), Insert(1, <<>>, 22, TRUE)}

\* The configurations above are complete, their caps name match and action
\* sets, and no name of theirs is that of an entry's object.
ASSUME ConfigsComplete == CompleteConfigs /\ NamesApart /\ TypedSets
=============================================================================
