-------------------------- MODULE ControllerChannel --------------------------
(***************************************************************************)
(* What ControllerConnection promises its users, without threads or locks: *)
(* at most one stream is attached, an attached stream is live, packets are *)
(* written to the attached stream and to no other, and a stream that ends  *)
(* is no longer attached.  Ending one stream may detach another: the       *)
(* promise does not say which stream stays attached.                       *)
(***************************************************************************)
EXTENDS Sequences

CONSTANTS Streams, Replies, Packets, NULL

VARIABLES
    life,      \* "new", "live" or "over"
    attached,  \* the stream packets go to, or NULL
    got        \* the messages written to each stream

vars == <<life, attached, got>>

Init ==
    /\ life = [s \in Streams |-> "new"]
    /\ attached = NULL
    /\ got = [s \in Streams |-> <<>>]

Begin(s) ==
    /\ life[s] = "new"
    /\ life' = [life EXCEPT ![s] = "live"]
    /\ UNCHANGED <<attached, got>>

Attach(s) ==
    /\ life[s] = "live"
    /\ attached' = s
    /\ UNCHANGED <<life, got>>

End(s) ==
    /\ life[s] = "live"
    /\ life' = [life EXCEPT ![s] = "over"]
    /\ attached' \in {attached, NULL} \ {s}
    /\ UNCHANGED got

Reply(s, m) ==
    /\ life[s] = "live"
    /\ got' = [got EXCEPT ![s] = Append(@, m)]
    /\ UNCHANGED <<life, attached>>

Deliver(s, p) ==
    /\ attached = s
    /\ life[s] = "live"
    /\ got' = [got EXCEPT ![s] = Append(@, p)]
    /\ UNCHANGED <<life, attached>>

Next ==
    \E s \in Streams :
        \/ Begin(s) \/ Attach(s) \/ End(s)
        \/ \E m \in Replies : Reply(s, m)
        \/ \E p \in Packets : Deliver(s, p)

Spec == Init /\ [][Next]_vars
=============================================================================
