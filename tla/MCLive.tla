------------------------------- MODULE MCLive -------------------------------
(* An instance of Live for TLC: few kinds of each sort, a stack that is kept *)
(* alive beside one that is not.                                             *)
EXTENDS Live, TLC

CONSTANTS s, p, ms, mp, apim, bus, topic, conn, logic

Marker == (s :> ms) @@ (p :> mp)
TopicOf == topic :> bus
Order == <<topic, bus, conn, logic, apim>>
Located == {<<s, FALSE>>, <<p, TRUE>>}
Collisions == {<<[group |-> "shared", stack |-> s], bus>>}
Used == {{"provision", "teardown"}, {"provision", "keep"}, {"teardown", "recover"}}
=============================================================================
