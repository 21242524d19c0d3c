---------------------------- MODULE MCLookupNode ----------------------------
(* Constants for checking LookupNode with four-bit identifiers. *)
EXTENDS LookupNode

MCSelf == <<0, 0, 0, 0>>
MCTarget == <<1, 1, 1, 1>>

\* From the farthest from the target to the nearest.
A == <<0, 0, 0, 1>>
B == <<0, 0, 1, 0>>
C == <<0, 1, 1, 0>>
D == <<1, 0, 0, 1>>
E == <<1, 0, 1, 1>>
F == <<1, 1, 0, 0>>
G == <<1, 1, 1, 0>>

MCPeers == {A, B, C, D, E, F, G}

\* Everybody knows everybody, and this node; each node knows only the next
\* closer ones; near nodes know far ones, which know each other.
Mesh == [p \in MCPeers |-> (MCPeers \cup {MCSelf}) \ {p}]
Chain == A :> {B, MCSelf} @@ B :> {C, D} @@ C :> {D, A} @@ D :> {E}
         @@ E :> {F, B} @@ F :> {G, MCSelf} @@ G :> {}
Layers == [p \in MCPeers |-> IF p \in {E, F, G} THEN {A, B, C, D}
                             ELSE {A, B, G} \ {p}]

MCTopologies == {Mesh, Chain, Layers}

\* This node's table after it heard of ids, in that order.
TableOf(ids) ==
    FoldLeft(TableAdd, EmptyTable,
             [i \in DOMAIN ids |-> [id |-> ids[i], addr |-> CHOOSE a \in Addrs : TRUE]])

\* No node known at first, one far one, three, or four of which two share a
\* bucket.
MCSeedTables == {TableOf(ids) : ids \in {<<>>, <<A>>, <<F, D, E>>, <<D, A, G, B>>}}
=============================================================================
