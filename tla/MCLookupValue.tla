---------------------------- MODULE MCLookupValue ----------------------------
(* Constants for checking LookupValue with three-bit identifiers. *)
EXTENDS LookupValue

MCSelf == <<0, 0, 0>>
MCTarget == <<1, 1, 1>>

\* From the farthest from the target to the nearest.
A == <<0, 0, 1>>
B == <<0, 1, 0>>
C == <<1, 0, 0>>
D == <<1, 0, 1>>
E == <<1, 1, 0>>

MCPeers == {A, B, C, D, E}

\* Everybody knows everybody, and this node; each node knows only the next
\* closer ones, and the last but one nobody at all.
Mesh == [p \in MCPeers |-> (MCPeers \cup {MCSelf}) \ {p}]
Chain == A :> {B, MCSelf} @@ B :> {C, D} @@ C :> {D, A} @@ D :> {} @@ E :> {B}

MCTopologies == {Mesh, Chain}

\* This node's table after it heard of ids, in that order.
TableOf(ids) ==
    FoldLeft(TableAdd, EmptyTable,
             [i \in DOMAIN ids |-> [id |-> ids[i], addr |-> CHOOSE a \in Addrs : TRUE]])

\* No node known at first, one far one, or three.
MCSeedTables == {TableOf(ids) : ids \in {<<>>, <<A>>, <<E, B, C>>}}

\* Nobody has the record; a near node; two.
MCHolderSets == {{}, {D}, {C, E}}

\* Everybody answers; a node does not, which may have the record; two do not.
MCSilentSets == {{}, {B}, {C}, {A, E}}
=============================================================================
