----------------------------- MODULE MCNodeTable -----------------------------
(* Constants for checking NodeTable with three-bit identifiers. *)
EXTENDS NodeTable, TLC

MCSelf == [b \in Bits |-> 0]

\* Three nodes of bucket 0, one more than it has room for, and one of bucket 1.
MCPeers == {<<1, 0, 0>>, <<1, 0, 1>>, <<1, 1, 1>>, <<0, 1, 0>>}

\* Nothing tells one address from another.
MCSymmetry == Permutations(Addrs)
=============================================================================
