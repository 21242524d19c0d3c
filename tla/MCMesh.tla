------------------------------- MODULE MCMesh -------------------------------
\* Identifiers for checking Mesh with four nodes: all those of two bits.
EXTENDS Mesh, TLC

CONSTANTS owner, searcher, near, far

MCID == owner :> <<0, 0>> @@ searcher :> <<1, 1>> @@ near :> <<0, 1>> @@ far :> <<1, 0>>
MCTarget == <<0, 1>>
=============================================================================
