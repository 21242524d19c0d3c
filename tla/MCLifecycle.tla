----------------------------- MODULE MCLifecycle ----------------------------
(* Symmetry for checking Lifecycle: the keys that may be created are alike, and *)
(* so are the handlers of POST /peer.                                           *)
EXTENDS Lifecycle, TLC

Symmetry == Permutations(Keys \ {ServiceKey}) \cup Permutations(Peers) \cup Permutations(Handlers)
=============================================================================
