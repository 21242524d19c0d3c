----------------------------- MODULE MCPairing -----------------------------
\* The codes are interchangeable.
EXTENDS Pairing, TLC

CodesAlike == Permutations(Codes)
=============================================================================
