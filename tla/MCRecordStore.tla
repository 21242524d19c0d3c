---------------------------- MODULE MCRecordStore ----------------------------
(* Symmetry for checking RecordStore: keys and names are interchangeable. *)
EXTENDS RecordStore, TLC

MCSymmetry == Permutations(Keys) \cup Permutations(Names)
=============================================================================
