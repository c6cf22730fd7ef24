------------------------------ MODULE MCDbOpen ------------------------------
(* Processes that open, use and close one database. *)
EXTENDS DbOpen, TLC

CONSTANTS p1, p2, p3, r1, r2

AllModes == SUBSET Flags
CreateOnly == {Flags}

Symmetry == Permutations(Procs) \cup Permutations(Recs)
=============================================================================
