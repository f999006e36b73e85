---------------------------- MODULE MCPageAlloc ----------------------------
(* Two callers, two units and pages of three sizes; requests at and just above
   a page size, and one that no unit can serve. *)
EXTENDS PageAlloc, TLC
CONSTANTS c0, c1

TwoCallers == {c0, c1}
MCRequests == {4096, 4097, 16384, 16385}

Symmetry == Permutations(TwoCallers)
=============================================================================
