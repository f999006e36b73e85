------------------------------- MODULE MCSlab -------------------------------
(* Two CPUs that share four pages, and slabs of two blocks. *)
EXTENDS Slab, TLC
CONSTANTS c0, c1, s0, s1, s2, s3

TwoCPUs == {c0, c1}
FourSlabs == {s0, s1, s2, s3}
MCInitSlab == c0 :> s0 @@ c1 :> s1
=============================================================================
