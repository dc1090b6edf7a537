---------------------------- MODULE MCMemoryWindow ----------------------------
(* Every name hashes to the first slot; two shapes have the same size; the blocks are interchangeable. *)
EXTENDS MemoryWindow, TLC

MCHome == [n \in Names |-> 0]
MCShapes == {<<1, 2>>, <<2, 1>>}
MCOneShape == {<<1, 1>>}
MCSymmetry == Permutations(Starts)
=============================================================================
