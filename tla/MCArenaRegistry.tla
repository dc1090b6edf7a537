--------------------------- MODULE MCArenaRegistry ---------------------------
(* Threads and arenas are interchangeable in ArenaRegistry. *)
EXTENDS ArenaRegistry, TLC

RegistrySymmetry == Permutations(Threads) \cup Permutations(Arenas)
=============================================================================
