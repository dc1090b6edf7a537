----------------------------- MODULE MCMetaTable -----------------------------
(* Three keys that collide, two of them of one arena. *)
EXTENDS MetaTable

CONSTANTS k1, k2, k3, a1, a2

MCKeys == {k1, k2, k3}
MCArenas == {a1, a2}
MCArenaOf == [k \in MCKeys |-> IF k = k2 THEN a2 ELSE a1]
MCHome == [k \in MCKeys |-> IF k = k3 THEN 1 ELSE 0]
=============================================================================
