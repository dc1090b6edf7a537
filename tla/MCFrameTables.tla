---------------------------- MODULE MCFrameTables ----------------------------
(* Two pointers that spell the same name, and a third caller. *)
EXTENDS FrameTables

CONSTANTS p1, p2, p3

MCCallers == {p1, p2, p3}
MCNameOf == [c \in MCCallers |-> IF c = p3 THEN "draw" ELSE "flush"]
MCHome == [c \in MCCallers |-> IF c = p1 THEN 0 ELSE 1]
=============================================================================
