---------------------------- MODULE MCSettlement ----------------------------
(***************************************************************************)
(* Two positions, two claim ids each.                                      *)
(***************************************************************************)
EXTENDS Settlement

CONSTANTS p1, p2, a1, a2, b1, b2

MCPosOf == [c \in Cid |-> IF c \in {a1, a2} THEN p1 ELSE p2]
=============================================================================
