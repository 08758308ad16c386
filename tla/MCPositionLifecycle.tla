------------------------ MODULE MCPositionLifecycle ------------------------
(***************************************************************************)
(* Instances of PositionLifecycle: three positions; p1 and p2 compete for  *)
(* one event, p1 and p3 are of one coin.                                   *)
(***************************************************************************)
EXTENDS PositionLifecycle

CONSTANTS p1, p2, p3, e1, e2, up, down, up2, btc

MCEventOf == [p \in Pid |-> IF p = p3 THEN e2 ELSE e1]

MCTokenOf == [p \in Pid |-> CASE p = p1 -> up [] p = p2 -> down [] OTHER -> up2]

MCAssetOf == [p \in Pid |-> btc]
=============================================================================
