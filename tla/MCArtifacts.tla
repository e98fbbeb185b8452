------------------------------ MODULE MCArtifacts ------------------------------
(***************************************************************************)
(* Artifacts for TLC: two runs whose builds agree on one path and differ   *)
(* on the other, the first with one content at both.                       *)
(***************************************************************************)
EXTENDS Artifacts

CONSTANTS p1, p2, a, b, r1, r2

MCBuildOf == [r \in Run |-> [p \in Path |->
  IF r = r1 THEN a ELSE IF p = p1 THEN a ELSE b]]
=============================================================================
