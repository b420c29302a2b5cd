-------------------------- MODULE MCEvidenceBuffer --------------------------
(* Small instances of EvidenceBuffer for TLC.                              *)
EXTENDS EvidenceBuffer

CONSTANTS left, right

ThreeEvents == 1 .. 3

(* Events 1 and 3 come by the left socket, 2 by the right one.             *)
ThreeStreamOf == [e \in ThreeEvents |-> IF e = 2 THEN right ELSE left]

(* Everything in one hour; or the hour turns between events 2 and 3.       *)
OneHour == [e \in ThreeEvents |-> 1]
TwoHours == [e \in ThreeEvents |-> IF e <= 2 THEN 1 ELSE 2]
=============================================================================
