--------------------------- MODULE MCAdmissionLane ---------------------------
(* AdmissionLane for TLC: one task sends a large request, the others small ones. *)
EXTENDS AdmissionLane

CONSTANT large

MCBytes == [t \in Tasks |-> IF t = large THEN 2 ELSE 1]
=============================================================================
