--------------------------- MODULE MC_VisitLogger ---------------------------
(* Instances of VisitLogger for TLC. *)
EXTENDS VisitLogger, TLC

CONSTANTS v1, v2, v3, p1, p2

MCSymmetry == Permutations(Visits) \cup Permutations(Workers)
=============================================================================
