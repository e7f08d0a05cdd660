----------------------------- MODULE MC_Providers -----------------------------
(* Instances of Providers for TLC. *)
EXTENDS Providers, TLC

CONSTANTS s1, e1, e2, u1, u2, r1, r2

MCSymmetry == Permutations(Users) \cup Permutations(Requests)
                \cup Permutations(Emails) \cup Permutations(Subjects)
=============================================================================
