---------------------------- MODULE MC_Membership ----------------------------
(* Instances of Membership for TLC. *)
EXTENDS Membership, TLC

CONSTANTS a, b, c, r1, r2, i1, i2

MCSymmetry == Permutations(Users \ ({Creator} \cup Operators)) \cup Permutations(Requests)
                  \cup Permutations(Invites)
=============================================================================
