----------------------------- MODULE MC_UrlStore -----------------------------
(***************************************************************************)
(* Small instances of UrlStore for TLC.                                    *)
(***************************************************************************)
EXTENDS UrlStore, TLC

CONSTANTS v1, v2, e1, e2, w1, w2, u1, u2, s1, s2

\* An owner who switches the URL on again, once with its limit lifted.
LimitPatches == {[NoPatch EXCEPT !.active = "on"],
                 [NoPatch EXCEPT !.active = "on", !.max = -1]}

\* An owner who points the code elsewhere, or switches it off.
EditPatches == {[NoPatch EXCEPT !.target = u2], [NoPatch EXCEPT !.active = "off"]}

\* An owner who points the code elsewhere, or sets a limit below zero, which no number
\* of clicks is below.
NegativeLimits == {-2}
NegativePatches == {[NoPatch EXCEPT !.target = u2], [NoPatch EXCEPT !.max = -2]}

MCSymmetry == Permutations(Visitors) \cup Permutations(Editors) \cup Permutations(Slots)
=============================================================================
