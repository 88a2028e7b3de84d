----------------------------- MODULE MCStarStat -----------------------------
(* Two systems one light year apart.                                        *)
EXTENDS StarStat

CONSTANTS s1, s2

MCPosition == s1 :> 0 @@ s2 :> 1
MCOnePosition == s1 :> 0

\* Each system is as far from the other as the other from it, and the properties
\* look from both.
Alike == Permutations(Systems)
=============================================================================
