------------------------------ MODULE MCAdViews ------------------------------
(* Instances of AdViews for TLC.                                           *)
EXTENDS AdViews, TLC

CONSTANTS a1, a2, v1, v2

MCSymmetry == Permutations(Viewers) \cup Permutations(Ads)
=============================================================================
