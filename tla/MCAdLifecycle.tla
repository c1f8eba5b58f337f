--------------------------- MODULE MCAdLifecycle ---------------------------
(* Instances of AdLifecycle for TLC.                                       *)
EXTENDS AdLifecycle, TLC

CONSTANTS a1, u1, c1, c2, r1, r2, i1, i2

(* Every ad belongs to the one account.                                    *)
MCOwner == [a \in Ads |-> u1]

MCSymmetry == Permutations(Requests) \cup Permutations(Contents)
=============================================================================
