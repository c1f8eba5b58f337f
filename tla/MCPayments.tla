----------------------------- MODULE MCPayments -----------------------------
(* Instances of Payments for TLC.                                          *)
EXTENDS Payments, TLC

CONSTANTS a1, p1, p2, r1, r2

(* Two purchases for one ad, of services that overlap in one column: p1 is *)
(* a row of ad_bumps, p2 of ad_service_purchases.                          *)
TwoForOneAd == [p \in Purchases |-> a1]

BumpAndBundle ==
  [p \in Purchases |-> IF p = p1 THEN {"BUMP"} ELSE {"BUMP", "BADGE"}]

(* One for the ad, one for the account.                                    *)
AdAndAccount == [p \in Purchases |-> IF p = p1 THEN a1 ELSE null]

BumpAndPremium ==
  [p \in Purchases |-> IF p = p1 THEN {"BUMP"} ELSE {"PREMIUM"}]

OneDay == [s \in ServiceType |-> 1]

TwoDays == [s \in ServiceType |-> 2]

MCSymmetry == Permutations(Requests)
=============================================================================
