--------------------------- MODULE PaymentLedger ---------------------------
(* What a purchase promises its buyer, whatever services, tables and       *)
(* webhooks are behind it: it is offered, paid at most once, credited at   *)
(* most once and only if paid, and a credit puts the days bought on top of *)
(* those that are still running.  A purchase for an ad is forfeited with   *)
(* the ad.  Payments implements this when one request is handled at a time.*)
EXTENDS Naturals

CONSTANTS Purchases, Columns, Granted(_), Duration, Replaced(_), AdOf, null

VARIABLES ledger, until, today

State == {"new", "open", "paid", "credited", "void"}

Init ==
  /\ ledger = [p \in Purchases |-> "new"]
  /\ until = [c \in Columns |-> 0]
  /\ today = 1

Move(p, from, to) ==
  /\ ledger[p] = from
  /\ ledger' = [ledger EXCEPT ![p] = to]
  /\ UNCHANGED <<until, today>>

Open(p) == Move(p, "new", "open")

Pay(p) == Move(p, "open", "paid")

Refuse(p) == Move(p, "new", "void")

GiveUp(p) == Move(p, "open", "void")

(* The days run from the end that stands, or from a day up to today.       *)
Credit(p) ==
  /\ ledger[p] = "paid"
  /\ ledger' = [ledger EXCEPT ![p] = "credited"]
  /\ \E day \in 1..today :
       until' = [c \in Columns |->
         IF c \notin Granted(p) THEN until[c]
         ELSE IF until[c] > day /\ ~Replaced(c) THEN until[c] + Duration[c[2]]
              ELSE day + Duration[c[2]]]
  /\ UNCHANGED today

(* Purchases for an ad that were not credited go with it.                  *)
Forfeit(a) ==
  /\ ledger' = [p \in Purchases |->
       IF AdOf[p] = a /\ ledger[p] \in {"open", "paid"} THEN "void"
                                                        ELSE ledger[p]]
  /\ UNCHANGED <<until, today>>

NextDay ==
  /\ today' = today + 1
  /\ UNCHANGED <<ledger, until>>

Next ==
  \/ \E p \in Purchases :
       Open(p) \/ Pay(p) \/ Refuse(p) \/ GiveUp(p) \/ Credit(p)
  \/ \E p \in Purchases : AdOf[p] # null /\ Forfeit(AdOf[p])
  \/ NextDay

Spec == Init /\ [][Next]_<<ledger, until, today>>
=============================================================================
