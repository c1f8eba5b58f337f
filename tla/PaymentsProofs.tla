--------------------------- MODULE PaymentsProofs ---------------------------
(* What holds of Payments for any number of purchases, ads and requests;   *)
(* of the lists beside it for any number of items and any size of a page;  *)
(* and of the import of categories for any releases.                       *)
EXTENDS MCPaidLists, FiniteSetTheorems, WellFoundedInduction, SequenceTheorems,
        TLAPS

-----------------------------------------------------------------------------
(* The columns that exist, and their types.                                *)

LEMMA GrantedColumns ==
  ASSUME NEW p \in Purchases
  PROVE  Granted(p) \subseteq Columns
  BY PaymentsAssumption DEF Granted, Columns, ServiceType, AdServiceType

LEMMA ExtendedIsNat ==
  ASSUME NEW c \in Columns, NEW seen \in [Columns -> Nat], NEW now \in Nat
  PROVE  Extended(c, seen, now) \in Nat
<1>1. c[2] \in ServiceType
  BY DEF Columns, ServiceType
<1>2. Duration[c[2]] \in Nat
  BY <1>1, PaymentsAssumption
<1> QED
  BY <1>2 DEF Extended

LEMMA IdleIsRequest == Idle \in Request
  BY DEF Idle, At, Request

-----------------------------------------------------------------------------
(* Type correctness, action by action.                                     *)

LEMMA TypeCheckout ==
  ASSUME TypeOK, NEW r \in Requests, NEW p \in Purchases,
         \/ checkoutRead(r, p) \/ handleWebhook(r, p) \/ checkStatus(r, p)
  PROVE  TypeOK'
<1>1. ASSUME NEW step \in {"create", "find"}, NEW webhook \in BOOLEAN
      PROVE  At(step, p, webhook) \in Request
  BY DEF At, Request
<1>2. PICK q \in Request : Become(r, q)
  BY <1>1 DEF checkoutRead, handleWebhook, checkStatus
<1>3. req' \in [Requests -> Request]
  BY <1>2 DEF TypeOK, Become
<1>4. UNCHANGED <<row, offered, webhooks, world>>
  BY DEF checkoutRead, handleWebhook, checkStatus
<1> QED
  BY <1>3, <1>4 DEF TypeOK, world

LEMMA GoIsRequest ==
  ASSUME TypeOK, NEW r \in Requests,
         NEW step \in {"post", "record", "cancel", "fetch", "read", "cancelRow"}
  PROVE  [req[r] EXCEPT !.step = step] \in Request
<1>1. req[r] \in Request
  BY DEF TypeOK
<1> QED
  BY <1>1 DEF Request

LEMMA StatusIsPurchase ==
  ASSUME TypeOK, NEW p \in Purchases,
         NEW status \in {"PENDING", "SUCCEEDED", "CANCELED", "GONE"}
  PROVE  [row EXCEPT ![p].status = status] \in [Purchases -> Purchase]
<1>1. row \in [Purchases -> Purchase]
  BY DEF TypeOK
<1>2. [row[p] EXCEPT !.status = status] \in Purchase
  BY <1>1 DEF Purchase
<1>3. [row EXCEPT ![p].status = status]
        = [row EXCEPT ![p] = [row[p] EXCEPT !.status = status]]
  OBVIOUS
<1> QED
  BY <1>1, <1>2, <1>3

LEMMA TypeCheckoutStep ==
  ASSUME TypeOK, NEW r \in Requests, req[r].p \in Purchases,
         \/ checkoutCreate(r) \/ postPayment(r) \/ postFails(r)
         \/ checkoutCancel(r) \/ checkoutRecord(r)
  PROVE  TypeOK'
<1>1. CASE checkoutCreate(r)
  <2>1. row' \in [Purchases -> Purchase]
    BY <1>1, StatusIsPurchase DEF checkoutCreate, SetStatus
  <2>2. req' \in [Requests -> Request]
    BY <1>1, IdleIsRequest, GoIsRequest
    DEF TypeOK, checkoutCreate, Go, Respond, Become
  <2> QED
    BY <1>1, <2>1, <2>2 DEF TypeOK, checkoutCreate, world
<1>2. CASE postPayment(r) \/ postFails(r)
  <2>1. payment' \in [Purchases ->
                        {"none", "pending", "succeeded", "canceled"}]
    <3>1. \E outcome \in {"none", "pending"} :
            payment' = [payment EXCEPT ![req[r].p] = outcome]
      BY <1>2 DEF postPayment, postFails
    <3> QED
      BY <3>1 DEF TypeOK
  <2>2. req' \in [Requests -> Request]
    <3>1. Go(r, "record") \/ Go(r, "cancel")
      BY <1>2 DEF postPayment, postFails
    <3> QED
      BY <3>1, GoIsRequest DEF TypeOK, Go, Become
  <2> QED
    BY <1>2, <2>1, <2>2 DEF TypeOK, postPayment, postFails
<1>3. CASE checkoutCancel(r)
  BY <1>3, IdleIsRequest, StatusIsPurchase
  DEF TypeOK, checkoutCancel, Respond, Become, SetStatus, world
<1>4. CASE checkoutRecord(r)
  <2>1. [row EXCEPT ![req[r].p].yookassaPaymentId = TRUE]
          \in [Purchases -> Purchase]
    BY DEF TypeOK, Purchase
  <2> QED
    BY <1>4, <2>1, IdleIsRequest
    DEF TypeOK, checkoutRecord, Respond, Become, world
<1> QED
  BY <1>1, <1>2, <1>3, <1>4

LEMMA TypeReconcileStep ==
  ASSUME TypeOK, NEW r \in Requests, req[r].p \in Purchases,
         \/ reconcileFind(r) \/ reconcileFetch(r) \/ fetchFails(r)
         \/ reconcileRead(r) \/ reconcileWrite(r) \/ reconcileCancel(r)
  PROVE  TypeOK'
<1>1. CASE reconcileFind(r) \/ reconcileFetch(r) \/ fetchFails(r)
  <2>1. Respond(r) \/ \E step \in {"fetch", "read", "cancelRow"} : Go(r, step)
    <3>1. CASE reconcileFind(r)
      BY <3>1 DEF reconcileFind
    <3>2. CASE reconcileFetch(r)
      BY <3>2 DEF reconcileFetch
    <3>3. CASE fetchFails(r)
      BY <3>3 DEF fetchFails
    <3> QED
      BY <1>1, <3>1, <3>2, <3>3
  <2>2. req' \in [Requests -> Request]
    <3>1. PICK q \in Request : Become(r, q)
      BY <2>1, IdleIsRequest, GoIsRequest DEF Go, Respond
    <3> QED
      BY <3>1 DEF TypeOK, Become
  <2>3. webhooks' \subseteq webhooks
    <3>1. UNCHANGED webhooks \/ Acknowledge(r)
      BY <1>1 DEF reconcileFind, reconcileFetch, fetchFails
    <3> QED
      BY <3>1 DEF Acknowledge
  <2>4. UNCHANGED <<row, offered, world>>
    BY <1>1 DEF reconcileFind, reconcileFetch, fetchFails
  <2> QED
    BY <2>2, <2>3, <2>4 DEF TypeOK, world
<1>2. CASE reconcileRead(r)
  <2> DEFINE seen == [c \in Columns |->
                        IF c \in Granted(req[r].p) THEN until[c] ELSE 0]
  <2>1. seen \in [Columns -> Nat]
    BY DEF TypeOK
  <2> HIDE DEF seen
  <2>2. [req[r] EXCEPT !.step = "write", !.now = today, !.seen = seen]
          \in Request
    <3>1. req[r] \in Request /\ today \in Nat
      BY DEF TypeOK
    <3> QED
      BY <2>1, <3>1 DEF Request
  <2>3. \/ Respond(r)
        \/ Become(r, [req[r] EXCEPT !.step = "write", !.now = today,
                                    !.seen = seen])
    BY <1>2 DEF reconcileRead, seen
  <2> QED
    BY <1>2, <2>2, <2>3, IdleIsRequest
    DEF TypeOK, reconcileRead, Respond, Become, world
<1>3. CASE reconcileWrite(r)
  <2>1. req[r].seen \in [Columns -> Nat] /\ req[r].now \in Nat
    BY DEF TypeOK, Request
  <2>2. until' \in [Columns -> Nat]
    <3>1. CASE UNCHANGED until
      BY <3>1 DEF TypeOK
    <3>2. CASE until' = [c \in Columns |->
                           IF c \in Granted(req[r].p)
                             THEN Extended(c, req[r].seen, req[r].now)
                             ELSE until[c]]
      BY <3>2, <2>1, ExtendedIsNat DEF TypeOK
    <3> QED
      BY <1>3, <3>1, <3>2 DEF reconcileWrite
  <2>3. bumpedAt' \in [Ads -> Nat]
    BY <1>3, <2>1 DEF TypeOK, reconcileWrite
  <2>4. applied' \in [Purchases -> Nat]
    BY <1>3 DEF TypeOK, reconcileWrite
  <2>5. row' \in [Purchases -> Purchase]
    <3>1. SetStatus(req[r].p, "SUCCEEDED") \/ UNCHANGED row
      BY <1>3 DEF reconcileWrite
    <3>2. row \in [Purchases -> Purchase]
      BY DEF TypeOK
    <3>3. [row EXCEPT ![req[r].p].status = "SUCCEEDED"]
            \in [Purchases -> Purchase]
      BY StatusIsPurchase
    <3> QED
      BY <3>1, <3>2, <3>3 DEF SetStatus
  <2>6. req' \in [Requests -> Request]
    BY <1>3, IdleIsRequest DEF TypeOK, reconcileWrite, Respond, Become
  <2>7. webhooks' \subseteq webhooks
    BY <1>3 DEF reconcileWrite, Acknowledge
  <2> QED
    BY <1>3, <2>2, <2>3, <2>4, <2>5, <2>6, <2>7 DEF TypeOK, reconcileWrite
<1>4. CASE reconcileCancel(r)
  <2>1. row' \in [Purchases -> Purchase]
    BY <1>4, StatusIsPurchase DEF TypeOK, reconcileCancel, SetStatus
  <2>2. req' \in [Requests -> Request]
    BY <1>4, IdleIsRequest DEF TypeOK, reconcileCancel, Respond, Become
  <2>3. webhooks' \subseteq webhooks
    BY <1>4 DEF reconcileCancel, Acknowledge
  <2> QED
    BY <1>4, <2>1, <2>2, <2>3 DEF TypeOK, reconcileCancel, world
<1> QED
  BY <1>1, <1>2, <1>3, <1>4

LEMMA TypeWorld ==
  ASSUME TypeOK,
         \/ \E p \in Purchases : pay(p) \/ expire(p)
         \/ AutoStep
         \/ \E ad \in Ads : changeAd(ad) \/ removeAd(ad)
         \/ Tick \/ Crash
  PROVE  TypeOK'
<1>1. CASE \E p \in Purchases : pay(p) \/ expire(p)
  BY <1>1 DEF TypeOK, pay, expire, Settle
<1>2. CASE AutoStep
  BY <1>2 DEF TypeOK, AutoStep, autoRead, autoWrite, AutoIdle
<1>3. CASE \E ad \in Ads : changeAd(ad)
  BY <1>3 DEF TypeOK, changeAd
<1>4. CASE \E ad \in Ads : removeAd(ad)
  BY <1>4 DEF TypeOK, removeAd, Purchase
<1>5. CASE Tick
  BY <1>5 DEF TypeOK, Tick
<1>6. CASE Crash
  BY <1>6, IdleIsRequest DEF TypeOK, Crash, AutoIdle
<1> QED
  BY <1>1, <1>2, <1>3, <1>4, <1>5, <1>6

-----------------------------------------------------------------------------
(* The inductive invariant: what a purchase's row says of its payment, and *)
(* what the request at each step knows of its purchase.                    *)

PurchaseSound(p) ==
  /\ row[p].status = "NEW" =>
       payment[p] = "none" /\ ~row[p].yookassaPaymentId /\ applied[p] = 0
  /\ p \in webhooks => payment[p] # "none"
  /\ p \in offered => row[p].yookassaPaymentId
  /\ row[p].yookassaPaymentId => payment[p] # "none"
  /\ payment[p] = "succeeded" => p \in offered
  /\ row[p].status = "CANCELED" /\ p \in offered => payment[p] = "canceled"
  /\ row[p].status = "SUCCEEDED" \/ applied[p] > 0 => payment[p] = "succeeded"

CheckoutStep == {"create", "post", "record", "cancel"}

RequestSound(r) ==
  LET p == req[r].p
      step == req[r].step
  IN
  step # "idle" =>
    /\ p \in Purchases
    /\ step = "create" <=> row[p].status = "NEW"
    /\ step = "post" => payment[p] = "none"
    /\ step = "record" => payment[p] # "none"
    /\ step \in {"post", "record"} => row[p].status \in {"PENDING", "GONE"}
    /\ step \in CheckoutStep => ~row[p].yookassaPaymentId
    /\ step \in {"fetch", "read", "write", "cancelRow"} =>
         row[p].yookassaPaymentId
    /\ step \in {"read", "write"} => payment[p] = "succeeded"
    /\ step = "cancelRow" => payment[p] = "canceled"

(* Two requests never check out the same purchase.                         *)
Exclusive ==
  \A r, s \in Requests :
    /\ r # s /\ req[r].p = req[s].p
    /\ req[r].step \in CheckoutStep
    => req[s].step \notin CheckoutStep

Sound ==
  /\ \A p \in Purchases : PurchaseSound(p)
  /\ \A r \in Requests : RequestSound(r)
  /\ Exclusive

IInv == TypeOK /\ Sound

-----------------------------------------------------------------------------
(* A step of request r about purchase x touches nothing else; what is left *)
(* to show is what it does to x, to r, and to others who handle x.         *)

Local(r, x) ==
  /\ \A s \in Requests \ {r} : req'[s] = req[s]
  /\ req'[r].step # "idle" => req'[r].p = x
  /\ \A p \in Purchases \ {x} :
       /\ row'[p] = row[p] /\ payment'[p] = payment[p]
       /\ applied'[p] = applied[p]
       /\ p \in offered' <=> p \in offered
       /\ p \in webhooks' => p \in webhooks

LEMMA LocalStep ==
  ASSUME IInv, NEW r \in Requests, NEW x \in Purchases, Local(r, x),
         req'[r].step \in CheckoutStep =>
           \A s \in Requests \ {r} :
             req[s].p = x => req[s].step \notin CheckoutStep,
         PurchaseSound(x)', RequestSound(r)',
         \A s \in Requests \ {r} :
           req[s].step # "idle" /\ req[s].p = x => RequestSound(s)'
  PROVE  Sound'
<1>1. ASSUME NEW p \in Purchases PROVE PurchaseSound(p)'
  <2>1. CASE p # x
    BY <2>1 DEF IInv, Sound, Local, PurchaseSound
  <2> QED
    BY <2>1
<1>2. ASSUME NEW s \in Requests PROVE RequestSound(s)'
  <2>1. CASE s # r /\ req[s].step = "idle"
    BY <2>1 DEF Local, RequestSound
  <2>2. CASE s # r /\ req[s].step # "idle" /\ req[s].p # x
    <3>1. RequestSound(s) /\ req'[s] = req[s]
      BY <2>2 DEF IInv, Sound, Local
    <3>2. req[s].p \in Purchases \ {x}
      BY <2>2, <3>1 DEF RequestSound
    <3>3. row'[req[s].p] = row[req[s].p] /\ payment'[req[s].p] = payment[req[s].p]
      BY <3>2 DEF Local
    <3> QED
      BY <3>1, <3>3 DEF RequestSound
  <2> QED
    BY <2>1, <2>2
<1>3. Exclusive'
  <2> SUFFICES ASSUME NEW s \in Requests, NEW t \in Requests,
                      s # t, req'[s].p = req'[t].p,
                      req'[s].step \in CheckoutStep,
                      req'[t].step \in CheckoutStep
               PROVE  FALSE
    BY DEF Exclusive
  <2>1. req'[r].step \in CheckoutStep => req'[r].p = x
    BY DEF Local, CheckoutStep
  <2>2. CASE s = r
    BY <2>1, <2>2 DEF Local
  <2>3. CASE t = r
    BY <2>1, <2>3 DEF Local
  <2>4. CASE s # r /\ t # r
    BY <2>4 DEF IInv, Sound, Exclusive, Local
  <2> QED
    BY <2>2, <2>3, <2>4
<1> QED
  BY <1>1, <1>2, <1>3 DEF Sound

-----------------------------------------------------------------------------
(* The fields that the operators of Payments change.                       *)

LEMMA StatusFields ==
  ASSUME TypeOK, NEW p \in Purchases, NEW status, SetStatus(p, status)
  PROVE  \A x \in Purchases :
           /\ row'[x].status = IF x = p THEN status ELSE row[x].status
           /\ row'[x].yookassaPaymentId = row[x].yookassaPaymentId
           /\ x # p => row'[x] = row[x]
<1>1. row \in [Purchases -> Purchase]
  BY DEF TypeOK
<1> QED
  BY <1>1 DEF SetStatus, Purchase

LEMMA BecomeFields ==
  ASSUME TypeOK, NEW r \in Requests, NEW q, Become(r, q)
  PROVE  /\ req'[r] = q
         /\ \A s \in Requests \ {r} : req'[s] = req[s]
  BY DEF TypeOK, Become

LEMMA GoFields ==
  ASSUME TypeOK, NEW r \in Requests, NEW step, Go(r, step)
  PROVE  /\ req'[r].step = step /\ req'[r].p = req[r].p
         /\ \A s \in Requests \ {r} : req'[s] = req[s]
<1>1. req[r] \in Request
  BY DEF TypeOK
<1>2. [req[r] EXCEPT !.step = step].step = step
  BY <1>1 DEF Request
<1>3. [req[r] EXCEPT !.step = step].p = req[r].p
  BY <1>1 DEF Request
<1> QED
  BY <1>2, <1>3, BecomeFields DEF Go

LEMMA RespondFields ==
  ASSUME TypeOK, NEW r \in Requests, Respond(r)
  PROVE  /\ req'[r].step = "idle"
         /\ \A s \in Requests \ {r} : req'[s] = req[s]
  BY BecomeFields DEF Respond, Idle, At

-----------------------------------------------------------------------------
(* The steps of a checkout.                                                *)

(* While r checks x out, another request with x has only found its row.    *)
LEMMA CheckoutOthers ==
  ASSUME IInv, NEW r \in Requests, NEW x \in Purchases, req[r].p = x,
         req[r].step \in CheckoutStep
  PROVE  \A s \in Requests \ {r} :
           req[s].p = x =>
             \/ req[s].step = "idle"
             \/ req[s].step = "find" /\ row[x].status # "NEW"
<1> TAKE s \in Requests \ {r}
<1>1. req[s].step \in {"idle", "create", "post", "record", "cancel", "find",
                      "fetch", "read", "write", "cancelRow"}
  BY DEF IInv, TypeOK, Request
<1> QED
  BY <1>1 DEF IInv, Sound, Exclusive, RequestSound, CheckoutStep

LEMMA CreateSound ==
  ASSUME IInv, NEW r \in Requests, NEW x \in Purchases, req[r].p = x,
         checkoutCreate(r)
  PROVE  Sound'
<1>1. /\ PurchaseSound(x)
      /\ row[x].status = "NEW"
  BY DEF IInv, Sound, RequestSound, checkoutCreate
<1>2. \E status \in {"PENDING", "GONE"} : SetStatus(x, status)
  BY DEF checkoutCreate
<1>3. /\ row'[x].status \in {"PENDING", "GONE"}
      /\ row'[x].yookassaPaymentId = row[x].yookassaPaymentId
      /\ \A p \in Purchases \ {x} : row'[p] = row[p]
  BY <1>2, StatusFields DEF IInv
<1>4. /\ req'[r].step \in {"post", "idle"}
      /\ req'[r].step = "post" => req'[r].p = x
      /\ \A s \in Requests \ {r} : req'[s] = req[s]
  BY GoFields, RespondFields DEF IInv, checkoutCreate
<1>5. UNCHANGED <<payment, offered, webhooks, applied>>
  BY DEF checkoutCreate, world
<1>6. Local(r, x)
  BY <1>3, <1>4, <1>5 DEF Local
<1>7. PurchaseSound(x)'
  BY <1>1, <1>3, <1>5 DEF PurchaseSound
<1>8. RequestSound(r)'
  BY <1>1, <1>3, <1>4, <1>5 DEF RequestSound, PurchaseSound
<1>9. \A s \in Requests \ {r} : req[s].p = x => req[s].step = "idle"
  BY <1>1, CheckoutOthers DEF checkoutCreate, CheckoutStep
<1> QED
  BY <1>6, <1>7, <1>8, <1>9, LocalStep DEF CheckoutStep

LEMMA PostSound ==
  ASSUME IInv, NEW r \in Requests, NEW x \in Purchases, req[r].p = x,
         postPayment(r) \/ postFails(r)
  PROVE  Sound'
<1>1. /\ PurchaseSound(x) /\ req[r].step = "post"
      /\ payment[x] = "none" /\ ~row[x].yookassaPaymentId
      /\ row[x].status \in {"PENDING", "GONE"}
  BY DEF IInv, Sound, RequestSound, postPayment, postFails, CheckoutStep
<1>2. /\ \E outcome \in {"none", "pending"} :
           payment' = [payment EXCEPT ![x] = outcome]
      /\ Go(r, "record") => payment' = [payment EXCEPT ![x] = "pending"]
      /\ Go(r, "record") \/ Go(r, "cancel")
  <2>1. CASE postPayment(r)
    BY <2>1 DEF postPayment
  <2>2. CASE postFails(r)
    <3>1. Go(r, "cancel")
      BY <2>2 DEF postFails
    <3>2. ~Go(r, "record")
      BY <3>1, GoFields DEF IInv
    <3> QED
      BY <2>2, <3>1, <3>2 DEF postFails
  <2> QED
    BY <2>1, <2>2
<1>3. /\ payment'[x] \in {"none", "pending"}
      /\ Go(r, "record") => payment'[x] = "pending"
      /\ \A p \in Purchases \ {x} : payment'[p] = payment[p]
  BY <1>2 DEF IInv, TypeOK
<1>4. /\ req'[r].step \in {"record", "cancel"}
      /\ req'[r].step = "record" => Go(r, "record")
      /\ req'[r].p = x
      /\ \A s \in Requests \ {r} : req'[s] = req[s]
  BY <1>2, GoFields DEF IInv
<1>5. UNCHANGED <<row, offered, webhooks, applied>>
  BY DEF postPayment, postFails
<1>6. Local(r, x)
  BY <1>3, <1>4, <1>5 DEF Local
<1>7. PurchaseSound(x)'
  BY <1>1, <1>3, <1>5 DEF PurchaseSound
<1>8. RequestSound(r)'
  BY <1>1, <1>3, <1>4, <1>5 DEF RequestSound, CheckoutStep
<1>9. \A s \in Requests \ {r} : req[s].p = x => req[s].step \in {"idle", "find"}
  BY <1>1, CheckoutOthers DEF CheckoutStep
<1>10. \A s \in Requests \ {r} : req[s].p = x => RequestSound(s)'
  BY <1>1, <1>4, <1>5, <1>9 DEF RequestSound, CheckoutStep
<1> QED
  BY <1>6, <1>7, <1>8, <1>9, <1>10, LocalStep DEF CheckoutStep

LEMMA CancelSound ==
  ASSUME IInv, NEW r \in Requests, NEW x \in Purchases, req[r].p = x,
         checkoutCancel(r)
  PROVE  Sound'
<1>1. /\ PurchaseSound(x) /\ req[r].step = "cancel"
      /\ ~row[x].yookassaPaymentId /\ row[x].status # "NEW"
  BY DEF IInv, Sound, RequestSound, checkoutCancel, CheckoutStep
<1>2. /\ row'[x].status \in {row[x].status, "CANCELED"}
      /\ row'[x].yookassaPaymentId = row[x].yookassaPaymentId
      /\ \A p \in Purchases \ {x} : row'[p] = row[p]
  BY StatusFields DEF IInv, checkoutCancel
<1>3. /\ req'[r].step = "idle"
      /\ \A s \in Requests \ {r} : req'[s] = req[s]
  BY RespondFields DEF IInv, checkoutCancel
<1>4. UNCHANGED <<payment, offered, webhooks, applied>>
  BY DEF checkoutCancel, world
<1>5. Local(r, x)
  BY <1>2, <1>3, <1>4 DEF Local
<1>6. PurchaseSound(x)'
  BY <1>1, <1>2, <1>4 DEF PurchaseSound
<1>7. RequestSound(r)'
  BY <1>3 DEF RequestSound
<1>8. \A s \in Requests \ {r} : req[s].p = x => req[s].step \in {"idle", "find"}
  BY <1>1, CheckoutOthers DEF CheckoutStep
<1>9. \A s \in Requests \ {r} : req[s].p = x => RequestSound(s)'
  BY <1>1, <1>2, <1>3, <1>8 DEF RequestSound, CheckoutStep
<1> QED
  BY <1>3, <1>5, <1>6, <1>7, <1>9, LocalStep DEF CheckoutStep

LEMMA RecordSound ==
  ASSUME IInv, NEW r \in Requests, NEW x \in Purchases, req[r].p = x,
         checkoutRecord(r)
  PROVE  Sound'
<1>1. /\ PurchaseSound(x) /\ req[r].step = "record" /\ payment[x] # "none"
      /\ ~row[x].yookassaPaymentId /\ row[x].status \in {"PENDING", "GONE"}
  BY DEF IInv, Sound, RequestSound, checkoutRecord, CheckoutStep
<1>2. row \in [Purchases -> Purchase]
  BY DEF IInv, TypeOK
<1>3. /\ row'[x].status = row[x].status
      /\ \A p \in Purchases \ {x} : row'[p] = row[p]
      /\ offered' \in {offered, offered \cup {x}}
      /\ x \in offered' => row'[x].yookassaPaymentId /\ row[x].status # "GONE"
  BY <1>1, <1>2 DEF checkoutRecord, Alive, Purchase, PurchaseSound
<1>4. /\ req'[r].step = "idle"
      /\ \A s \in Requests \ {r} : req'[s] = req[s]
  BY RespondFields DEF IInv, checkoutRecord
<1>5. UNCHANGED <<payment, webhooks, applied>>
  BY DEF checkoutRecord, world
<1>6. Local(r, x)
  BY <1>3, <1>4, <1>5 DEF Local
<1>7. PurchaseSound(x)'
  BY <1>1, <1>3, <1>5 DEF PurchaseSound
<1>8. RequestSound(r)'
  BY <1>4 DEF RequestSound
<1>9. \A s \in Requests \ {r} : req[s].p = x => req[s].step \in {"idle", "find"}
  BY <1>1, CheckoutOthers DEF CheckoutStep
<1>10. \A s \in Requests \ {r} : req[s].p = x => RequestSound(s)'
  BY <1>1, <1>3, <1>4, <1>9 DEF RequestSound, CheckoutStep
<1> QED
  BY <1>4, <1>6, <1>7, <1>8, <1>10, LocalStep DEF CheckoutStep

-----------------------------------------------------------------------------
(* The steps of a reconciliation.                                          *)

(* A step after which r knows what it should, and no row has changed.      *)
LEMMA QuietStep ==
  ASSUME IInv, NEW r \in Requests, NEW x \in Purchases,
         \A s \in Requests \ {r} : req'[s] = req[s],
         req'[r].step # "idle" => req'[r].p = x,
         req'[r].step \in CheckoutStep =>
           \A s \in Requests \ {r} :
             req[s].p = x => req[s].step \notin CheckoutStep,
         UNCHANGED <<row, payment, offered, applied>>,
         webhooks' \subseteq webhooks,
         RequestSound(r)'
  PROVE  Sound'
<1>1. Local(r, x)
  BY DEF Local
<1>2. PurchaseSound(x)'
  BY DEF IInv, Sound, PurchaseSound
<1>3. \A s \in Requests \ {r} : RequestSound(s)'
  BY DEF IInv, Sound, RequestSound
<1> QED
  BY <1>1, <1>2, <1>3, LocalStep

LEMMA FindSound ==
  ASSUME IInv, NEW r \in Requests, NEW x \in Purchases, req[r].p = x,
         \/ reconcileFind(r) \/ reconcileFetch(r) \/ fetchFails(r)
         \/ reconcileRead(r)
  PROVE  Sound'
<1>1. RequestSound(r)
  BY DEF IInv, Sound
<1>2. UNCHANGED <<row, payment, offered, applied>>
  BY DEF reconcileFind, reconcileFetch, fetchFails, reconcileRead, world
<1>3. webhooks' \subseteq webhooks
  BY DEF reconcileFind, reconcileFetch, fetchFails, reconcileRead, Acknowledge
<1>4. /\ RequestSound(r)'
      /\ req'[r].step # "idle" =>
           req'[r].p = x /\ req'[r].step \notin CheckoutStep
      /\ \A s \in Requests \ {r} : req'[s] = req[s]
  <2>1. CASE Respond(r)
    BY <2>1, RespondFields DEF IInv, RequestSound
  <2>2. CASE reconcileFind(r) /\ ~Respond(r)
    <3>1. /\ Go(r, "fetch") /\ row[x].yookassaPaymentId
          /\ row[x].status = "PENDING" /\ req[r].step = "find"
      BY <2>2 DEF reconcileFind
    <3> QED
      BY <1>1, <1>2, <3>1, GoFields DEF IInv, RequestSound, CheckoutStep
  <2>3. CASE reconcileFetch(r) /\ ~Respond(r)
    <3>1. /\ req[r].step = "fetch"
          /\ \/ Go(r, "read") /\ payment[x] = "succeeded"
             \/ Go(r, "cancelRow") /\ payment[x] = "canceled"
      BY <2>3 DEF reconcileFetch
    <3> QED
      BY <1>1, <1>2, <3>1, GoFields DEF IInv, RequestSound, CheckoutStep
  <2>4. CASE reconcileRead(r) /\ ~Respond(r)
    <3> DEFINE seen == [c \in Columns |->
                          IF c \in Granted(req[r].p) THEN until[c] ELSE 0]
               q == [req[r] EXCEPT !.step = "write", !.now = today, !.seen = seen]
    <3>1. req[r].step = "read" /\ Become(r, q)
      BY <2>4 DEF reconcileRead
    <3> HIDE DEF seen
    <3>2. req[r] \in Request
      BY DEF IInv, TypeOK
    <3>3. q.step = "write" /\ q.p = x
      BY <3>2 DEF Request
    <3> HIDE DEF q
    <3>4. /\ req'[r] = q
          /\ \A s \in Requests \ {r} : req'[s] = req[s]
      BY <3>1, BecomeFields DEF IInv
    <3> QED
      BY <1>1, <1>2, <3>1, <3>3, <3>4 DEF RequestSound, CheckoutStep
  <2> QED
    BY <2>1, <2>2, <2>3, <2>4 DEF fetchFails
<1> QED
  BY <1>2, <1>3, <1>4, QuietStep DEF CheckoutStep

(* Two requests may well write: neither harms what the other knows.        *)
LEMMA WriteSound ==
  ASSUME IInv, NEW r \in Requests, NEW x \in Purchases, req[r].p = x,
         reconcileWrite(r) \/ reconcileCancel(r)
  PROVE  Sound'
<1>1. /\ PurchaseSound(x) /\ row[x].yookassaPaymentId
      /\ reconcileWrite(r) => payment[x] = "succeeded"
      /\ reconcileCancel(r) => payment[x] = "canceled"
  BY DEF IInv, Sound, RequestSound, reconcileWrite, reconcileCancel
<1>2. /\ req'[r].step = "idle"
      /\ \A s \in Requests \ {r} : req'[s] = req[s]
  BY RespondFields DEF IInv, reconcileWrite, reconcileCancel
<1>3. UNCHANGED <<payment, offered>> /\ webhooks' \subseteq webhooks
  BY DEF reconcileWrite, reconcileCancel, Acknowledge, world
<1>4. /\ \A p \in Purchases \ {x} : row'[p] = row[p]
      /\ row'[x].yookassaPaymentId = row[x].yookassaPaymentId
      /\ \/ row'[x].status = row[x].status
         \/ row'[x].status = "SUCCEEDED" /\ payment[x] = "succeeded"
         \/ row'[x].status = "CANCELED" /\ payment[x] = "canceled"
  <2>1. CASE UNCHANGED row
    BY <2>1
  <2> TypeOK
    BY DEF IInv
  <2>2. CASE reconcileWrite(r) /\ SetStatus(x, "SUCCEEDED")
    <3>1. /\ \A p \in Purchases \ {x} : row'[p] = row[p]
          /\ row'[x].yookassaPaymentId = row[x].yookassaPaymentId
          /\ row'[x].status = "SUCCEEDED"
      BY <2>2, StatusFields
    <3> QED
      BY <1>1, <2>2, <3>1
  <2>3. CASE reconcileCancel(r) /\ SetStatus(x, "CANCELED")
    <3>1. /\ \A p \in Purchases \ {x} : row'[p] = row[p]
          /\ row'[x].yookassaPaymentId = row[x].yookassaPaymentId
          /\ row'[x].status = "CANCELED"
      BY <2>3, StatusFields
    <3> QED
      BY <1>1, <2>3, <3>1
  <2> QED
    BY <2>1, <2>2, <2>3 DEF reconcileWrite, reconcileCancel
<1>5. /\ \A p \in Purchases \ {x} : applied'[p] = applied[p]
      /\ applied'[x] # applied[x] => payment[x] = "succeeded"
  BY <1>1 DEF IInv, TypeOK, reconcileWrite, reconcileCancel, world
<1>6. Local(r, x)
  BY <1>2, <1>3, <1>4, <1>5 DEF Local
<1>7. PurchaseSound(x)'
  BY <1>1, <1>3, <1>4, <1>5 DEF PurchaseSound
<1>8. RequestSound(r)'
  BY <1>2 DEF RequestSound
<1>9. ASSUME NEW s \in Requests \ {r}, req[s].step # "idle", req[s].p = x
      PROVE  RequestSound(s)'
  <2>1. RequestSound(s) /\ req'[s] = req[s]
    BY <1>2 DEF IInv, Sound
  <2>2. row[x].status # "NEW" /\ row'[x].status # "NEW"
    BY <1>1, <1>4 DEF PurchaseSound
  <2>3. req[s].step \notin CheckoutStep
    BY <1>1, <1>9, <2>1 DEF RequestSound
  <2> QED
    BY <1>1, <1>3, <1>4, <1>9, <2>1, <2>2, <2>3 DEF RequestSound, CheckoutStep
<1> QED
  BY <1>2, <1>6, <1>7, <1>8, <1>9, LocalStep DEF CheckoutStep

-----------------------------------------------------------------------------
(* New requests, and everything that is not a request.                     *)

LEMMA StartSound ==
  ASSUME IInv, NEW r \in Requests, NEW x \in Purchases,
         \/ checkoutRead(r, x) \/ handleWebhook(r, x) \/ checkStatus(r, x)
  PROVE  Sound'
<1>1. PurchaseSound(x) /\ RequestSound(r)
  BY DEF IInv, Sound
<1>2. UNCHANGED <<row, payment, offered, webhooks, applied>>
  BY DEF checkoutRead, handleWebhook, checkStatus, world
<1>3. /\ \A s \in Requests \ {r} : req'[s] = req[s]
      /\ req'[r].p = x
      /\ \/ /\ req'[r].step = "create" /\ row[x].status = "NEW"
            /\ \A s \in Requests : req[s].p # x
         \/ req'[r].step = "find" /\ row[x].status # "NEW"
  <2>1. CASE checkoutRead(r, x)
    <3>1. Become(r, At("create", x, FALSE))
      BY <2>1 DEF checkoutRead
    <3>2. req'[r].step = "create" /\ req'[r].p = x
      BY <3>1, BecomeFields DEF IInv, At
    <3> QED
      BY <2>1, <3>1, <3>2, BecomeFields DEF IInv, checkoutRead
  <2>2. CASE handleWebhook(r, x)
    <3>1. Become(r, At("find", x, TRUE)) /\ row[x].status # "NEW"
      BY <1>1, <2>2 DEF handleWebhook, PurchaseSound
    <3>2. req'[r].step = "find" /\ req'[r].p = x
      BY <3>1, BecomeFields DEF IInv, At
    <3> QED
      BY <3>1, <3>2, BecomeFields DEF IInv
  <2>3. CASE checkStatus(r, x)
    <3>1. Become(r, At("find", x, FALSE)) /\ row[x].status # "NEW"
      BY <2>3 DEF checkStatus, Alive
    <3>2. req'[r].step = "find" /\ req'[r].p = x
      BY <3>1, BecomeFields DEF IInv, At
    <3> QED
      BY <3>1, <3>2, BecomeFields DEF IInv
  <2> QED
    BY <2>1, <2>2, <2>3
<1>4. RequestSound(r)'
  BY <1>1, <1>2, <1>3 DEF RequestSound, PurchaseSound, CheckoutStep
<1> QED
  BY <1>2, <1>3, <1>4, QuietStep DEF CheckoutStep

LEMMA SettleSound ==
  ASSUME IInv, NEW x \in Purchases, pay(x) \/ expire(x)
  PROVE  Sound'
<1>1. /\ payment[x] = "pending" /\ payment'[x] \in {"succeeded", "canceled"}
      /\ payment'[x] = "succeeded" => x \in offered
      /\ \A p \in Purchases \ {x} : payment'[p] = payment[p]
      /\ webhooks' = webhooks \cup {x}
      /\ UNCHANGED <<row, offered, req, applied>>
  BY DEF IInv, TypeOK, pay, expire, Settle
<1>2. ASSUME NEW p \in Purchases PROVE PurchaseSound(p)'
  BY <1>1 DEF IInv, Sound, PurchaseSound
<1>3. ASSUME NEW r \in Requests PROVE RequestSound(r)'
  BY <1>1 DEF IInv, Sound, RequestSound
<1>4. Exclusive'
  BY <1>1 DEF IInv, Sound, Exclusive
<1> QED
  BY <1>2, <1>3, <1>4 DEF Sound

LEMMA RemoveSound ==
  ASSUME IInv, NEW ad \in Ads, removeAd(ad)
  PROVE  Sound'
<1>1. UNCHANGED <<payment, offered, webhooks, req, applied>>
  BY DEF removeAd
<1>2. ASSUME NEW p \in Purchases
      PROVE  /\ row'[p].yookassaPaymentId = row[p].yookassaPaymentId
             /\ \/ row'[p].status = row[p].status
                \/ row'[p].status = "GONE" /\ row[p].status # "NEW"
  <2>1. row[p] \in Purchase
    BY DEF IInv, TypeOK
  <2> QED
    BY <2>1 DEF removeAd, Alive, Purchase
<1>3. ASSUME NEW p \in Purchases PROVE PurchaseSound(p)'
  BY <1>1, <1>2 DEF IInv, Sound, PurchaseSound
<1>4. ASSUME NEW r \in Requests PROVE RequestSound(r)'
  <2>1. RequestSound(r)
    BY DEF IInv, Sound
  <2> QED
    BY <1>1, <1>2, <2>1 DEF RequestSound, CheckoutStep
<1>5. Exclusive'
  BY <1>1 DEF IInv, Sound, Exclusive
<1> QED
  BY <1>3, <1>4, <1>5 DEF Sound

LEMMA CrashSound ==
  ASSUME IInv, Crash
  PROVE  Sound'
<1>1. UNCHANGED <<row, payment, offered, webhooks, applied>>
  BY DEF Crash
<1>2. \A r \in Requests : req'[r].step = "idle"
  BY DEF Crash, Idle, At
<1>3. ASSUME NEW p \in Purchases PROVE PurchaseSound(p)'
  BY <1>1 DEF IInv, Sound, PurchaseSound
<1> QED
  BY <1>2, <1>3 DEF Sound, RequestSound, Exclusive, CheckoutStep

LEMMA OtherSound ==
  ASSUME IInv, UNCHANGED <<row, payment, offered, webhooks, req, applied>>
  PROVE  Sound'
<1>1. ASSUME NEW p \in Purchases PROVE PurchaseSound(p)'
  BY DEF IInv, Sound, PurchaseSound
<1>2. ASSUME NEW r \in Requests PROVE RequestSound(r)'
  BY DEF IInv, Sound, RequestSound
<1>3. Exclusive'
  BY DEF IInv, Sound, Exclusive
<1> QED
  BY <1>1, <1>2, <1>3 DEF Sound

-----------------------------------------------------------------------------
(* The theorems.                                                           *)

LEMMA InitSound == Init => IInv
<1> SUFFICES ASSUME Init PROVE IInv
  OBVIOUS
<1>1. TypeOK
  BY IdleIsRequest, PaymentsAssumption DEF Init, TypeOK, Purchase, AutoIdle
<1>2. Sound
  BY DEF Init, Sound, PurchaseSound, RequestSound, Exclusive, Idle,
         At, CheckoutStep
<1> QED
  BY <1>1, <1>2 DEF IInv

LEMMA HandlerHasPurchase ==
  ASSUME IInv, NEW r \in Requests, HandlerStep(r)
  PROVE  req[r].p \in Purchases
  BY DEF IInv, Sound, RequestSound, HandlerStep, checkoutCreate, postPayment,
     postFails, checkoutCancel, checkoutRecord, reconcileFind, reconcileFetch,
     fetchFails, reconcileRead, reconcileWrite, reconcileCancel

LEMMA StepSound == IInv /\ [Next]_vars => IInv'
<1> SUFFICES ASSUME IInv, [Next]_vars PROVE IInv'
  OBVIOUS
<1>1. ASSUME NEW r \in Requests, HandlerStep(r) PROVE IInv'
  <2>1. PICK x \in Purchases : req[r].p = x
    BY <1>1, HandlerHasPurchase
  <2>2. TypeOK'
    BY <1>1, <2>1, TypeCheckoutStep, TypeReconcileStep DEF IInv, HandlerStep
  <2>3. Sound'
    BY <1>1, <2>1, CreateSound, PostSound, CancelSound, RecordSound,
       FindSound, WriteSound DEF HandlerStep
  <2> QED
    BY <2>2, <2>3 DEF IInv
<1>2. ASSUME NEW r \in Requests, NEW p \in Purchases,
             \/ checkoutRead(r, p) \/ handleWebhook(r, p) \/ checkStatus(r, p)
      PROVE  IInv'
  BY <1>2, TypeCheckout, StartSound DEF IInv
<1>3. ASSUME NEW p \in Purchases, pay(p) \/ expire(p) PROVE IInv'
  BY <1>3, TypeWorld, SettleSound DEF IInv
<1>4. ASSUME NEW ad \in Ads, removeAd(ad) PROVE IInv'
  BY <1>4, TypeWorld, RemoveSound DEF IInv
<1>5. CASE Crash
  BY <1>5, TypeWorld, CrashSound DEF IInv
<1>6. CASE AutoStep \/ (\E ad \in Ads : changeAd(ad)) \/ Tick
  <2>1. UNCHANGED <<row, payment, offered, webhooks, req, applied>>
    BY <1>6 DEF AutoStep, autoRead, autoWrite, changeAd, Tick
  <2> QED
    BY <1>6, <2>1, TypeWorld, OtherSound DEF IInv
<1>7. CASE UNCHANGED vars
  <2>1. TypeOK'
    BY <1>7 DEF IInv, TypeOK, vars
  <2> QED
    BY <1>7, <2>1, OtherSound DEF IInv, vars
<1> QED
  BY <1>1, <1>2, <1>3, <1>4, <1>5, <1>6, <1>7 DEF Next

(* The inductive invariant: a row and its payment agree, and a suspended   *)
(* request knows the truth about the payment it is about to act on.        *)
THEOREM InductiveInvariant == Spec => []IInv
  BY InitSound, StepSound, PTL DEF Spec

(* Types.                                                                  *)
THEOREM TypeCorrect == Spec => []TypeOK
<1>1. IInv => TypeOK
  BY DEF IInv
<1> QED
  BY <1>1, InductiveInvariant, PTL

(* reconcilePayment credits no purchase that YooKassa has not confirmed,   *)
(* whoever starts it and however often.                                    *)
THEOREM NothingForFree == Spec => []CreditedWasPaid
<1>1. IInv => CreditedWasPaid
  BY DEF IInv, Sound, PurchaseSound, CreditedWasPaid
<1> QED
  BY <1>1, InductiveInvariant, PTL

-----------------------------------------------------------------------------
(* No purchase is left PENDING without its payment's id: a checkout is     *)
(* about to tell it, or to give it up.                                     *)

Unpaired(p) == row[p].status = "PENDING" /\ ~row[p].yookassaPaymentId

Attended(p) ==
  \E r \in Requests :
    req[r].p = p /\ req[r].step \in {"post", "record", "cancel"}

NoneLeft == crashes = 0 => \A p \in Purchases : Unpaired(p) => Attended(p)

(* A handler's step concerns its own slot and its own purchase only.       *)
LEMMA HandlerIsLocal ==
  ASSUME IInv, NEW r \in Requests, NEW x \in Purchases, req[r].p = x,
         HandlerStep(r)
  PROVE  /\ \A s \in Requests \ {r} : req'[s] = req[s]
         /\ \A p \in Purchases \ {x} :
              /\ row'[p] = row[p] /\ payment'[p] = payment[p]
              /\ applied'[p] = applied[p]
         /\ UNCHANGED <<ads, auto, today, crashes>>
<1> USE DEF IInv
<1>1. CASE checkoutCreate(r)
  BY <1>1, StatusFields, GoFields, RespondFields DEF checkoutCreate, world
<1>2. CASE postPayment(r) \/ postFails(r)
  <2>1. /\ Go(r, "record") \/ Go(r, "cancel")
        /\ \E outcome \in {"none", "pending"} :
             payment' = [payment EXCEPT ![x] = outcome]
        /\ UNCHANGED <<ads, row, auto, applied, today, crashes>>
    BY <1>2 DEF postPayment, postFails
  <2>2. \A s \in Requests \ {r} : req'[s] = req[s]
    BY <2>1, GoFields
  <2>3. \A p \in Purchases \ {x} : payment'[p] = payment[p]
    BY <2>1 DEF TypeOK
  <2> QED
    BY <2>1, <2>2, <2>3
<1>3. CASE checkoutCancel(r)
  BY <1>3, StatusFields, RespondFields DEF checkoutCancel, world
<1>4. CASE checkoutRecord(r)
  BY <1>4, RespondFields DEF TypeOK, checkoutRecord, world
<1>5. CASE reconcileFind(r) \/ reconcileFetch(r) \/ fetchFails(r)
  BY <1>5, GoFields, RespondFields
  DEF reconcileFind, reconcileFetch, fetchFails, world
<1>6. CASE reconcileRead(r)
  BY <1>6, BecomeFields, RespondFields DEF reconcileRead, world
<1>7. CASE reconcileWrite(r)
  BY <1>7, StatusFields, RespondFields DEF TypeOK, reconcileWrite
<1>8. CASE reconcileCancel(r)
  BY <1>8, StatusFields, RespondFields DEF reconcileCancel, world
<1> QED
  BY <1>1, <1>2, <1>3, <1>4, <1>5, <1>6, <1>7, <1>8 DEF HandlerStep

(* Who leaves a checkout has stored the id, or given the purchase up.      *)
LEMMA HandlerAttends ==
  ASSUME IInv, NEW r \in Requests, NEW x \in Purchases, req[r].p = x,
         HandlerStep(r), Unpaired(x) => Attended(x)
  PROVE  Unpaired(x)' => Attended(x)'
<1> SUFFICES ASSUME Unpaired(x)' PROVE Attended(x)'
  OBVIOUS
<1> USE DEF IInv
<1>1. \A s \in Requests \ {r} : req'[s] = req[s]
  BY HandlerIsLocal
<1>2. CASE checkoutCreate(r)
  <2>1. Go(r, "post")
    BY <1>2, StatusFields DEF checkoutCreate, Unpaired
  <2> QED
    BY <2>1, GoFields DEF Attended
<1>3. CASE postPayment(r) \/ postFails(r)
  <2>1. Go(r, "record") \/ Go(r, "cancel")
    BY <1>3 DEF postPayment, postFails
  <2> QED
    BY <2>1, GoFields DEF Attended
<1>4. CASE checkoutCancel(r)
  BY <1>4, StatusFields DEF checkoutCancel, Unpaired, Alive
<1>5. CASE checkoutRecord(r)
  BY <1>5 DEF TypeOK, checkoutRecord, Unpaired, Alive, Purchase
<1>6. CASE \/ reconcileFind(r) \/ reconcileFetch(r) \/ fetchFails(r)
           \/ reconcileRead(r) \/ reconcileWrite(r) \/ reconcileCancel(r)
  <2>1. req[r].step \notin {"post", "record", "cancel"}
    BY <1>6 DEF reconcileFind, reconcileFetch, fetchFails, reconcileRead,
       reconcileWrite, reconcileCancel
  <2>2. UNCHANGED row \/ SetStatus(x, "SUCCEEDED") \/ SetStatus(x, "CANCELED")
    BY <1>6 DEF reconcileFind, reconcileFetch, fetchFails, reconcileRead,
       reconcileWrite, reconcileCancel
  <2>3. Unpaired(x)
    BY <2>2, StatusFields DEF Unpaired
  <2> QED
    BY <1>1, <2>1, <2>3 DEF Attended
<1> QED
  BY <1>2, <1>3, <1>4, <1>5, <1>6 DEF HandlerStep

LEMMA StepLeavesNone ==
  ASSUME IInv, NoneLeft, [Next]_vars
  PROVE  NoneLeft'
<1> SUFFICES ASSUME crashes' = 0, NEW p \in Purchases, Unpaired(p)'
             PROVE  Attended(p)'
  BY DEF NoneLeft
<1>1. crashes = 0 /\ ~Crash
  <2>1. crashes \in Nat
    BY DEF IInv, TypeOK
  <2>2. ~Crash
    BY <2>1 DEF Crash
  <2>3. UNCHANGED crashes
    <3>1. ASSUME NEW r \in Requests, HandlerStep(r) PROVE UNCHANGED crashes
      BY <3>1 DEF HandlerStep, checkoutCreate, postPayment, postFails,
         checkoutCancel, checkoutRecord, reconcileFind, reconcileFetch,
         fetchFails, reconcileRead, reconcileWrite, reconcileCancel, world
    <3> QED
      BY <2>2, <3>1 DEF Next, checkoutRead, handleWebhook, checkStatus, pay,
         expire, Settle, AutoStep, autoRead, autoWrite, changeAd, removeAd,
         Tick, world, vars
  <2> QED
    BY <2>2, <2>3
<1>2. Unpaired(p) => Attended(p)
  BY <1>1 DEF NoneLeft
<1>3. ASSUME NEW r \in Requests, HandlerStep(r) PROVE Attended(p)'
  <2>1. PICK x \in Purchases : req[r].p = x
    BY <1>3, HandlerHasPurchase
  <2>2. CASE p = x
    BY <1>2, <1>3, <2>1, <2>2, HandlerAttends
  <2>3. CASE p # x
    <3>1. row'[p] = row[p] /\ \A s \in Requests \ {r} : req'[s] = req[s]
      BY <1>3, <2>1, <2>3, HandlerIsLocal
    <3>2. Attended(p)
      BY <1>2, <3>1 DEF Unpaired
    <3> QED
      BY <2>1, <2>3, <3>1, <3>2 DEF Attended
  <2> QED
    BY <2>2, <2>3
<1>4. ASSUME NEW r \in Requests, NEW x \in Purchases,
             \/ checkoutRead(r, x) \/ handleWebhook(r, x) \/ checkStatus(r, x)
      PROVE  Attended(p)'
  <2>1. /\ req[r].step = "idle" /\ UNCHANGED row
        /\ \E q \in {At("create", x, FALSE), At("find", x, TRUE),
                     At("find", x, FALSE)} : Become(r, q)
    BY <1>4 DEF checkoutRead, handleWebhook, checkStatus
  <2>2. \A s \in Requests \ {r} : req'[s] = req[s]
    BY <2>1, BecomeFields DEF IInv
  <2> QED
    BY <1>2, <2>1, <2>2 DEF Attended, Unpaired
<1>5. CASE UNCHANGED <<row, req>>
  BY <1>2, <1>5 DEF Attended, Unpaired
<1>6. ASSUME NEW ad \in Ads, removeAd(ad) PROVE Attended(p)'
  <2>1. row[p] \in Purchase
    BY DEF IInv, TypeOK
  <2>2. Unpaired(p) /\ UNCHANGED req
    BY <1>6, <2>1 DEF removeAd, Unpaired, Purchase, Alive
  <2> QED
    BY <1>2, <2>2 DEF Attended
<1> QED
  BY <1>1, <1>3, <1>4, <1>5, <1>6 DEF Next, pay, expire, Settle, AutoStep,
     autoRead, autoWrite, changeAd, Tick, vars

(* createCheckout leaves no purchase hanging while the server lives: a row *)
(* without its payment's id is one whose checkout is still under way.      *)
THEOREM NothingHangs == Spec => []NoHangingPending
<1>1. Init => NoneLeft
  BY DEF Init, NoneLeft, Unpaired
<1>2. NoneLeft => NoHangingPending
  BY DEF NoneLeft, NoHangingPending, Unpaired, Attended
<1> QED
  BY <1>1, <1>2, StepLeavesNone, InductiveInvariant, PTL DEF Spec

-----------------------------------------------------------------------------
(* A purchase without a row has lost it with its ad.                       *)
GoneWithAd == \A p \in Purchases : row[p].status = "GONE" => ~AdExists(p)

LEMMA StepKeepsGone ==
  ASSUME IInv, GoneWithAd, [Next]_vars
  PROVE  GoneWithAd'
<1> SUFFICES ASSUME NEW p \in Purchases, row'[p].status = "GONE"
             PROVE  ~AdExists(p)'
  BY DEF GoneWithAd
<1> USE DEF IInv
<1>1. ASSUME NEW ad \in Ads, ads[ad] = "GONE" PROVE ads'[ad] = "GONE"
  BY <1>1 DEF TypeOK, Next, HandlerStep, AutoStep, vars, world, checkoutRead,
     handleWebhook, checkStatus, checkoutCreate, postPayment, postFails,
     checkoutCancel, checkoutRecord, reconcileFind, reconcileFetch, fetchFails,
     reconcileRead, reconcileWrite, reconcileCancel, pay, expire, Settle,
     autoRead, autoWrite, changeAd, removeAd, Tick, Crash
<1>2. ~AdExists(p) => ~AdExists(p)'
  BY <1>1, PaymentsAssumption DEF AdExists
<1>3. CASE row[p].status = "GONE"
  BY <1>2, <1>3 DEF GoneWithAd
<1>4. CASE row[p].status # "GONE"
  <2>1. ASSUME NEW r \in Requests, HandlerStep(r) PROVE ~AdExists(p)
    <3>1. PICK x \in Purchases : req[r].p = x
      BY <2>1, HandlerHasPurchase
    <3>2. p = x
      BY <1>4, <2>1, <3>1, HandlerIsLocal
    <3>3. CASE checkoutCreate(r)
      BY <1>4, <3>1, <3>2, <3>3, StatusFields DEF checkoutCreate
    <3>4. CASE checkoutRecord(r)
      BY <1>4, <3>1, <3>2, <3>4 DEF TypeOK, Purchase, checkoutRecord
    <3>5. CASE ~checkoutCreate(r) /\ ~checkoutRecord(r)
      <4>1. \/ UNCHANGED row \/ SetStatus(x, "SUCCEEDED")
            \/ SetStatus(x, "CANCELED")
        BY <2>1, <3>1, <3>5 DEF HandlerStep, postPayment, postFails,
           checkoutCancel, reconcileFind, reconcileFetch, fetchFails,
           reconcileRead, reconcileWrite, reconcileCancel
      <4> QED
        BY <1>4, <3>2, <4>1, StatusFields
    <3> QED
      BY <3>3, <3>4, <3>5
  <2>2. ASSUME NEW ad \in Ads, removeAd(ad) PROVE ~AdExists(p)'
    <3>1. AdOf[p] = ad /\ ad # null
      BY <1>4, <2>2, PaymentsAssumption DEF TypeOK, removeAd
    <3>2. ads'[ad] = "GONE"
      BY <2>2 DEF TypeOK, removeAd
    <3> QED
      BY <3>1, <3>2 DEF AdExists
  <2>3. CASE UNCHANGED row
    BY <1>4, <2>3
  <2> QED
    BY <1>2, <2>1, <2>2, <2>3 DEF Next, AutoStep, vars, world, checkoutRead,
       handleWebhook, checkStatus, pay, expire, Settle, autoRead, autoWrite,
       changeAd, Tick, Crash
<1> QED
  BY <1>3, <1>4

(* createCheckout hands out no link to a payment that the webhook could    *)
(* not be matched with, and gives up no purchase that was paid: only the   *)
(* ad, when it is removed, takes the row of its purchase along.            *)
THEOREM NothingLost == Spec => []PayableIsRecognised
<1>1. Init => GoneWithAd
  BY DEF Init, GoneWithAd
<1>2. IInv /\ GoneWithAd /\ [Next]_vars => GoneWithAd'
  BY StepKeepsGone
<1>3. IInv /\ GoneWithAd => PayableIsRecognised
  BY DEF IInv, Sound, PurchaseSound, PayableIsRecognised, GoneWithAd
<1> QED
  BY <1>1, <1>2, <1>3, InductiveInvariant, PTL DEF Spec

-----------------------------------------------------------------------------
(* The promise, kept by one request at a time.                             *)

OneAtATime == \A r, s \in Requests : r = s

Reconciling == {"fetch", "read", "write", "cancelRow"}

(* The row says whether a purchase has been credited; the request under    *)
(* way finds its row as it was when it looked, or deleted, and the columns *)
(* as it read them.  Two requests for one purchase break both.             *)
SteadyPurchase(p) ==
  /\ applied[p] \in {0, 1}
  /\ applied[p] = 1 => row[p].status \in {"SUCCEEDED", "GONE"}
  /\ row[p].status = "SUCCEEDED" => applied[p] = 1

SteadyRequest(r) ==
  /\ req[r].step \in {"post", "record", "cancel"} \cup Reconciling =>
       row[req[r].p].status \in {"PENDING", "GONE"} /\ applied[req[r].p] = 0
  /\ req[r].step = "write" =>
       /\ req[r].now \in 1..today
       /\ \A c \in Granted(req[r].p) : req[r].seen[c] = until[c]

Steady ==
  /\ today # 0
  /\ \A p \in Purchases : SteadyPurchase(p)
  /\ \A r \in Requests : SteadyRequest(r)

LEMMA InitSteady ==
  ASSUME Init
  PROVE  Steady
  BY DEF Init, Steady, SteadyPurchase, SteadyRequest, Idle, At, Reconciling

(* With one slot there is nobody else to be disturbed by a handler's step. *)
LEMMA SteadyStep ==
  ASSUME OneAtATime, IInv, Steady, NEW r \in Requests, NEW x \in Purchases,
         \A p \in Purchases \ {x} :
           row'[p] = row[p] /\ applied'[p] = applied[p],
         UNCHANGED today,
         SteadyPurchase(x)', SteadyRequest(r)'
  PROVE  Steady'
<1>1. ASSUME NEW p \in Purchases PROVE SteadyPurchase(p)'
  <2>1. CASE p # x
    BY <2>1 DEF Steady, SteadyPurchase
  <2> QED
    BY <2>1
<1>2. \A s \in Requests : s = r
  BY DEF OneAtATime
<1> QED
  BY <1>1, <1>2 DEF Steady

LEMMA HandlerSteady ==
  ASSUME OneAtATime, IInv, Steady, NEW r \in Requests, NEW x \in Purchases,
         req[r].p = x, HandlerStep(r)
  PROVE  Steady'
<1> USE DEF IInv
<1> SUFFICES SteadyPurchase(x)' /\ SteadyRequest(r)'
  BY HandlerIsLocal, SteadyStep
<1>1. SteadyPurchase(x) /\ SteadyRequest(r) /\ PurchaseSound(x)
  BY DEF Sound, Steady
<1>2. CASE checkoutCreate(r)
  <2>1. /\ applied[x] = 0 /\ UNCHANGED applied
        /\ \/ SetStatus(x, "PENDING") /\ Go(r, "post")
           \/ SetStatus(x, "GONE") /\ Respond(r)
    BY <1>1, <1>2 DEF checkoutCreate, world, Sound, RequestSound, PurchaseSound
  <2>2. row'[x].status \in {"PENDING", "GONE"}
    BY <2>1, StatusFields
  <2>3. /\ req'[r].step \in {"post", "idle"}
        /\ req'[r].step = "post" => req'[r].p = x
    BY <2>1, GoFields, RespondFields
  <2> QED
    BY <2>1, <2>2, <2>3 DEF SteadyPurchase, SteadyRequest, Reconciling
<1>3. CASE postPayment(r) \/ postFails(r)
  <2>1. /\ req[r].step = "post" /\ UNCHANGED <<row, applied>>
        /\ Go(r, "record") \/ Go(r, "cancel")
    BY <1>3 DEF postPayment, postFails
  <2>2. req'[r].step \in {"record", "cancel"} /\ req'[r].p = x
    BY <2>1, GoFields
  <2> QED
    BY <1>1, <2>1, <2>2 DEF SteadyPurchase, SteadyRequest
<1>4. CASE checkoutCancel(r)
  <2>1. /\ req[r].step = "cancel" /\ UNCHANGED applied
        /\ SetStatus(x, "CANCELED") \/ UNCHANGED row
    BY <1>4 DEF checkoutCancel, world
  <2>2. applied[x] = 0 /\ row'[x].status \in {"PENDING", "GONE", "CANCELED"}
    BY <1>1, <2>1, StatusFields DEF SteadyRequest
  <2>3. req'[r].step = "idle"
    BY <1>4, RespondFields DEF checkoutCancel
  <2> QED
    BY <2>1, <2>2, <2>3 DEF SteadyPurchase, SteadyRequest, Reconciling
<1>5. CASE checkoutRecord(r)
  <2>1. UNCHANGED applied /\ row'[x].status = row[x].status
    BY <1>5 DEF checkoutRecord, world, TypeOK, Purchase
  <2>2. req'[r].step = "idle"
    BY <1>5, RespondFields DEF checkoutRecord
  <2> QED
    BY <1>1, <2>1, <2>2 DEF SteadyPurchase, SteadyRequest, Reconciling
<1>6. CASE reconcileFind(r) \/ reconcileFetch(r) \/ fetchFails(r)
  <2>1. UNCHANGED <<row, applied>>
    BY <1>6 DEF reconcileFind, reconcileFetch, fetchFails, world
  <2>2. \/ Respond(r)
        \/ Go(r, "fetch") /\ row[x].status = "PENDING"
        \/ /\ req[r].step = "fetch"
           /\ Go(r, "read") \/ Go(r, "cancelRow")
    BY <1>6 DEF reconcileFind, reconcileFetch, fetchFails
  <2>3. /\ req'[r].step \in {"idle", "fetch", "read", "cancelRow"}
        /\ req'[r].step # "idle" =>
             /\ req'[r].p = x
             /\ row[x].status \in {"PENDING", "GONE"} /\ applied[x] = 0
    BY <1>1, <2>2, GoFields, RespondFields
    DEF SteadyPurchase, SteadyRequest, Reconciling
  <2> QED
    BY <1>1, <2>1, <2>3 DEF SteadyPurchase, SteadyRequest, Reconciling
<1>7. CASE reconcileRead(r)
  <2>1. UNCHANGED <<row, applied, until, today>>
    BY <1>7 DEF reconcileRead, world
  <2>2. CASE Respond(r)
    BY <1>1, <2>1, <2>2, RespondFields
    DEF SteadyPurchase, SteadyRequest, Reconciling
  <2>3. CASE ~Respond(r)
    <3> DEFINE seen == [c \in Columns |->
                          IF c \in Granted(x) THEN until[c] ELSE 0]
               q == [req[r] EXCEPT !.step = "write", !.now = today, !.seen = seen]
    <3>1. req[r].step = "read" /\ Become(r, q)
      BY <1>7, <2>3 DEF reconcileRead
    <3>2. \A c \in Granted(x) : seen[c] = until[c]
      BY GrantedColumns
    <3> HIDE DEF seen
    <3>3. req[r] \in Request
      BY DEF TypeOK
    <3>4. q.step = "write" /\ q.p = x /\ q.now = today /\ q.seen = seen
      BY <3>3 DEF Request
    <3> HIDE DEF q
    <3>5. req'[r] = q
      BY <3>1, BecomeFields
    <3>6. today \in 1..today
      BY DEF TypeOK, Steady
    <3> QED
      BY <1>1, <2>1, <3>1, <3>2, <3>4, <3>5, <3>6
      DEF SteadyPurchase, SteadyRequest, Reconciling
  <2> QED
    BY <2>2, <2>3
<1>8. CASE reconcileWrite(r)
  <2>1. req[r].step = "write" /\ row[x].status \in {"PENDING", "GONE"} /\ applied[x] = 0
    BY <1>1, <1>8 DEF reconcileWrite, SteadyRequest, Reconciling
  <2>2. \/ UNCHANGED <<row, applied>>
        \/ SetStatus(x, "SUCCEEDED") /\ applied' = [applied EXCEPT ![x] = @ + 1]
    BY <1>8 DEF reconcileWrite
  <2>3. \/ row'[x] = row[x] /\ applied'[x] = 0
        \/ row'[x].status = "SUCCEEDED" /\ applied'[x] = 1
    BY <2>1, <2>2, StatusFields DEF TypeOK
  <2>4. req'[r].step = "idle"
    BY <1>8, RespondFields DEF reconcileWrite
  <2> QED
    BY <2>1, <2>3, <2>4 DEF SteadyPurchase, SteadyRequest, Reconciling
<1>9. CASE reconcileCancel(r)
  <2>1. /\ req[r].step = "cancelRow" /\ UNCHANGED applied
        /\ SetStatus(x, "CANCELED") \/ UNCHANGED row
    BY <1>9 DEF reconcileCancel, world
  <2>2. applied[x] = 0 /\ row'[x].status \in {"PENDING", "GONE", "CANCELED"}
    BY <1>1, <2>1, StatusFields DEF SteadyRequest, Reconciling
  <2>3. req'[r].step = "idle"
    BY <1>9, RespondFields DEF reconcileCancel
  <2> QED
    BY <2>1, <2>2, <2>3 DEF SteadyPurchase, SteadyRequest, Reconciling
<1> QED
  BY <1>2, <1>3, <1>4, <1>5, <1>6, <1>7, <1>8, <1>9 DEF HandlerStep

LEMMA StepSteady ==
  ASSUME OneAtATime, IInv, Steady, [Next]_vars
  PROVE  Steady'
<1>1. ASSUME NEW r \in Requests, HandlerStep(r) PROVE Steady'
  BY <1>1, HandlerHasPurchase, HandlerSteady
<1>2. ASSUME NEW r \in Requests, NEW x \in Purchases,
             \/ checkoutRead(r, x) \/ handleWebhook(r, x) \/ checkStatus(r, x)
      PROVE  Steady'
  <2>1. /\ UNCHANGED <<row, applied, today>>
        /\ \/ Become(r, At("create", x, FALSE))
           \/ Become(r, At("find", x, TRUE))
           \/ Become(r, At("find", x, FALSE))
    BY <1>2 DEF checkoutRead, handleWebhook, checkStatus, world
  <2>2. req'[r].step \in {"create", "find"}
    BY <2>1, BecomeFields DEF At, IInv
  <2>3. SteadyPurchase(x)' /\ SteadyRequest(r)'
    BY <2>1, <2>2 DEF Steady, SteadyPurchase, SteadyRequest, Reconciling
  <2> QED
    BY <2>1, <2>3, SteadyStep
<1>3. CASE UNCHANGED <<row, applied, req, until, today>>
  BY <1>3 DEF Steady, SteadyPurchase, SteadyRequest
<1>4. ASSUME NEW ad \in Ads, removeAd(ad) PROVE Steady'
  <2>1. UNCHANGED <<applied, req, until, today>>
    BY <1>4 DEF removeAd
  <2>2. ASSUME NEW p \in Purchases
        PROVE  \/ row'[p] = row[p]
               \/ row'[p].status = "GONE" /\ row[p].status # "NEW"
    <3>1. row[p] \in Purchase
      BY DEF IInv, TypeOK
    <3> QED
      BY <1>4, <3>1 DEF removeAd, Alive, Purchase
  <2>3. ASSUME NEW p \in Purchases PROVE SteadyPurchase(p)'
    <3>1. row[p].status = "SUCCEEDED" <=> applied[p] = 1 /\ row[p].status # "GONE"
      BY DEF Steady, SteadyPurchase
    <3> QED
      BY <2>1, <2>2, <3>1 DEF Steady, SteadyPurchase
  <2>4. ASSUME NEW r \in Requests PROVE SteadyRequest(r)'
    <3>1. req[r].step # "idle" => req[r].p \in Purchases
      BY DEF IInv, Sound, RequestSound
    <3> QED
      BY <2>1, <2>2, <3>1 DEF Steady, SteadyRequest, Reconciling
  <2> QED
    BY <2>1, <2>3, <2>4 DEF Steady
<1>5. CASE Tick
  <2>1. /\ UNCHANGED <<row, applied, req, until>> /\ today' = today + 1
        /\ today \in Nat
    BY <1>5 DEF Tick, IInv, TypeOK
  <2>2. ASSUME NEW now \in 1..today PROVE now \in 1..today'
    BY <2>1
  <2> QED
    BY <2>1, <2>2 DEF Steady, SteadyPurchase, SteadyRequest
<1>6. CASE Crash
  <2>1. /\ UNCHANGED <<row, applied, today>>
        /\ \A r \in Requests : req'[r].step = "idle"
    BY <1>6 DEF Crash, Idle, At
  <2> QED
    BY <2>1 DEF Steady, SteadyPurchase, SteadyRequest, Reconciling
<1> QED
  BY <1>1, <1>2, <1>3, <1>4, <1>5, <1>6
  DEF Next, pay, expire, Settle, AutoStep, autoRead, autoWrite, changeAd, vars

(* A step that leaves the purchases other than x alone moves x only.       *)
LEMMA LedgerMoves ==
  ASSUME NEW x \in Purchases,
         \A p \in Purchases \ {x} :
           /\ row'[p].status = row[p].status
           /\ payment'[p] = payment[p] /\ applied'[p] = applied[p]
  PROVE  Ledger' = [Ledger EXCEPT ![x] = Ledger'[x]]
<1>1. ASSUME NEW p \in Purchases \ {x} PROVE Ledger'[p] = Ledger[p]
  BY DEF Ledger
<1>2. Ledger = [p \in Purchases |-> Ledger[p]]
  BY DEF Ledger
<1>3. Ledger' = [p \in Purchases |-> Ledger'[p]]
  BY DEF Ledger
<1> QED
  BY <1>1, <1>2, <1>3

LEMMA LedgerStays ==
  ASSUME \A p \in Purchases : Ledger'[p] = Ledger[p]
  PROVE  Ledger' = Ledger
<1>1. Ledger = [p \in Purchases |-> Ledger[p]]
  BY DEF Ledger
<1>2. Ledger' = [p \in Purchases |-> Ledger'[p]]
  BY DEF Ledger
<1> QED
  BY <1>1, <1>2

promise == <<Ledger, until, today>>

(* A checkout opens the purchase, or refuses it, and may give it up.       *)
LEMMA CheckoutKeeps ==
  ASSUME IInv, Steady, NEW r \in Requests, NEW x \in Purchases,
         req[r].p = x,
         \/ checkoutCreate(r) \/ postPayment(r) \/ postFails(r)
         \/ checkoutCancel(r) \/ checkoutRecord(r)
  PROVE  [Promise!Next]_promise
<1> USE DEF IInv
<1>1. /\ SteadyPurchase(x) /\ SteadyRequest(r)
      /\ PurchaseSound(x) /\ RequestSound(r)
  BY DEF Steady, Sound
<1>2. UNCHANGED <<until, applied, today>>
  BY DEF checkoutCreate, postPayment, postFails, checkoutCancel,
     checkoutRecord, world
<1>3. Ledger' = [Ledger EXCEPT ![x] = Ledger'[x]]
  BY HandlerIsLocal, LedgerMoves DEF HandlerStep
<1>4. CASE checkoutCreate(r)
  <2>1. row[x].status = "NEW" /\ payment[x] = "none" /\ applied[x] = 0
    BY <1>1, <1>4 DEF checkoutCreate, RequestSound, PurchaseSound
  <2>2. UNCHANGED payment /\ row'[x].status \in {"PENDING", "GONE"}
    BY <1>4, StatusFields DEF checkoutCreate, world
  <2>3. Ledger[x] = "new" /\ Ledger'[x] \in {"open", "void"}
    BY <1>2, <2>1, <2>2 DEF Ledger
  <2>4. Promise!Open(x) \/ Promise!Refuse(x)
    BY <1>2, <1>3, <2>3 DEF Promise!Open, Promise!Refuse, Promise!Move
  <2> QED
    BY <2>4 DEF Promise!Next
<1>5. CASE \/ postPayment(r) \/ postFails(r) \/ checkoutRecord(r)
           \/ checkoutCancel(r) /\ UNCHANGED row
  <2>1. /\ row'[x].status = row[x].status
        /\ payment'[x] = "succeeded" <=> payment[x] = "succeeded"
    <3>1. CASE postPayment(r) \/ postFails(r)
      <4>1. /\ req[r].step = "post" /\ UNCHANGED row
            /\ \E outcome \in {"none", "pending"} :
                 payment' = [payment EXCEPT ![x] = outcome]
        BY <3>1 DEF postPayment, postFails
      <4>2. payment[x] = "none" /\ payment'[x] \in {"none", "pending"}
        BY <1>1, <4>1 DEF RequestSound, TypeOK
      <4> QED
        BY <4>1, <4>2
    <3>2. CASE checkoutRecord(r)
      BY <3>2 DEF checkoutRecord, world, TypeOK, Purchase
    <3>3. CASE checkoutCancel(r) /\ UNCHANGED row
      BY <3>3 DEF checkoutCancel, world
    <3> QED
      BY <1>5, <3>1, <3>2, <3>3
  <2>2. Ledger'[x] = Ledger[x]
    BY <1>2, <2>1 DEF Ledger
  <2>3. Ledger' = Ledger
    BY <1>3, <2>2 DEF Ledger
  <2> QED
    BY <1>2, <2>3 DEF promise
<1>6. CASE checkoutCancel(r) /\ ~UNCHANGED row
  <2>1. /\ req[r].step = "cancel" /\ Alive(x) /\ SetStatus(x, "CANCELED")
        /\ UNCHANGED payment
    BY <1>6 DEF checkoutCancel, world
  <2>2. /\ row[x].status = "PENDING" /\ applied[x] = 0
        /\ ~row[x].yookassaPaymentId
    BY <1>1, <2>1 DEF SteadyRequest, RequestSound, Alive, CheckoutStep
  <2>3. payment[x] # "succeeded"
    BY <1>1, <2>2 DEF PurchaseSound
  <2>4. row'[x].status = "CANCELED"
    BY <2>1, StatusFields
  <2>5. Ledger[x] = "open" /\ Ledger'[x] = "void"
    BY <1>2, <2>1, <2>2, <2>3, <2>4 DEF Ledger
  <2>6. Promise!GiveUp(x)
    BY <1>2, <1>3, <2>5 DEF Promise!GiveUp, Promise!Move
  <2> QED
    BY <2>6 DEF Promise!Next
<1> QED
  BY <1>4, <1>5, <1>6

(* The only write of a reconciliation credits the purchase, on top of the  *)
(* days that the columns still show.                                       *)
LEMMA CreditKeeps ==
  ASSUME IInv, Steady, NEW r \in Requests, NEW x \in Purchases,
         req[r].p = x, reconcileWrite(r), AdExists(x), Alive(x)
  PROVE  Promise!Credit(x)
<1> USE DEF IInv
<1>1. /\ req[r].step = "write" /\ UNCHANGED <<payment, today>>
      /\ SetStatus(x, "SUCCEEDED") /\ applied' = [applied EXCEPT ![x] = @ + 1]
      /\ until' = [c \in Columns |->
                     IF c \in Granted(x) THEN Extended(c, req[r].seen, req[r].now)
                                         ELSE until[c]]
  BY DEF reconcileWrite
<1>2. /\ SteadyRequest(r) /\ RequestSound(r)
  BY DEF Steady, Sound
<1>3. /\ row[x].status = "PENDING" /\ applied[x] = 0
      /\ payment[x] = "succeeded"
      /\ req[r].now \in 1..today
      /\ \A c \in Granted(x) : req[r].seen[c] = until[c]
  BY <1>1, <1>2 DEF SteadyRequest, RequestSound, Reconciling, Alive
<1>4. Ledger[x] = "paid"
  BY <1>3 DEF Ledger
<1>5. Ledger'[x] = "credited"
  <2>1. applied'[x] = 1
    BY <1>1, <1>3 DEF TypeOK
  <2> QED
    BY <2>1 DEF Ledger
<1>6. Ledger' = [Ledger EXCEPT ![x] = Ledger'[x]]
  BY HandlerIsLocal, LedgerMoves DEF HandlerStep
<1>7. until' = [c \in Columns |->
         IF c \notin Granted(x) THEN until[c]
         ELSE IF until[c] > req[r].now /\ ~(c[2] = "BADGE")
                THEN until[c] + Duration[c[2]]
                ELSE req[r].now + Duration[c[2]]]
  BY <1>1, <1>3 DEF Extended
<1> QED
  BY <1>1, <1>3, <1>4, <1>5, <1>6, <1>7 DEF Promise!Credit

LEMMA ReconcileKeeps ==
  ASSUME IInv, Steady, NEW r \in Requests, NEW x \in Purchases,
         req[r].p = x,
         \/ reconcileFind(r) \/ reconcileFetch(r) \/ fetchFails(r)
         \/ reconcileRead(r) \/ reconcileWrite(r) \/ reconcileCancel(r)
  PROVE  [Promise!Next]_promise
<1> USE DEF IInv
<1>1. CASE UNCHANGED <<row, payment, applied, until, today>>
  BY <1>1 DEF Ledger, promise
<1>2. CASE reconcileWrite(r) /\ AdExists(x) /\ Alive(x)
  BY <1>2, CreditKeeps DEF Promise!Next
<1>3. CASE reconcileCancel(r) /\ Alive(x)
  <2>1. /\ req[r].step = "cancelRow" /\ SetStatus(x, "CANCELED")
        /\ UNCHANGED <<payment, applied, until, today>>
    BY <1>3 DEF reconcileCancel, world
  <2>2. /\ row[x].status = "PENDING" /\ applied[x] = 0
        /\ payment[x] = "canceled"
    BY <1>3, <2>1 DEF Steady, SteadyRequest, Sound, RequestSound, Reconciling,
       Alive
  <2>3. row'[x].status = "CANCELED"
    BY <2>1, StatusFields
  <2>4. Ledger[x] = "open" /\ Ledger'[x] = "void"
    BY <2>1, <2>2, <2>3 DEF Ledger
  <2>5. Ledger' = [Ledger EXCEPT ![x] = Ledger'[x]]
    BY <1>3, HandlerIsLocal, LedgerMoves DEF HandlerStep
  <2>6. Promise!GiveUp(x)
    BY <2>1, <2>4, <2>5 DEF Promise!GiveUp, Promise!Move
  <2> QED
    BY <2>6 DEF Promise!Next
<1> QED
  BY <1>1, <1>2, <1>3 DEF reconcileFind, reconcileFetch, fetchFails,
     reconcileRead, reconcileWrite, reconcileCancel, world

(* The buyer pays, or YooKassa cancels what is open anyway.                *)
LEMMA SettleKeeps ==
  ASSUME IInv, NEW x \in Purchases, pay(x) \/ expire(x)
  PROVE  [Promise!Next]_promise
<1>1. /\ payment[x] = "pending" /\ payment'[x] \in {"succeeded", "canceled"}
      /\ payment'[x] = "succeeded" => pay(x)
      /\ \A p \in Purchases \ {x} : payment'[p] = payment[p]
      /\ UNCHANGED <<row, until, applied, today>>
  BY DEF IInv, TypeOK, pay, expire, Settle
<1>2. row[x].status # "NEW" /\ applied[x] = 0
  BY <1>1 DEF IInv, TypeOK, Sound, PurchaseSound
<1>3. Ledger' = [Ledger EXCEPT ![x] = Ledger'[x]]
  BY <1>1, LedgerMoves
<1>4. \/ Ledger'[x] = Ledger[x]
      \/ Ledger[x] = "open" /\ Ledger'[x] = "paid"
  BY <1>1, <1>2 DEF Ledger
<1>5. CASE Ledger'[x] = Ledger[x]
  BY <1>1, <1>3, <1>5 DEF Ledger, promise
<1>6. CASE Ledger[x] = "open" /\ Ledger'[x] = "paid"
  BY <1>1, <1>3, <1>6 DEF Promise!Next, Promise!Pay, Promise!Move
<1> QED
  BY <1>4, <1>5, <1>6

(* What was not credited goes with its ad; what was stays credited.        *)
LEMMA RemoveKeeps ==
  ASSUME IInv, Steady, NEW ad \in Ads, removeAd(ad)
  PROVE  [Promise!Next]_promise
<1>1. UNCHANGED <<payment, until, applied, today>>
  BY DEF removeAd
<1>2. ASSUME NEW p \in Purchases
      PROVE  Ledger'[p] = IF AdOf[p] = ad /\ Ledger[p] \in {"open", "paid"}
                            THEN "void" ELSE Ledger[p]
  <2>1. row[p] \in Purchase /\ applied[p] \in {0, 1}
    BY DEF IInv, TypeOK, Steady, SteadyPurchase
  <2>2. row'[p].status = IF AdOf[p] = ad /\ Alive(p) THEN "GONE"
                                                   ELSE row[p].status
    BY <2>1 DEF removeAd, Purchase
  <2> QED
    BY <1>1, <2>1, <2>2 DEF Ledger, Alive, Purchase
<1>3. CASE \E p \in Purchases : AdOf[p] = ad
  <2>1. Ledger' = [p \in Purchases |->
                     IF AdOf[p] = ad /\ Ledger[p] \in {"open", "paid"}
                       THEN "void" ELSE Ledger[p]]
    <3>1. Ledger' = [p \in Purchases |-> Ledger'[p]]
      BY DEF Ledger
    <3> QED
      BY <1>2, <3>1
  <2>2. Promise!Forfeit(ad)
    BY <1>1, <2>1 DEF Promise!Forfeit
  <2>3. ad # null
    BY PaymentsAssumption
  <2> QED
    BY <1>3, <2>2, <2>3 DEF Promise!Next
<1>4. CASE ~\E p \in Purchases : AdOf[p] = ad
  BY <1>1, <1>2, <1>4, LedgerStays DEF promise
<1> QED
  BY <1>3, <1>4

LEMMA StepKeeps ==
  ASSUME IInv, Steady, [Next]_vars
  PROVE  [Promise!Next]_promise
<1>1. ASSUME NEW r \in Requests, HandlerStep(r) PROVE [Promise!Next]_promise
  BY <1>1, HandlerHasPurchase, CheckoutKeeps, ReconcileKeeps DEF HandlerStep
<1>2. CASE UNCHANGED <<row, payment, applied, until, today>>
  BY <1>2 DEF Ledger, promise
<1>3. ASSUME NEW p \in Purchases, pay(p) \/ expire(p)
      PROVE  [Promise!Next]_promise
  BY <1>3, SettleKeeps
<1>4. ASSUME NEW ad \in Ads, removeAd(ad) PROVE [Promise!Next]_promise
  BY <1>4, RemoveKeeps
<1>5. CASE Tick
  <2>1. Ledger' = Ledger
    BY <1>5 DEF Tick, Ledger
  <2> QED
    BY <1>5, <2>1 DEF Tick, Promise!Next, Promise!NextDay
<1> QED
  BY <1>1, <1>2, <1>3, <1>4, <1>5
  DEF Next, checkoutRead, handleWebhook, checkStatus, AutoStep, autoRead,
      autoWrite, changeAd, Crash, world, vars

(* reconcilePayment keeps the promise when it is handled one request at a  *)
(* time, for any number of purchases, days and crashes: each is credited   *)
(* once, only when paid, and its days go on top of those still running.    *)
THEOREM PromiseKept ==
  ASSUME OneAtATime
  PROVE  Spec => KeepsPromise
<1>1. Init => Promise!Init
  BY DEF Init, Promise!Init, Ledger
<1>2. IInv /\ Steady /\ [Next]_vars
        => Steady' /\ [Promise!Next]_<<Ledger, until, today>>
  BY StepSteady, StepKeeps DEF promise
<1> QED
  BY <1>1, <1>2, InitSteady, InductiveInvariant, PTL
  DEF Spec, KeepsPromise, Promise!Spec

(* "Does nothing if the payment has been processed before": true as long   *)
(* as no two requests reconcile at once.                                   *)
THEOREM OnceWhenAlone ==
  ASSUME OneAtATime
  PROVE  Spec => []CreditedOnce
<1>1. Steady => CreditedOnce
  <2> SUFFICES ASSUME NEW p \in Purchases, applied[p] \in {0, 1}
               PROVE  applied[p] <= 1
    BY DEF Steady, SteadyPurchase, CreditedOnce
  <2> QED
    OBVIOUS
<1> QED
  BY <1>1, InitSteady, StepSteady, InductiveInvariant, PTL DEF Spec

-----------------------------------------------------------------------------
(* Lists read page by page: PagedLists.                                    *)

(* The instance counts as FiniteSets does.                                 *)
LEMMA SameCardinality == \A S : Lists!Cardinality(S) = Cardinality(S)
  BY DEF Lists!Cardinality, Cardinality

(* A set of naturals with a member has a least one.                        *)
LEMMA LeastNat ==
  ASSUME NEW T \in SUBSET Nat, T # {}
  PROVE  \E m \in T : \A n \in T : m <= n
<1>1. PICK m \in T : \A n \in T : ~(<<n, m>> \in OpToRel(<, Nat))
  <2>1. T \subseteq Nat
    OBVIOUS
  <2> QED  BY <2>1, WFMin, NatLessThanWellFounded
<1>2. \A n \in T : ~(n < m)
  <2>1. \A n \in T : n < m => <<n, m>> \in OpToRel(<, Nat)
    BY DEF OpToRel
  <2> QED  BY <2>1, <1>1
<1> QED  BY <1>2

(* What is kept of s when only the members of R are.                       *)
IsKept(k, s, R, m) ==
  k = [n \in 0..m |-> IF n = 0 THEN <<>>
                      ELSE IF s[n] \in R THEN Append(k[n - 1], s[n]) ELSE k[n - 1]]

(* The recursive definition of inRows is well-founded.                     *)
LEMMA KeptExists ==
  ASSUME NEW s, NEW R, NEW l \in Nat
  PROVE  \E k : IsKept(k, s, R, l)
<1> DEFINE Bad == {m \in 0..l : ~\E k : IsKept(k, s, R, m)}
<1> SUFFICES ASSUME Bad # {} PROVE FALSE
  OBVIOUS
<1>1. PICK m \in Bad : \A n \in Bad : m <= n
  BY LeastNat, Bad \in SUBSET Nat
<1>2. m # 0
  <2>1. IsKept([n \in 0..0 |-> <<>>], s, R, 0)
    BY DEF IsKept
  <2> QED  BY <2>1
<1>3. m - 1 \in 0..l /\ m \in 0..l /\ m - 1 < m
  BY <1>2
<1>4. PICK k : IsKept(k, s, R, m - 1)
  BY <1>1, <1>3
<1> DEFINE g == [n \in 0..m |->
                   IF n = m THEN IF s[m] \in R THEN Append(k[m - 1], s[m]) ELSE k[m - 1]
                   ELSE k[n]]
<1>5. ASSUME NEW n \in 0..m
      PROVE  g[n] = IF n = 0 THEN <<>>
                    ELSE IF s[n] \in R THEN Append(g[n - 1], s[n]) ELSE g[n - 1]
  <2>1. CASE n = m
    BY <2>1, <1>2, <1>3
  <2>2. CASE n # m
    <3>1. n \in 0..(m - 1) /\ (n # 0 => n - 1 \in 0..(m - 1))
      BY <2>2, <1>3
    <3>2. g[n] = k[n] /\ (n # 0 => g[n - 1] = k[n - 1])
      BY <3>1, <2>2, <1>3
    <3>3. k[n] = IF n = 0 THEN <<>>
                 ELSE IF s[n] \in R THEN Append(k[n - 1], s[n]) ELSE k[n - 1]
      BY <3>1, <1>4 DEF IsKept
    <3> QED  BY <3>2, <3>3
  <2> QED  BY <2>1, <2>2
<1>6. IsKept(g, s, R, m)
  BY <1>5 DEF IsKept
<1> QED  BY <1>6

(* Nothing falls out of a page whose rows all exist.                       *)
LEMMA InRows ==
  ASSUME NEW s \in Seq(Items)
  PROVE  /\ Lists!inRows(s) \in Seq(Items)
         /\ Lists!ToSet(s) \subseteq Lists!Rows => Lists!inRows(s) = s
<1> DEFINE R == Lists!Rows
           k == CHOOSE f : IsKept(f, s, R, Len(s))
<1>0. Len(s) \in Nat
  OBVIOUS
<1>1. IsKept(k, s, R, Len(s))
  BY KeptExists, <1>0
<1>2. Lists!inRows(s) = k[Len(s)]
  BY DEF Lists!inRows, IsKept
<1> HIDE DEF k, R
<1>3. \A n \in 0..Len(s) :
        k[n] = IF n = 0 THEN <<>>
               ELSE IF s[n] \in R THEN Append(k[n - 1], s[n]) ELSE k[n - 1]
  BY <1>1 DEF IsKept
<1>4. \A n \in 0..Len(s) : k[n] \in Seq(Items)
  <2> DEFINE Bad == {n \in 0..Len(s) : k[n] \notin Seq(Items)}
  <2> SUFFICES ASSUME Bad # {} PROVE FALSE
    OBVIOUS
  <2>1. PICK m \in Bad : \A n \in Bad : m <= n
    BY LeastNat, Bad \in SUBSET Nat
  <2>2. m # 0
    <3>1. k[0] = <<>> /\ <<>> \in Seq(Items)
      BY <1>3, <1>0
    <3> QED  BY <3>1, <2>1
  <2>3. m - 1 \in 0..Len(s) /\ m - 1 < m /\ m \in 1..Len(s)
    BY <2>2, <1>0
  <2>4. k[m - 1] \in Seq(Items)
    BY <2>1, <2>3
  <2>5. s[m] \in Items
    BY <2>3
  <2>6. k[m] \in {k[m - 1], Append(k[m - 1], s[m])}
    BY <1>3, <2>2, <2>3
  <2>7. k[m] \in Seq(Items)
    <3>1. Append(k[m - 1], s[m]) \in Seq(Items)
      <4> HIDE DEF Bad
      <4> QED  BY <2>4, <2>5, AppendProperties
    <3> QED  BY <3>1, <2>4, <2>6
  <2> QED  BY <2>7, <2>1
<1>5. ASSUME Lists!ToSet(s) \subseteq Lists!Rows PROVE k[Len(s)] = s
  <2> DEFINE Bad == {n \in 0..Len(s) : k[n] # SubSeq(s, 1, n)}
  <2>1. CASE Bad # {}
    <3>1. PICK m \in Bad : \A n \in Bad : m <= n
      BY <2>1, LeastNat, Bad \in SUBSET Nat
    <3>2. m # 0
      <4>1. k[0] = <<>> /\ SubSeq(s, 1, 0) = <<>>
        BY <1>3, <1>0
      <4> QED  BY <4>1, <3>1
    <3>3. m - 1 \in 0..Len(s) /\ m - 1 < m /\ m \in 1..Len(s)
      BY <3>2, <1>0
    <3>4. k[m - 1] = SubSeq(s, 1, m - 1)
      BY <3>1, <3>3
    <3>5. s[m] \in R
      BY <3>3, <1>5 DEF Lists!ToSet, R
    <3>6. k[m] = Append(SubSeq(s, 1, m - 1), s[m])
      BY <1>3, <3>2, <3>3, <3>4, <3>5
    <3>7. Append(SubSeq(s, 1, m - 1), s[m]) = SubSeq(s, 1, m)
      BY <3>3
    <3> QED  BY <3>6, <3>7, <3>1
  <2>2. CASE Bad = {}
    <3>1. k[Len(s)] = SubSeq(s, 1, Len(s))
      BY <2>2, <1>0
    <3> QED  BY <3>1, SubSeqFull
  <2> QED  BY <2>1, <2>2
<1> QED  BY <1>2, <1>4, <1>5, <1>0

-----------------------------------------------------------------------------
(* The order of a list.                                                    *)

(* What is listed before x.                                                *)
Ahead(x) == {y \in Lists!Listed : y # x /\ Lists!Goes(y, x)}

KeysAreNat == \A x \in Items : item[x].key \in Nat

(* In a list without ties the p-th item has p - 1 ahead of it.             *)
LEMMA SortedRanks ==
  ASSUME KeysAreNat, Lists!Untied, IsFiniteSet(Lists!Listed),
         NEW s \in Lists!Sorted(Lists!Listed)
  PROVE  /\ s \in Seq(Items) /\ Len(s) = Cardinality(Lists!Listed)
         /\ \A p \in 1..Len(s) :
              s[p] \in Lists!Listed /\ Cardinality(Ahead(s[p])) = p - 1
         /\ \A x \in Lists!Listed : \E p \in 1..Len(s) : s[p] = x
<1> DEFINE S == Lists!Listed
           n == Cardinality(S)
<1>0. n \in Nat /\ S \subseteq Items
  BY FS_CardinalityType DEF Lists!Listed
<1>1. s \in [1..n -> S] /\ \A i, j \in 1..n : i # j => s[i] # s[j]
  BY SameCardinality DEF Lists!Sorted, Lists!SetToSeqs
<1>2. Len(s) = n /\ s \in Seq(Items) /\ DOMAIN s = 1..n
  BY <1>0, <1>1
<1>3. \A i, j \in 1..n : i < j => Lists!Goes(s[i], s[j])
  BY <1>2 DEF Lists!Sorted
<1>4. \A x \in S : \E p \in 1..n : s[p] = x
  <2>1. s \in Injection(1..n, S)
    BY <1>1 DEF Injection, IsInjective
  <2>2. Cardinality(1..n) = n
    BY FS_Interval, <1>0
  <2>3. s \in Surjection(1..n, S)
    BY <2>1, <2>2, FS_Injection
  <2> QED  BY <2>3 DEF Surjection
<1>5. ASSUME NEW p \in 1..n
      PROVE  Cardinality(Ahead(s[p])) = p - 1
  <2>1. Ahead(s[p]) = {s[i] : i \in 1..(p - 1)}
    <3>1. ASSUME NEW i \in 1..(p - 1) PROVE s[i] \in Ahead(s[p])
      <4>1. i \in 1..n /\ i < p
        BY <1>0
      <4> QED  BY <4>1, <1>1, <1>3 DEF Ahead
    <3>2. ASSUME NEW y \in Ahead(s[p]) PROVE \E i \in 1..(p - 1) : s[i] = y
      <4>1. y \in S /\ y # s[p] /\ Lists!Goes(y, s[p])
        BY DEF Ahead
      <4>2. PICK i \in 1..n : s[i] = y
        BY <4>1, <1>4
      <4>3. i < p
        <5>1. SUFFICES ASSUME p < i PROVE FALSE
          BY <4>1, <4>2, <1>0
        <5>2. Lists!Goes(s[p], y)
          BY <5>1, <1>3, <4>2
        <5>3. item[y].key = item[s[p]].key
          <6>1. item[y].key \in Nat /\ item[s[p]].key \in Nat
            BY <1>0, <1>1, <4>1 DEF KeysAreNat
          <6> QED  BY <5>2, <4>1, <6>1 DEF Lists!Goes
        <5> QED  BY <5>3, <4>1, <1>1 DEF Lists!Untied
      <4> QED  BY <4>2, <4>3, <1>0
    <3> QED  BY <3>1, <3>2
  <2>2. [i \in 1..(p - 1) |-> s[i]] \in Bijection(1..(p - 1), Ahead(s[p]))
    <3> DEFINE f == [i \in 1..(p - 1) |-> s[i]]
    <3>1. \A i \in 1..(p - 1) : i \in 1..n
      BY <1>0
    <3>2. f \in Injection(1..(p - 1), Ahead(s[p]))
      <4>1. f \in [1..(p - 1) -> Ahead(s[p])]
        BY <2>1
      <4>2. \A i, j \in 1..(p - 1) : f[i] = f[j] => i = j
        BY <1>1, <3>1
      <4> QED  BY <4>1, <4>2 DEF Injection, IsInjective
    <3>3. f \in Surjection(1..(p - 1), Ahead(s[p]))
      BY <2>1 DEF Surjection
    <3> QED  BY <3>2, <3>3 DEF Bijection
  <2>3. IsFiniteSet(1..(p - 1)) /\ Cardinality(1..(p - 1)) = p - 1
    <3>1. 1 \in Int /\ p - 1 \in Int /\ p >= 1
      BY <1>0
    <3>2. (IF 1 > p - 1 THEN 0 ELSE (p - 1) - 1 + 1) = p - 1
      BY <3>1
    <3> HIDE DEF n
    <3> QED  BY <3>1, <3>2, FS_Interval
  <2> QED  BY <2>2, <2>3, FS_Bijection DEF ExistsBijection
<1> QED  BY <1>1, <1>2, <1>4, <1>5

(* Such a list can be sorted in one way only.                              *)
LEMMA SortedUnique ==
  ASSUME KeysAreNat, Lists!Untied, IsFiniteSet(Lists!Listed),
         NEW s \in Lists!Sorted(Lists!Listed), NEW t \in Lists!Sorted(Lists!Listed)
  PROVE  s = t
<1>1. s \in Seq(Items) /\ t \in Seq(Items) /\ Len(s) = Len(t)
  BY SortedRanks
<1>2. ASSUME NEW p \in 1..Len(s) PROVE s[p] = t[p]
  <2>1. s[p] \in Lists!Listed /\ Cardinality(Ahead(s[p])) = p - 1
    BY SortedRanks
  <2>2. PICK q \in 1..Len(t) : t[q] = s[p]
    BY <2>1, SortedRanks
  <2>3. Cardinality(Ahead(t[q])) = q - 1
    BY SortedRanks
  <2>4. q = p
    BY <2>1, <2>2, <2>3
  <2> QED  BY <2>2, <2>4
<1> QED  BY <1>1, <1>2, SeqEqual

LEMMA LengthOfSet ==
  ASSUME NEW S, IsFiniteSet(S)
  PROVE  Len(Lists!SetToSeq(S)) = Cardinality(S)
<1> DEFINE n == Cardinality(S)
<1>1. n \in Nat /\ \E f \in [1..n -> S] : Lists!IsInjective(f)
  <2>1. PICK f \in Bijection(1..n, S) : TRUE
    BY FS_CardinalityType DEF ExistsBijection
  <2>2. f \in [1..n -> S] /\ \A i, j \in 1..n : f[i] = f[j] => i = j
    BY <2>1 DEF Bijection, Injection, IsInjective
  <2>3. Lists!IsInjective(f)
    BY <2>2 DEF Lists!IsInjective
  <2> QED  BY <2>2, <2>3, FS_CardinalityType
<1>2. Lists!SetToSeq(S) \in [1..n -> S]
  BY <1>1, SameCardinality DEF Lists!SetToSeq
<1> QED  BY <1>1, <1>2

-----------------------------------------------------------------------------
(* The pages of a list.                                                    *)

(* The first m items.                                                      *)
Upto(s, m) == SubSeq(s, 1, IF m < Len(s) THEN m ELSE Len(s))

LEMMA SkipIsNat ==
  ASSUME reader.page \in Nat \ {0}
  PROVE  /\ Lists!Skip \in Nat /\ Limit \in Nat \ {0}
         /\ reader.page = 1 => Lists!Skip = 0
         /\ reader'.page = reader.page + 1 => Lists!Skip' = Lists!Skip + Limit
<1>1. Limit \in Nat \ {0}
  BY PartsAssumption DEF Lists!PagedListsAssumption
<1>2. \A m \in Nat : m * Limit \in Nat
  BY <1>1
<1>3. reader.page - 1 \in Nat
  OBVIOUS
<1>4. Lists!Skip \in Nat
  BY <1>2, <1>3 DEF Lists!Skip
<1>5. ASSUME reader'.page = reader.page + 1
      PROVE  Lists!Skip' = Lists!Skip + Limit
  <2>1. Lists!Skip' = (reader.page + 1 - 1) * Limit
    BY <1>5 DEF Lists!Skip
  <2>2. reader.page + 1 - 1 = (reader.page - 1) + 1
    OBVIOUS
  <2>3. \A m \in Nat : (m + 1) * Limit = m * Limit + Limit
    BY <1>1
  <2> QED  BY <2>1, <2>2, <2>3, <1>3 DEF Lists!Skip
<1>6. reader.page = 1 => Lists!Skip = 0
  BY <1>1 DEF Lists!Skip
<1> QED  BY <1>1, <1>4, <1>5, <1>6

LEMMA PageOf ==
  ASSUME reader.page \in Nat \ {0}, NEW s \in Seq(Items)
  PROVE  /\ Lists!LimitOffset(s) \in Seq(Items)
         /\ Upto(s, Lists!Skip) \o Lists!LimitOffset(s) = Upto(s, Lists!Skip + Limit)
         /\ Lists!LimitOffset(s) = <<>> => Len(s) <= Lists!Skip
         /\ \A p \in 1..Len(s) :
              Lists!Skip < p /\ p <= Lists!Skip + Limit
                => s[p] \in Lists!ToSet(Lists!LimitOffset(s))
         /\ Lists!ToSet(Lists!LimitOffset(s)) \subseteq {s[p] : p \in 1..Len(s)}
<1> DEFINE k == Lists!Skip
           e == IF k + Limit < Len(s) THEN k + Limit ELSE Len(s)
           t == SubSeq(s, k + 1, e)
<1>1. k \in Nat /\ Limit \in Nat \ {0} /\ Len(s) \in Nat /\ e \in Nat /\ e <= Len(s)
  BY SkipIsNat
<1>2. t = Lists!LimitOffset(s)
  BY DEF Lists!LimitOffset
<1> HIDE DEF k
<1>3. /\ t \in Seq(Items)
      /\ Len(t) = IF k + 1 <= e THEN e - (k + 1) + 1 ELSE 0
      /\ \A i \in 1..(e - (k + 1) + 1) : t[i] = s[k + 1 + i - 1]
  <2>1. k + 1 \in Int /\ e \in Int /\ \A i \in (k + 1)..e : s[i] \in Items
    BY <1>1
  <2> QED  BY <2>1, SubSeqProperties
<1>4. t = <<>> => Len(s) <= k
  <2>1. ASSUME t = <<>> PROVE e <= k
    <3> HIDE DEF e, t
    <3>1. Len(t) = 0
      BY <2>1
    <3> QED  BY <3>1, <1>1, <1>3
  <2>2. e <= k => Len(s) <= k
    BY <1>1
  <2> QED  BY <2>1, <2>2
<1>5. ASSUME NEW p \in 1..Len(s), k < p, p <= k + Limit
      PROVE  s[p] \in Lists!ToSet(t)
  <2>1. p <= e
    BY <1>1, <1>5
  <2>2. p - k \in 1..(e - (k + 1) + 1) /\ k + 1 + (p - k) - 1 = p
    BY <2>1, <1>1, <1>5
  <2>3. t[p - k] = s[p] /\ p - k \in DOMAIN t
    BY <2>2, <1>3, <1>1
  <2> QED  BY <2>3 DEF Lists!ToSet
<1>6. Lists!ToSet(t) \subseteq {s[p] : p \in 1..Len(s)}
  <2> SUFFICES ASSUME NEW i \in DOMAIN t PROVE \E p \in 1..Len(s) : s[p] = t[i]
    BY DEF Lists!ToSet
  <2>1. i \in 1..(e - (k + 1) + 1)
    BY <1>3, <1>1
  <2>2. t[i] = s[k + 1 + i - 1] /\ k + 1 + i - 1 \in 1..Len(s)
    BY <2>1, <1>3, <1>1
  <2> QED  BY <2>2
<1>7. Upto(s, k) \o t = Upto(s, k + Limit)
  <2>1. CASE k <= Len(s)
    <3>1. Upto(s, k) = SubSeq(s, 1, k)
      BY <2>1, <1>1 DEF Upto
    <3>2. /\ 1 \in 1..(Len(s) + 1) /\ k \in (1 - 1)..Len(s)
          /\ e \in k..Len(s)
      BY <2>1, <1>1
    <3>3. SubSeq(s, 1, k) \o SubSeq(s, k + 1, e) = SubSeq(s, 1, e)
      <4> HIDE DEF e
      <4> QED  BY <3>2, ConcatAdjacentSubSeq
    <3> QED  BY <3>1, <3>3 DEF Upto
  <2>2. CASE k > Len(s)
    <3>1. t = <<>>
      BY <2>2, <1>1, <1>3
    <3>2. Upto(s, k) = s /\ Upto(s, k + Limit) = s
      BY <2>2, <1>1, SubSeqFull DEF Upto
    <3> QED  BY <3>1, <3>2, ConcatEmptySeq
  <2>3. k <= Len(s) \/ k > Len(s)
    BY <1>1
  <2> HIDE DEF t
  <2> QED  BY <2>1, <2>2, <2>3
<1> QED  BY <1>2, <1>3, <1>4, <1>5, <1>6, <1>7 DEF k

-----------------------------------------------------------------------------
(* The inductive invariant of the lists.                                   *)

(* What a calm time promises of the steady items.                          *)
SeenSoFar ==
  /\ Lists!Untied
  /\ steady \subseteq Lists!Listed
  /\ \A x \in steady :
       Cardinality(Ahead(x)) < Lists!Skip => x \in Lists!ToSet(reader.shown)
  /\ reader.step = "rows" =>
       /\ Lists!ToSet(reader.ids) \subseteq Lists!Listed
       /\ \A x \in steady :
            Cardinality(Ahead(x)) < Lists!Skip + Limit
              => x \in Lists!ToSet(reader.shown) \cup Lists!ToSet(reader.ids)
       /\ reader.ids = <<>> => steady \subseteq Lists!ToSet(reader.shown)
  /\ reader.step = "done" => steady \subseteq Lists!ToSet(reader.shown)

(* What a reader of a list that stands still has been shown.               *)
ContinuesSoFar ==
  \A s \in Lists!Sorted(Lists!Listed) :
    /\ reader.step # "done" => reader.shown = Upto(s, Lists!Skip)
    /\ reader.step = "rows" => reader.ids = Lists!LimitOffset(s)
    /\ reader.step = "done" => reader.shown = s

ListsTyped ==
  /\ Lists!TypeOK
  /\ worker.step = "update" => worker.at # 0 /\ list = "feed"
  /\ IsFiniteSet(Lists!Rows)
  /\ Lists!Fresh => reader.shown = <<>>

ListsSound ==
  /\ ListsTyped
  /\ calm => SeenSoFar
  /\ still => calm /\ ContinuesSoFar

LEMMA ListsInit ==
  ASSUME Lists!MCInit
  PROVE  ListsSound
<1> USE DEF Lists!MCInit, Lists!Init
<1>1. Lists!Rows = {} /\ Lists!Listed = {}
  BY DEF Lists!Rows, Lists!Listed
<1>2. Lists!TypeOK
  <2>1. MaxTime \in Nat \ {0}
    BY PartsAssumption DEF Lists!PagedListsAssumption
  <2>2. item \in [Items -> Lists!Item]
    BY DEF Lists!Item
  <2>3. worker \in Lists!Worker
    BY <2>1 DEF Lists!Worker, Lists!Waiting
  <2>4. reader \in Lists!Reader
    BY DEF Lists!Reader, Lists!Begin
  <2> QED  BY <2>1, <2>2, <2>3, <2>4 DEF Lists!TypeOK
<1>3. reader.step = "idle" /\ reader.page = 1 /\ reader.shown = <<>>
  BY DEF Lists!Begin
<1>4. ListsTyped
  BY <1>1, <1>2, <1>3, FS_EmptySet DEF ListsTyped, Lists!Waiting
<1>5. SeenSoFar
  BY <1>1, <1>3 DEF SeenSoFar, Lists!Untied
<1>6. ContinuesSoFar
  <2>1. Lists!Skip = 0
    BY <1>3, SkipIsNat
  <2>2. ASSUME NEW s \in Lists!Sorted(Lists!Listed) PROVE Upto(s, 0) = <<>>
    <3>1. KeysAreNat /\ Lists!Untied /\ IsFiniteSet(Lists!Listed)
      BY <1>1, FS_EmptySet DEF KeysAreNat, Lists!Untied
    <3>2. Len(s) \in Nat
      BY <3>1, SortedRanks
    <3> QED  BY <3>2, SubSeqEmpty DEF Upto
  <2> QED  BY <2>1, <2>2, <1>3 DEF ContinuesSoFar
<1> QED  BY <1>4, <1>5, <1>6 DEF ListsSound

(* The steps that are not the reader's.                                    *)
Around ==
  \/ \E x \in Items : Lists!create(x) \/ Lists!hide(x) \/ Lists!show(x) \/ Lists!remove(x)
  \/ Lists!bump \/ Lists!autoBumpFind \/ Lists!autoBumpUpdate
  \/ Lists!Tick

Reads ==
  \/ Lists!count \/ Lists!ids \/ Lists!rows \/ Lists!again
  \/ \E l \in {"mine", "pending", "favorites", "notices"} : Lists!findMany(l)

LEMMA ListsNext == Lists!Next => Around \/ Reads
<1> QED  BY DEF Lists!Next, Around, Reads, Lists!findMyAds, Lists!findPending,
            Lists!getFavorites, Lists!findMyNotifications

LEMMA ItemOf ==
  ASSUME Lists!TypeOK
  PROVE  /\ KeysAreNat
         /\ \A x \in Items : /\ item[x].state \in {"hidden", "listed", "none"}
                             /\ item[x] = [state |-> item[x].state, key |-> item[x].key]
                             /\ item[x].state # "none" => item[x].key \in 1..MaxTime
<1>1. item \in [Items -> Lists!Item]
  BY DEF Lists!TypeOK
<1>2. MaxTime \in Nat \ {0}
  BY PartsAssumption DEF Lists!PagedListsAssumption
<1>3. ASSUME NEW x \in Items
      PROVE /\ item[x].key \in Nat
            /\ item[x].state \in {"hidden", "listed", "none"}
            /\ item[x] = [state |-> item[x].state, key |-> item[x].key]
            /\ item[x].state # "none" => item[x].key \in 1..MaxTime
  <2>1. item[x] \in Lists!Item
    BY <1>1
  <2> QED  BY <2>1, <1>2 DEF Lists!Item
<1> QED  BY <1>3 DEF KeysAreNat

LEMMA ListedIsFinite ==
  ASSUME ListsTyped
  PROVE  IsFiniteSet(Lists!Listed)
<1>1. Lists!Listed \in SUBSET Lists!Rows
  BY DEF Lists!Listed, Lists!Rows
<1> QED  BY <1>1, FS_Subset DEF ListsTyped

LEMMA AroundTyped ==
  ASSUME ListsTyped, Around
  PROVE  /\ ListsTyped'
         /\ UNCHANGED <<list, reader>>
<1> USE DEF ListsTyped
<1>0. Lists!TypeOK /\ MaxTime \in Nat \ {0} /\ clock \in 1..MaxTime
  BY PartsAssumption DEF Lists!PagedListsAssumption, Lists!TypeOK
<1>1. ASSUME NEW x \in Items, NEW st \in {"hidden", "listed", "none"},
             NEW k \in 0..MaxTime, st = "none" <=> k = 0, Lists!Changed(x, st, k)
      PROVE  ListsTyped' /\ UNCHANGED <<list, reader>>
  <2>1. UNCHANGED <<list, clock, worker, reader>>
    BY <1>1 DEF Lists!Changed
  <2>2. item' \in [Items -> Lists!Item]
    <3>1. [state |-> st, key |-> k] \in Lists!Item
      BY <1>0, <1>1 DEF Lists!Item
    <3> QED  BY <3>1, <1>1, <1>0 DEF Lists!Changed, Lists!TypeOK
  <2>3. IsFiniteSet(Lists!Rows')
    <3>1. Lists!Rows' \in SUBSET (Lists!Rows \cup {x})
      BY <1>1, <1>0 DEF Lists!Changed, Lists!Rows, Lists!TypeOK
    <3>2. IsFiniteSet(Lists!Rows \cup {x})
      BY FS_AddElement
    <3> QED  BY <3>1, <3>2, FS_Subset
  <2> QED  BY <2>1, <2>2, <2>3 DEF Lists!TypeOK, Lists!Fresh
<1>2. ASSUME NEW S, NEW t \in 1..MaxTime, S \subseteq Lists!Rows, Lists!Lift(S, t)
      PROVE  item' \in [Items -> Lists!Item] /\ Lists!Rows' = Lists!Rows
  <2>1. item' = [x \in Items |-> IF x \in S THEN [item[x] EXCEPT !.key = t] ELSE item[x]]
    BY <1>2 DEF Lists!Lift
  <2>2. ASSUME NEW x \in Items
        PROVE  /\ item'[x] \in Lists!Item
               /\ item'[x].state = item[x].state
    <3>1. item[x] \in Lists!Item
      BY <1>0 DEF Lists!TypeOK
    <3>2. CASE x \in S
      <4>1. item[x].state \in {"hidden", "listed"}
        BY <3>2, <1>2, <1>0, ItemOf DEF Lists!Rows
      <4>2. item'[x] = [state |-> item[x].state, key |-> t]
        <5>1. PICK st, k : item[x] = [state |-> st, key |-> k]
          BY <1>0, ItemOf
        <5>2. [item[x] EXCEPT !.key = t] = [state |-> st, key |-> t] /\ item[x].state = st
          BY <5>1
        <5> QED  BY <5>2, <3>2, <2>1
      <4> QED  BY <4>1, <4>2 DEF Lists!Item
    <3>3. CASE x \notin S
      BY <3>1, <3>3, <2>1
    <3> QED  BY <3>2, <3>3
  <2> QED  BY <2>1, <2>2 DEF Lists!Rows
<1>3. ASSUME NEW x \in Items, Lists!create(x) PROVE ListsTyped' /\ UNCHANGED <<list, reader>>
  <2>1. PICK t \in 1..clock : Lists!Changed(x, "listed", t)
    BY <1>3 DEF Lists!create
  <2>2. t \in 0..MaxTime /\ t # 0
    BY <1>0
  <2> QED  BY <2>1, <2>2, <1>1
<1>4. ASSUME NEW x \in Items, Lists!hide(x) PROVE ListsTyped' /\ UNCHANGED <<list, reader>>
  <2>1. item[x].key \in 0..MaxTime /\ item[x].key # 0
    <3>1. item[x].state # "none"
      BY <1>4 DEF Lists!hide
    <3>2. item[x].key \in 1..MaxTime
      BY <3>1, <1>0, ItemOf
    <3> QED  BY <3>2, <1>0
  <2> QED  BY <2>1, <1>4, <1>1 DEF Lists!hide
<1>5. ASSUME NEW x \in Items, Lists!show(x) PROVE ListsTyped' /\ UNCHANGED <<list, reader>>
  <2>1. item[x].key \in 0..MaxTime /\ item[x].key # 0
    <3>1. item[x].state # "none"
      BY <1>5 DEF Lists!show
    <3>2. item[x].key \in 1..MaxTime
      BY <3>1, <1>0, ItemOf
    <3> QED  BY <3>2, <1>0
  <2> QED  BY <2>1, <1>5, <1>1 DEF Lists!show
<1>6. ASSUME NEW x \in Items, Lists!remove(x) PROVE ListsTyped' /\ UNCHANGED <<list, reader>>
  <2>1. 0 \in 0..MaxTime
    BY <1>0
  <2> QED  BY <2>1, <1>6, <1>1 DEF Lists!remove
<1>7. ASSUME Lists!bump PROVE ListsTyped' /\ UNCHANGED <<list, reader>>
  <2>1. PICK S \in SUBSET Lists!Listed : Lists!Lift(S, clock)
    BY <1>7 DEF Lists!bump
  <2>2. S \subseteq Lists!Rows
    BY DEF Lists!Listed, Lists!Rows
  <2>3. item' \in [Items -> Lists!Item] /\ Lists!Rows' = Lists!Rows
    BY <2>1, <2>2, <1>2, <1>0
  <2>4. UNCHANGED <<list, clock, worker, reader>>
    BY <1>7 DEF Lists!bump
  <2> QED  BY <2>3, <2>4 DEF Lists!TypeOK, Lists!Fresh
<1>8. ASSUME Lists!autoBumpFind PROVE ListsTyped' /\ UNCHANGED <<list, reader>>
  <2>1. UNCHANGED <<list, clock, item, reader>> /\ list = "feed"
    BY <1>8 DEF Lists!autoBumpFind
  <2>2. PICK S \in SUBSET Lists!Listed :
          worker' = [step |-> "update", ids |-> S, at |-> clock]
    BY <1>8 DEF Lists!autoBumpFind
  <2>3. worker' \in Lists!Worker /\ worker'.at # 0
    BY <2>2, <1>0 DEF Lists!Worker, Lists!Listed
  <2> QED  BY <2>1, <2>3 DEF Lists!TypeOK, Lists!Fresh, Lists!Rows
<1>9. ASSUME Lists!autoBumpUpdate PROVE ListsTyped' /\ UNCHANGED <<list, reader>>
  <2>1. worker.at \in 1..MaxTime
    BY <1>9, <1>0 DEF Lists!autoBumpUpdate, Lists!TypeOK, Lists!Worker
  <2>2. item' \in [Items -> Lists!Item] /\ Lists!Rows' = Lists!Rows
    BY <2>1, <1>9, <1>2 DEF Lists!autoBumpUpdate
  <2>3. UNCHANGED <<list, clock, reader>> /\ worker' = Lists!Waiting
    BY <1>9 DEF Lists!autoBumpUpdate
  <2>4. Lists!Waiting \in Lists!Worker /\ Lists!Waiting.step # "update"
    BY <1>0 DEF Lists!Waiting, Lists!Worker
  <2> QED  BY <2>2, <2>3, <2>4 DEF Lists!TypeOK, Lists!Fresh
<1>10. ASSUME Lists!Tick PROVE ListsTyped' /\ UNCHANGED <<list, reader>>
  <2>1. UNCHANGED <<list, item, worker, reader>> /\ clock' \in 1..MaxTime
    BY <1>10, <1>0 DEF Lists!Tick
  <2> QED  BY <2>1 DEF Lists!TypeOK, Lists!Fresh, Lists!Rows
<1> QED  BY <1>3, <1>4, <1>5, <1>6, <1>7, <1>8, <1>9, <1>10 DEF Around

LEMMA SortedIsSeq ==
  ASSUME NEW S, IsFiniteSet(S), S \subseteq Items, NEW s \in Lists!SetToSeqs(S)
  PROVE  s \in Seq(Items) /\ Len(s) \in Nat
<1>1. Cardinality(S) \in Nat
  BY FS_CardinalityType
<1>2. s \in [1..Cardinality(S) -> S]
  BY SameCardinality DEF Lists!SetToSeqs
<1> QED  BY <1>1, <1>2

LEMMA UptoNone ==
  ASSUME NEW s \in Seq(Items)
  PROVE  Upto(s, 0) = <<>>
<1>1. Len(s) \in Nat
  OBVIOUS
<1> QED  BY <1>1, SubSeqEmpty DEF Upto

LEMMA AheadIsNat ==
  ASSUME NEW x, IsFiniteSet(Lists!Listed)
  PROVE  IsFiniteSet(Ahead(x)) /\ Cardinality(Ahead(x)) \in Nat
<1>1. Ahead(x) \in SUBSET Lists!Listed
  BY DEF Ahead
<1> QED  BY <1>1, FS_Subset, FS_CardinalityType

LEMMA KeysOutsideFeed ==
  ASSUME ListsTyped, Around, list # "feed", NEW y \in Lists!Listed, y \in Lists!Listed'
  PROVE  item'[y].key = item[y].key
<1>1. item \in [Items -> Lists!Item] /\ y \in Items /\ item[y].state = "listed"
  BY DEF ListsTyped, Lists!TypeOK, Lists!Listed
<1>2. item'[y].state = "listed"
  BY DEF Lists!Listed
<1>3. ASSUME NEW x \in Items, Lists!create(x) PROVE item'[y].key = item[y].key
  BY <1>1, <1>3 DEF Lists!create, Lists!Changed
<1>4. ASSUME NEW x \in Items, Lists!hide(x) PROVE item'[y].key = item[y].key
  BY <1>1, <1>4 DEF Lists!hide, Lists!Changed
<1>5. ASSUME NEW x \in Items, Lists!show(x) PROVE item'[y].key = item[y].key
  BY <1>1, <1>5 DEF Lists!show, Lists!Changed
<1>6. ASSUME NEW x \in Items, Lists!remove(x) PROVE item'[y].key = item[y].key
  BY <1>1, <1>2, <1>6 DEF Lists!remove, Lists!Changed
<1>7. ~Lists!bump /\ ~Lists!autoBumpFind /\ ~Lists!autoBumpUpdate
  BY DEF Lists!bump, Lists!autoBumpFind, Lists!autoBumpUpdate, ListsTyped
<1>8. ASSUME Lists!Tick PROVE item'[y].key = item[y].key
  BY <1>8 DEF Lists!Tick
<1> QED  BY <1>3, <1>4, <1>5, <1>6, <1>7, <1>8 DEF Around

(* What stands behind a steady item stays there unless it is lifted, and   *)
(* what stands ahead of it stays ahead.                                    *)
LEMMA AroundSeen ==
  ASSUME ListsSound, Around, Lists!MCNext, calm'
  PROVE  SeenSoFar'
<1>1. ListsTyped /\ ListsTyped' /\ UNCHANGED <<list, reader>>
  BY AroundTyped DEF ListsSound
<1>2. IsFiniteSet(Lists!Listed) /\ IsFiniteSet(Lists!Listed')
  <2>1. Lists!Listed' \in SUBSET Lists!Rows'
    BY DEF Lists!Listed, Lists!Rows
  <2> QED  BY <1>1, <2>1, ListedIsFinite, FS_Subset DEF ListsTyped
<1>3. Lists!Skip' = Lists!Skip /\ Lists!Skip \in Nat /\ Limit \in Nat \ {0}
  <2>1. reader.page \in Nat \ {0}
    BY <1>1 DEF ListsTyped, Lists!TypeOK, Lists!Reader
  <2> QED  BY <1>1, <2>1, SkipIsNat DEF Lists!Skip
<1>4. ASSUME NEW x
      PROVE  IsFiniteSet(Ahead(x)') /\ Cardinality(Ahead(x)') \in Nat
  <2>1. Ahead(x)' \in SUBSET Lists!Listed'
    BY DEF Ahead
  <2> QED  BY <2>1, <1>2, FS_Subset, FS_CardinalityType
<1>5. Lists!Untied'
  BY DEF Lists!MCNext
<1>6. CASE Lists!Fresh
  <2>1. steady' = Lists!Listed'
    BY <1>6 DEF Lists!MCNext
  <2>2. Lists!Skip' = 0 /\ reader'.step = "idle"
    <3>1. reader.page = 1 /\ reader.step = "idle"
      BY <1>6 DEF Lists!Fresh
    <3> QED  BY <1>1, <1>3, <3>1, SkipIsNat
  <2>3. \A x : ~(Cardinality(Ahead(x)') < Lists!Skip')
    BY <2>2, <1>4
  <2> QED  BY <2>1, <2>2, <2>3, <1>5 DEF SeenSoFar
<1>7. CASE ~Lists!Fresh
  <2>1. calm /\ Lists!NoneFalls
    BY <1>7 DEF Lists!MCNext
  <2>2. SeenSoFar
    BY <2>1 DEF ListsSound
  <2>3. steady' = {x \in steady : x \in Lists!Listed' /\ item'[x].key = item[x].key}
    BY <1>7 DEF Lists!MCNext
  <2>4. ASSUME NEW x \in steady'
        PROVE  Cardinality(Ahead(x)) <= Cardinality(Ahead(x)')
    <3>1. x \in Lists!Listed /\ item'[x].key = item[x].key
      BY <2>2, <2>3 DEF SeenSoFar
    <3>2. ASSUME NEW y \in Ahead(x) PROVE y \in Ahead(x)'
      <4>1. y \in Lists!Listed /\ y # x /\ Lists!Goes(y, x) /\ x \in Items /\ y \in Items
        BY <3>1 DEF Ahead, Lists!Listed
      <4>2. y \in Lists!Listed' /\ item'[y].key >= item[y].key
        BY <4>1, <2>1 DEF Lists!NoneFalls
      <4>3. KeysAreNat /\ KeysAreNat'
        <5>1. \A z \in Items : item'[z] \in Lists!Item
          BY <1>1 DEF ListsTyped, Lists!TypeOK
        <5>2. MaxTime \in Nat
          BY PartsAssumption DEF Lists!PagedListsAssumption
        <5>3. \A z \in Items : item'[z].key \in Nat
          BY <5>1, <5>2 DEF Lists!Item
        <5> QED  BY <1>1, <5>3, ItemOf DEF ListsTyped, KeysAreNat
      <4>4. item[y].key \in Nat /\ item'[y].key \in Nat /\ item[x].key \in Nat
        BY <4>1, <4>3 DEF KeysAreNat
      <4>5. Lists!Goes(y, x)'
        <5>1. CASE list = "pending"
          <6>1. item'[y].key = item[y].key
            BY <5>1, <1>1, <4>1, <4>2, KeysOutsideFeed
          <6> QED  BY <5>1, <6>1, <3>1, <4>1, <1>1 DEF Lists!Goes
        <5>2. CASE list # "pending"
          <6>1. item[y].key >= item[x].key
            BY <5>2, <4>1 DEF Lists!Goes
          <6>2. item'[y].key >= item'[x].key
            BY <6>1, <4>2, <4>4, <3>1
          <6> QED  BY <6>2, <5>2, <1>1 DEF Lists!Goes
        <5> QED  BY <5>1, <5>2
      <4> QED  BY <4>1, <4>2, <4>5 DEF Ahead
    <3>3. Ahead(x) \in SUBSET (Ahead(x)')
      BY <3>2
    <3> QED  BY <3>3, <1>4, FS_Subset
  <2>5. \A x \in steady' : Cardinality(Ahead(x)) \in Nat /\ Cardinality(Ahead(x)') \in Nat
    BY <1>2, <1>4, AheadIsNat
  <2>6. steady' \subseteq steady /\ steady' \subseteq Lists!Listed'
    BY <2>3
  <2>7. Lists!Listed \subseteq Lists!Listed'
    BY <2>1 DEF Lists!NoneFalls
  <2>8. \A x \in steady', m \in Nat :
          Cardinality(Ahead(x)') < m => Cardinality(Ahead(x)) < m
    BY <2>4, <2>5
  <2>9. \A x \in steady' :
          Cardinality(Ahead(x)') < Lists!Skip' => x \in Lists!ToSet(reader'.shown)
    BY <2>8, <2>2, <2>6, <1>1, <1>3 DEF SeenSoFar
  <2>10. ASSUME reader'.step = "rows"
         PROVE  /\ Lists!ToSet(reader'.ids) \subseteq Lists!Listed'
                /\ \A x \in steady' :
                     Cardinality(Ahead(x)') < Lists!Skip' + Limit
                       => x \in Lists!ToSet(reader'.shown) \cup Lists!ToSet(reader'.ids)
                /\ reader'.ids = <<>> => steady' \subseteq Lists!ToSet(reader'.shown)
    <3>1. Lists!Skip + Limit \in Nat
      BY <1>3
    <3> QED  BY <3>1, <2>10, <2>8, <2>2, <2>6, <2>7, <1>1, <1>3 DEF SeenSoFar
  <2>11. reader'.step = "done" => steady' \subseteq Lists!ToSet(reader'.shown)
    BY <2>2, <2>6, <1>1 DEF SeenSoFar
  <2> QED  BY <1>5, <2>6, <2>9, <2>10, <2>11 DEF SeenSoFar
<1> QED  BY <1>6, <1>7

LEMMA AroundContinues ==
  ASSUME ListsSound, Around, Lists!MCNext, still'
  PROVE  ContinuesSoFar'
<1>1. ListsTyped /\ ListsTyped' /\ UNCHANGED <<list, reader>>
  BY AroundTyped DEF ListsSound
<1>2. CASE Lists!Fresh
  <2>1. reader.shown = <<>> /\ reader.page = 1 /\ reader.step = "idle"
    BY <1>1, <1>2 DEF ListsTyped, Lists!Fresh
  <2>2. Lists!Skip' = 0
    BY <1>1, <2>1, SkipIsNat DEF Lists!Skip
  <2>3. ASSUME NEW s \in (Lists!Sorted(Lists!Listed))' PROVE Upto(s, 0) = <<>>
    <3>1. s \in Lists!SetToSeqs(Lists!Listed')
      BY DEF Lists!Sorted
    <3>2. Lists!Listed' \subseteq Items /\ Lists!Listed' \in SUBSET Lists!Rows'
      BY DEF Lists!Listed, Lists!Rows
    <3>3. IsFiniteSet(Lists!Listed')
      BY <3>2, <1>1, FS_Subset DEF ListsTyped
    <3>4. s \in Seq(Items)
      BY <3>1, <3>2, <3>3, SortedIsSeq
    <3> QED  BY <3>4, UptoNone
  <2> QED  BY <1>1, <2>1, <2>2, <2>3 DEF ContinuesSoFar
<1>3. CASE ~Lists!Fresh
  <2>1. still /\ item' = item
    BY <1>3 DEF Lists!MCNext
  <2>2. ContinuesSoFar
    BY <2>1 DEF ListsSound
  <2>3. (Lists!Sorted(Lists!Listed))' = Lists!Sorted(Lists!Listed)
    BY <2>1, <1>1 DEF Lists!Sorted, Lists!Listed, Lists!Goes
  <2>4. Lists!Skip' = Lists!Skip
    BY <1>1 DEF Lists!Skip
  <2>5. ASSUME NEW s PROVE (Lists!LimitOffset(s))' = Lists!LimitOffset(s)
    BY <2>4 DEF Lists!LimitOffset
  <2> QED  BY <1>1, <2>2, <2>3, <2>4, <2>5 DEF ContinuesSoFar
<1> QED  BY <1>2, <1>3

-----------------------------------------------------------------------------
(* The steps of the reader.                                                *)

LEMMA ReaderOf ==
  ASSUME ListsTyped
  PROVE  /\ reader.page \in Nat \ {0} /\ reader.ids \in Seq(Items)
         /\ reader.shown \in Seq(Items)
         /\ reader.step \in {"idle", "ids", "rows", "done"}
         /\ reader = [step |-> reader.step, page |-> reader.page, ids |-> reader.ids,
                      shown |-> reader.shown]
  BY DEF ListsTyped, Lists!TypeOK, Lists!Reader

LEMMA SortedOf ==
  ASSUME ListsTyped, NEW s \in Lists!Sorted(Lists!Listed)
  PROVE  s \in Seq(Items) /\ Len(s) \in Nat
<1>1. Lists!Listed \subseteq Items /\ s \in Lists!SetToSeqs(Lists!Listed)
  BY DEF Lists!Listed, Lists!Sorted
<1> QED  BY <1>1, ListedIsFinite, SortedIsSeq

LEMMA AnswerTyped ==
  ASSUME ListsTyped, NEW page \in Seq(Items), reader' = Lists!Answer(page),
         UNCHANGED <<list, clock, item, worker>>
  PROVE  ListsTyped'
<1>1. reader.page + 1 \in Nat \ {0} /\ reader.shown \o page \in Seq(Items)
  BY ReaderOf, ConcatProperties
<1>2. reader' \in Lists!Reader /\ ~(reader'.step = "idle" /\ reader'.page = 1)
  BY <1>1, ReaderOf, EmptySeq DEF Lists!Answer, Lists!Reader
<1> QED  BY <1>2 DEF ListsTyped, Lists!TypeOK, Lists!Fresh, Lists!Rows

LEMMA ReadsTyped ==
  ASSUME ListsTyped, Reads
  PROVE  ListsTyped' /\ UNCHANGED <<list, clock, item, worker>>
<1>1. ASSUME Lists!count PROVE ListsTyped' /\ UNCHANGED <<list, clock, item, worker>>
  <2>1. UNCHANGED <<list, clock, item, worker>>
    BY <1>1 DEF Lists!count
  <2>2. CASE reader' = [reader EXCEPT !.step = "ids"]
    <3>1. reader' \in Lists!Reader /\ reader'.step = "ids"
      BY <2>2, ReaderOf DEF Lists!Reader
    <3> QED  BY <2>1, <3>1 DEF ListsTyped, Lists!TypeOK, Lists!Fresh, Lists!Rows
  <2>3. CASE reader' = Lists!Answer(<<>>)
    BY <2>1, <2>3, AnswerTyped, EmptySeq
  <2> QED  BY <1>1, <2>2, <2>3 DEF Lists!count
<1>2. ASSUME Lists!ids PROVE ListsTyped' /\ UNCHANGED <<list, clock, item, worker>>
  <2>1. UNCHANGED <<list, clock, item, worker>>
    BY <1>2 DEF Lists!ids
  <2>2. PICK s \in Lists!Sorted(Lists!Listed) :
          reader' = [reader EXCEPT !.step = "rows", !.ids = Lists!LimitOffset(s)]
    BY <1>2 DEF Lists!ids, Lists!findAll
  <2>3. Lists!LimitOffset(s) \in Seq(Items)
    BY SortedOf, PageOf, ReaderOf
  <2>4. reader' \in Lists!Reader /\ reader'.step = "rows"
    BY <2>2, <2>3, ReaderOf DEF Lists!Reader
  <2> QED  BY <2>1, <2>4 DEF ListsTyped, Lists!TypeOK, Lists!Fresh, Lists!Rows
<1>3. ASSUME Lists!rows PROVE ListsTyped' /\ UNCHANGED <<list, clock, item, worker>>
  <2>1. Lists!inRows(reader.ids) \in Seq(Items)
    BY InRows, ReaderOf
  <2> QED  BY <1>3, <2>1, AnswerTyped DEF Lists!rows
<1>4. ASSUME Lists!again PROVE ListsTyped' /\ UNCHANGED <<list, clock, item, worker>>
  <2>1. UNCHANGED <<list, clock, item, worker>> /\ reader' = Lists!Begin
    BY <1>4 DEF Lists!again
  <2>2. Lists!Begin \in Lists!Reader /\ Lists!Begin.shown = <<>>
    BY EmptySeq DEF Lists!Begin, Lists!Reader
  <2> QED  BY <2>1, <2>2 DEF ListsTyped, Lists!TypeOK, Lists!Fresh, Lists!Rows
<1>5. ASSUME NEW l, Lists!findMany(l)
      PROVE ListsTyped' /\ UNCHANGED <<list, clock, item, worker>>
  <2>1. PICK s \in Lists!Sorted(Lists!Listed) : reader' = Lists!Answer(Lists!LimitOffset(s))
    BY <1>5 DEF Lists!findMany
  <2>2. Lists!LimitOffset(s) \in Seq(Items)
    BY SortedOf, PageOf, ReaderOf
  <2> QED  BY <1>5, <2>1, <2>2, AnswerTyped DEF Lists!findMany
<1> QED  BY <1>1, <1>2, <1>3, <1>4, <1>5 DEF Reads

LEMMA ToSetConcat ==
  ASSUME NEW s \in Seq(Items), NEW t \in Seq(Items)
  PROVE  Lists!ToSet(s \o t) = Lists!ToSet(s) \cup Lists!ToSet(t)
<1>0. PICK m, n : m = Len(s) /\ n = Len(t)
  OBVIOUS
<1>1. m \in Nat /\ n \in Nat /\ DOMAIN s = 1..m /\ DOMAIN t = 1..n
  BY <1>0
<1>2. /\ DOMAIN (s \o t) = 1..(m + n)
      /\ \A i \in 1..(m + n) : (s \o t)[i] = IF i <= m THEN s[i] ELSE t[i - m]
  BY <1>0, ConcatProperties, LenProperties
<1>3. ASSUME NEW i \in 1..(m + n)
      PROVE  (s \o t)[i] \in Lists!ToSet(s) \cup Lists!ToSet(t)
  <2>1. CASE i <= m
    <3>1. (s \o t)[i] = s[i] /\ i \in DOMAIN s
      BY <2>1, <1>1, <1>2
    <3> QED  BY <3>1 DEF Lists!ToSet
  <2>2. CASE ~(i <= m)
    <3>1. i - m \in DOMAIN t
      BY <2>2, <1>1
    <3>2. (s \o t)[i] = t[i - m]
      BY <2>2, <1>2
    <3> QED  BY <3>1, <3>2 DEF Lists!ToSet
  <2> QED  BY <2>1, <2>2
<1>4. ASSUME NEW i \in 1..m PROVE s[i] \in Lists!ToSet(s \o t)
  <2>1. i \in 1..(m + n) /\ i <= m
    BY <1>1
  <2>2. (s \o t)[i] = s[i]
    BY <2>1, <1>2
  <2> QED  BY <2>1, <2>2, <1>2 DEF Lists!ToSet
<1>5. ASSUME NEW i \in 1..n PROVE t[i] \in Lists!ToSet(s \o t)
  <2>1. i + m \in 1..(m + n) /\ ~(i + m <= m) /\ (i + m) - m = i
    BY <1>1
  <2>2. (s \o t)[i + m] = t[(i + m) - m]
    BY <2>1, <1>2
  <2> QED  BY <2>1, <2>2, <1>2 DEF Lists!ToSet
<1>6. Lists!ToSet(s \o t) = {(s \o t)[i] : i \in 1..(m + n)}
  BY <1>2 DEF Lists!ToSet
<1>7. Lists!ToSet(s) = {s[i] : i \in 1..m} /\ Lists!ToSet(t) = {t[i] : i \in 1..n}
  BY <1>1 DEF Lists!ToSet
<1>8. \A x \in Lists!ToSet(s \o t) : x \in Lists!ToSet(s) \cup Lists!ToSet(t)
  BY <1>3, <1>6
<1>9. \A x \in Lists!ToSet(s) \cup Lists!ToSet(t) : x \in Lists!ToSet(s \o t)
  BY <1>4, <1>5, <1>7
<1> QED  BY <1>8, <1>9

(* What the reader's steps leave alone.                                    *)
LEMMA ReadsKeep ==
  ASSUME ListsSound, Reads
  PROVE  /\ Lists!Listed' = Lists!Listed
         /\ \A x : Ahead(x)' = Ahead(x)
         /\ (Lists!Sorted(Lists!Listed))' = Lists!Sorted(Lists!Listed)
         /\ Lists!Untied' = Lists!Untied
<1>1. item' = item /\ list' = list
  BY ReadsTyped DEF ListsSound
<1> QED  BY <1>1 DEF Lists!Listed, Ahead, Lists!Sorted, Lists!Goes, Lists!Untied

(* In a calm time the steady items among the pages so far have been shown. *)
LEMMA SteadyShown ==
  ASSUME ListsSound, Reads, Lists!MCNext, calm'
  PROVE  /\ Lists!Untied /\ steady' \subseteq Lists!Listed
         /\ \A x \in steady' :
              Cardinality(Ahead(x)) < Lists!Skip => x \in Lists!ToSet(reader.shown)
         /\ ~Lists!Fresh => SeenSoFar /\ steady' \subseteq steady
<1>0. ListsTyped
  BY DEF ListsSound
<1>1. Lists!Untied
  BY ReadsKeep DEF Lists!MCNext
<1>2. CASE Lists!Fresh
  <2>1. steady' = Lists!Listed
    BY <1>2, ReadsKeep DEF Lists!MCNext
  <2>2. Lists!Skip = 0
    BY <1>2, <1>0, ReaderOf, SkipIsNat DEF Lists!Fresh
  <2>3. \A x : Cardinality(Ahead(x)) \in Nat
    BY <1>0, ListedIsFinite, AheadIsNat
  <2> QED  BY <1>1, <1>2, <2>1, <2>2, <2>3
<1>3. CASE ~Lists!Fresh
  <2>1. calm /\ SeenSoFar
    BY <1>3 DEF Lists!MCNext, ListsSound
  <2>2. steady' \subseteq steady
    BY <1>3 DEF Lists!MCNext
  <2> QED  BY <1>1, <1>3, <2>1, <2>2 DEF SeenSoFar
<1> QED  BY <1>2, <1>3

(* An answer that has every steady item of its stretch leaves none out; an *)
(* empty one comes when all have been shown.                               *)
LEMMA AnswerSeen ==
  ASSUME ListsSound, Reads, Lists!MCNext, calm',
         NEW page \in Seq(Items), reader' = Lists!Answer(page),
         \A x \in steady' :
           Cardinality(Ahead(x)) < Lists!Skip + Limit
             => x \in Lists!ToSet(reader.shown) \cup Lists!ToSet(page),
         page = <<>> => steady' \subseteq Lists!ToSet(reader.shown)
  PROVE  SeenSoFar'
<1>0. ListsTyped
  BY DEF ListsSound
<1>1. reader.shown \in Seq(Items) /\ reader.page \in Nat \ {0}
  BY <1>0, ReaderOf
<1>2. reader'.shown = reader.shown \o page
  BY DEF Lists!Answer
<1>3. \A x : x \in Lists!ToSet(reader'.shown)
               <=> x \in Lists!ToSet(reader.shown) \cup Lists!ToSet(page)
  BY <1>1, <1>2, ToSetConcat
<1>4. CASE page # <<>>
  <2>1. reader'.step = "idle" /\ reader'.page = reader.page + 1
    BY <1>4 DEF Lists!Answer
  <2>2. Lists!Skip' = Lists!Skip + Limit
    BY <1>1, <2>1, SkipIsNat
  <2> QED  BY <1>3, <2>1, <2>2, ReadsKeep, SteadyShown DEF SeenSoFar
<1>5. CASE page = <<>>
  <2>1. reader'.step = "done"
    BY <1>5 DEF Lists!Answer
  <2>2. steady' \subseteq Lists!ToSet(reader'.shown)
    BY <1>3, <1>5
  <2> QED  BY <2>1, <2>2, ReadsKeep, SteadyShown DEF SeenSoFar
<1> QED  BY <1>4, <1>5

(* A steady item stands in a sorted list just behind those ahead of it.    *)
LEMMA Stands ==
  ASSUME ListsTyped, Lists!Untied, NEW s \in Lists!Sorted(Lists!Listed),
         NEW x \in Lists!Listed
  PROVE  \E p \in 1..Len(s) : s[p] = x /\ p = Cardinality(Ahead(x)) + 1
<1>1. KeysAreNat /\ IsFiniteSet(Lists!Listed)
  BY ItemOf, ListedIsFinite DEF ListsTyped
<1>2. PICK p \in 1..Len(s) : s[p] = x
  BY <1>1, SortedRanks
<1>3. Cardinality(Ahead(x)) = p - 1
  BY <1>1, <1>2, SortedRanks
<1>4. p \in Int
  BY SortedOf
<1> QED  BY <1>2, <1>3, <1>4

(* The page cut from a sorted list has the steady items of its stretch.    *)
LEMMA PageSeen ==
  ASSUME ListsSound, Reads, Lists!MCNext, calm',
         NEW s \in Lists!Sorted(Lists!Listed)
  PROVE  /\ \A x \in steady' :
              Cardinality(Ahead(x)) < Lists!Skip + Limit
                => x \in Lists!ToSet(reader.shown) \cup Lists!ToSet(Lists!LimitOffset(s))
         /\ Lists!LimitOffset(s) = <<>> => steady' \subseteq Lists!ToSet(reader.shown)
         /\ Lists!ToSet(Lists!LimitOffset(s)) \subseteq Lists!Listed
<1> DEFINE page == Lists!LimitOffset(s)
<1>0. ListsTyped /\ reader.page \in Nat \ {0} /\ Lists!Untied
  BY ReaderOf, SteadyShown DEF ListsSound
<1>1. Lists!Skip \in Nat /\ Limit \in Nat \ {0} /\ s \in Seq(Items) /\ Len(s) \in Nat
  BY <1>0, SkipIsNat, SortedOf
<1>2. ASSUME NEW x \in steady'
      PROVE  /\ Cardinality(Ahead(x)) < Lists!Skip + Limit
                  => x \in Lists!ToSet(reader.shown) \cup Lists!ToSet(page)
             /\ page = <<>> => x \in Lists!ToSet(reader.shown)
  <2>1. x \in Lists!Listed
    BY SteadyShown
  <2>2. PICK p \in 1..Len(s) : s[p] = x /\ p = Cardinality(Ahead(x)) + 1
    BY <2>1, <1>0, Stands
  <2>3. Cardinality(Ahead(x)) \in Nat
    BY <1>0, ListedIsFinite, AheadIsNat
  <2>4. CASE Cardinality(Ahead(x)) < Lists!Skip
    BY <2>4, SteadyShown
  <2>5. CASE ~(Cardinality(Ahead(x)) < Lists!Skip)
    <3>1. Lists!Skip < p
      BY <2>5, <2>2, <2>3, <1>1
    <3>2. Cardinality(Ahead(x)) < Lists!Skip + Limit => p <= Lists!Skip + Limit
      BY <2>2, <2>3, <1>1
    <3>3. p <= Lists!Skip + Limit => x \in Lists!ToSet(page)
      BY <3>1, <2>2, <1>0, <1>1, PageOf
    <3>4. page # <<>>
      <4>1. page = <<>> => Len(s) <= Lists!Skip
        BY <1>0, <1>1, PageOf
      <4>2. ~(Len(s) <= Lists!Skip)
        BY <3>1, <1>1
      <4> QED  BY <4>1, <4>2
    <3> QED  BY <3>2, <3>3, <3>4
  <2> QED  BY <2>4, <2>5
<1>3. Lists!ToSet(page) \subseteq Lists!Listed
  <2>1. KeysAreNat /\ IsFiniteSet(Lists!Listed)
    BY <1>0, ItemOf, ListedIsFinite DEF ListsTyped
  <2>2. \A p \in 1..Len(s) : s[p] \in Lists!Listed
    BY <2>1, <1>0, SortedRanks
  <2> QED  BY <2>2, <1>0, <1>1, PageOf
<1> QED  BY <1>2, <1>3

LEMMA ReadsSeen ==
  ASSUME ListsSound, Reads, Lists!MCNext, calm'
  PROVE  SeenSoFar'
<1>0. ListsTyped /\ reader.page \in Nat \ {0} /\ reader.ids \in Seq(Items)
  BY ReaderOf DEF ListsSound
<1>1. /\ Lists!Untied' /\ steady' \subseteq Lists!Listed' /\ \A x : Ahead(x)' = Ahead(x)
      /\ Lists!Listed' = Lists!Listed
  BY ReadsKeep, SteadyShown
<1>2. CASE Lists!count
  <2>1. CASE reader' = [reader EXCEPT !.step = "ids"]
    <3>1. /\ reader'.step = "ids" /\ reader'.page = reader.page
          /\ reader'.shown = reader.shown
      BY <2>1, <1>0, ReaderOf
    <3>2. Lists!Skip' = Lists!Skip
      BY <3>1 DEF Lists!Skip
    <3> QED  BY <1>1, <3>1, <3>2, SteadyShown DEF SeenSoFar
  <2>2. CASE ~(Lists!Skip < Len(Lists!SetToSeq(Lists!findAll)))
    <3>1. IsFiniteSet(Lists!Listed)
      BY <1>0, ListedIsFinite
    <3>2. /\ Lists!Skip \in Nat /\ Limit \in Nat
          /\ Cardinality(Lists!Listed) \in Nat /\ Cardinality(Lists!Listed) <= Lists!Skip
      BY <2>2, <3>1, <1>0, LengthOfSet, SkipIsNat, FS_CardinalityType DEF Lists!findAll
    <3>3. ASSUME NEW x \in steady' PROVE x \in Lists!ToSet(reader.shown)
      <4>1. x \in Lists!Listed \ Ahead(x)
        BY <1>1 DEF Ahead
      <4>2. Ahead(x) \in SUBSET Lists!Listed /\ Ahead(x) # Lists!Listed
        BY <4>1 DEF Ahead
      <4>3. /\ Cardinality(Ahead(x)) <= Cardinality(Lists!Listed)
            /\ Cardinality(Ahead(x)) # Cardinality(Lists!Listed)
            /\ Cardinality(Ahead(x)) \in Nat
        BY <4>2, <3>1, FS_Subset, AheadIsNat
      <4>4. Cardinality(Ahead(x)) < Lists!Skip
        BY <4>3, <3>2
      <4> QED  BY <4>4, SteadyShown
    <3>4. reader' = Lists!Answer(<<>>)
      BY <1>2, <2>2 DEF Lists!count
    <3> QED  BY <3>3, <3>4, AnswerSeen, EmptySeq
  <2> QED  BY <1>2, <2>1, <2>2 DEF Lists!count
<1>3. CASE Lists!ids
  <2>1. PICK s \in Lists!Sorted(Lists!Listed) :
          reader' = [reader EXCEPT !.step = "rows", !.ids = Lists!LimitOffset(s)]
    BY <1>3 DEF Lists!ids, Lists!findAll
  <2>2. /\ reader'.step = "rows" /\ reader'.page = reader.page
        /\ reader'.shown = reader.shown /\ reader'.ids = Lists!LimitOffset(s)
    BY <2>1, <1>0, ReaderOf
  <2>3. Lists!Skip' = Lists!Skip
    BY <2>2 DEF Lists!Skip
  <2> QED  BY <1>1, <2>2, <2>3, SteadyShown, PageSeen DEF SeenSoFar
<1>4. CASE Lists!rows
  <2>1. reader.step = "rows" /\ reader' = Lists!Answer(Lists!inRows(reader.ids))
    BY <1>4 DEF Lists!rows
  <2>2. ~Lists!Fresh
    BY <2>1 DEF Lists!Fresh
  <2>3. SeenSoFar /\ steady' \subseteq steady
    BY <2>2, SteadyShown
  <2>4. Lists!inRows(reader.ids) = reader.ids
    <3>1. Lists!ToSet(reader.ids) \subseteq Lists!Rows
      BY <2>1, <2>3 DEF SeenSoFar, Lists!Listed, Lists!Rows
    <3> QED  BY <3>1, <1>0, InRows
  <2> QED  BY <2>1, <2>3, <2>4, <1>0, AnswerSeen DEF SeenSoFar
<1>5. CASE Lists!again
  <2>1. reader'.step = "idle" /\ reader'.page = 1
    BY <1>5 DEF Lists!again, Lists!Begin
  <2>2. Lists!Skip' = 0
    <3>1. Limit \in Nat
      BY PartsAssumption DEF Lists!PagedListsAssumption
    <3> QED  BY <2>1, <3>1 DEF Lists!Skip
  <2>3. \A x : Cardinality(Ahead(x)) \in Nat
    BY <1>0, ListedIsFinite, AheadIsNat
  <2> QED  BY <1>1, <2>1, <2>2, <2>3 DEF SeenSoFar
<1>6. ASSUME NEW l, Lists!findMany(l) PROVE SeenSoFar'
  <2>1. PICK s \in Lists!Sorted(Lists!Listed) : reader' = Lists!Answer(Lists!LimitOffset(s))
    BY <1>6 DEF Lists!findMany
  <2>2. Lists!LimitOffset(s) \in Seq(Items)
    BY <1>0, SortedOf, PageOf
  <2> QED  BY <2>1, <2>2, PageSeen, AnswerSeen
<1> QED  BY <1>2, <1>3, <1>4, <1>5, <1>6 DEF Reads

(* A page that continues what has been shown of a list that stands still.  *)
LEMMA AnswerContinues ==
  ASSUME ListsSound, Reads, Lists!Untied, NEW s \in Lists!Sorted(Lists!Listed),
         reader.shown = Upto(s, Lists!Skip), reader' = Lists!Answer(Lists!LimitOffset(s))
  PROVE  ContinuesSoFar'
<1>0. ListsTyped /\ reader.page \in Nat \ {0} /\ s \in Seq(Items) /\ Len(s) \in Nat
  BY ReaderOf, SortedOf DEF ListsSound
<1>1. KeysAreNat /\ IsFiniteSet(Lists!Listed)
  BY <1>0, ItemOf, ListedIsFinite DEF ListsTyped
<1>2. \A t \in (Lists!Sorted(Lists!Listed))' : t = s
  BY <1>1, ReadsKeep, SortedUnique
<1>3. reader'.shown = Upto(s, Lists!Skip + Limit)
  BY <1>0, PageOf DEF Lists!Answer
<1>4. CASE Lists!LimitOffset(s) # <<>>
  <2>1. reader'.step = "idle" /\ reader'.page = reader.page + 1
    BY <1>4 DEF Lists!Answer
  <2>2. Lists!Skip' = Lists!Skip + Limit
    BY <1>0, <2>1, SkipIsNat
  <2> QED  BY <1>2, <1>3, <2>1, <2>2 DEF ContinuesSoFar
<1>5. CASE Lists!LimitOffset(s) = <<>>
  <2>1. reader'.step = "done"
    BY <1>5 DEF Lists!Answer
  <2>2. Len(s) <= Lists!Skip /\ Lists!Skip \in Nat /\ Limit \in Nat
    BY <1>5, <1>0, PageOf, SkipIsNat
  <2>3. ~(Lists!Skip + Limit < Len(s))
    BY <2>2, <1>0
  <2>4. reader'.shown = s
    BY <1>0, <1>3, <2>3, SubSeqFull DEF Upto
  <2> QED  BY <1>2, <2>1, <2>4 DEF ContinuesSoFar
<1> QED  BY <1>4, <1>5

LEMMA ReadsContinue ==
  ASSUME ListsSound, Reads, Lists!MCNext, still'
  PROVE  ContinuesSoFar'
<1>0. ListsTyped /\ reader.page \in Nat \ {0} /\ reader.ids \in Seq(Items)
  BY ReaderOf DEF ListsSound
<1>1. calm' /\ Lists!Untied
  <2>1. calm'
    BY DEF Lists!MCNext
  <2> QED  BY <2>1, SteadyShown
<1>2. ASSUME NEW s \in Lists!Sorted(Lists!Listed), reader.step # "done"
      PROVE  reader.shown = Upto(s, Lists!Skip)
  <2>1. CASE Lists!Fresh
    <3>1. reader.shown = <<>> /\ Lists!Skip = 0
      BY <2>1, <1>0, SkipIsNat DEF ListsTyped, Lists!Fresh
    <3> QED  BY <3>1, <1>0, SortedOf, UptoNone
  <2>2. CASE ~Lists!Fresh
    BY <2>2, <1>2 DEF Lists!MCNext, ListsSound, ContinuesSoFar
  <2> QED  BY <2>1, <2>2
<1>3. KeysAreNat /\ IsFiniteSet(Lists!Listed)
  BY <1>0, ItemOf, ListedIsFinite DEF ListsTyped
<1>4. CASE Lists!count
  <2>0. reader.step = "idle"
    BY <1>4 DEF Lists!count
  <2>1. CASE reader' = [reader EXCEPT !.step = "ids"]
    <3>1. /\ reader'.step = "ids" /\ reader'.page = reader.page
          /\ reader'.shown = reader.shown
      BY <2>1, <1>0, ReaderOf
    <3>2. Lists!Skip' = Lists!Skip
      BY <3>1 DEF Lists!Skip
    <3> QED  BY <3>1, <3>2, <2>0, <1>2, ReadsKeep DEF ContinuesSoFar
  <2>2. CASE ~(Lists!Skip < Len(Lists!SetToSeq(Lists!findAll)))
    <3>1. reader' = Lists!Answer(<<>>)
      BY <1>4, <2>2 DEF Lists!count
    <3>2. reader'.step = "done" /\ reader'.shown = reader.shown
      <4>1. reader.shown \o <<>> = reader.shown
        BY <1>0, ReaderOf, ConcatEmptySeq
      <4> QED  BY <3>1, <4>1 DEF Lists!Answer
    <3>3. ASSUME NEW s \in Lists!Sorted(Lists!Listed) PROVE reader.shown = s
      <4>1. Len(s) = Cardinality(Lists!Listed) /\ s \in Seq(Items)
        BY <1>1, <1>3, SortedRanks
      <4>2. ~(Lists!Skip < Len(s))
        BY <4>1, <2>2, <1>3, LengthOfSet DEF Lists!findAll
      <4> QED  BY <4>1, <4>2, <2>0, <1>2, SubSeqFull DEF Upto
    <3> QED  BY <3>2, <3>3, ReadsKeep DEF ContinuesSoFar
  <2> QED  BY <1>4, <2>1, <2>2 DEF Lists!count
<1>5. CASE Lists!ids
  <2>1. PICK s \in Lists!Sorted(Lists!Listed) :
          reader' = [reader EXCEPT !.step = "rows", !.ids = Lists!LimitOffset(s)]
    BY <1>5 DEF Lists!ids, Lists!findAll
  <2>2. /\ reader'.step = "rows" /\ reader'.page = reader.page
        /\ reader'.shown = reader.shown /\ reader'.ids = Lists!LimitOffset(s)
    BY <2>1, <1>0, ReaderOf
  <2>3. Lists!Skip' = Lists!Skip
    BY <2>2 DEF Lists!Skip
  <2>4. (Lists!LimitOffset(s))' = Lists!LimitOffset(s)
    BY <2>3 DEF Lists!LimitOffset
  <2>5. \A t \in (Lists!Sorted(Lists!Listed))' : t = s
    BY <1>1, <1>3, ReadsKeep, SortedUnique
  <2>6. reader.shown = Upto(s, Lists!Skip)
    BY <1>2, <1>5 DEF Lists!ids
  <2>7. ASSUME NEW t \in (Lists!Sorted(Lists!Listed))'
        PROVE  /\ reader'.shown = Upto(t, Lists!Skip')
               /\ reader'.ids = (Lists!LimitOffset(t))'
    <3>1. t = s
      BY <2>5
    <3> QED  BY <3>1, <2>2, <2>3, <2>4, <2>6
  <2> QED  BY <2>2, <2>7 DEF ContinuesSoFar
<1>6. CASE Lists!rows
  <2>1. reader.step = "rows" /\ reader' = Lists!Answer(Lists!inRows(reader.ids))
    BY <1>6 DEF Lists!rows
  <2>2. ~Lists!Fresh
    BY <2>1 DEF Lists!Fresh
  <2>3. still /\ SeenSoFar /\ ContinuesSoFar
    BY <2>2 DEF Lists!MCNext, ListsSound
  <2>4. Lists!inRows(reader.ids) = reader.ids
    <3>1. Lists!ToSet(reader.ids) \subseteq Lists!Rows
      BY <2>1, <2>3 DEF SeenSoFar, Lists!Listed, Lists!Rows
    <3> QED  BY <3>1, <1>0, InRows
  <2>5. ASSUME NEW t \in Lists!Sorted(Lists!Listed) PROVE ContinuesSoFar'
    <3>1. reader.ids = Lists!LimitOffset(t) /\ reader.shown = Upto(t, Lists!Skip)
      BY <2>1, <2>3 DEF ContinuesSoFar
    <3> QED  BY <3>1, <2>1, <2>4, <1>1, AnswerContinues
  <2>6. CASE Lists!Sorted(Lists!Listed) = {}
    BY <2>6, ReadsKeep DEF ContinuesSoFar
  <2> QED  BY <2>5, <2>6
<1>7. CASE Lists!again
  <2>1. reader'.step = "idle" /\ reader'.page = 1 /\ reader'.shown = <<>>
    BY <1>7 DEF Lists!again, Lists!Begin
  <2>2. Lists!Skip' = 0
    <3>1. Limit \in Nat
      BY PartsAssumption DEF Lists!PagedListsAssumption
    <3> QED  BY <2>1, <3>1 DEF Lists!Skip
  <2>3. \A t \in (Lists!Sorted(Lists!Listed))' : Upto(t, 0) = <<>>
    BY <1>0, ReadsKeep, SortedOf, UptoNone
  <2> QED  BY <2>1, <2>2, <2>3 DEF ContinuesSoFar
<1>8. ASSUME NEW l, Lists!findMany(l) PROVE ContinuesSoFar'
  <2>1. PICK s \in Lists!Sorted(Lists!Listed) : reader' = Lists!Answer(Lists!LimitOffset(s))
    BY <1>8 DEF Lists!findMany
  <2>2. reader.shown = Upto(s, Lists!Skip)
    BY <1>2, <1>8 DEF Lists!findMany
  <2> QED  BY <2>1, <2>2, <1>1, AnswerContinues
<1> QED  BY <1>4, <1>5, <1>6, <1>7, <1>8 DEF Reads

LEMMA ListsStep ==
  ASSUME ListsSound, Lists!MCNext
  PROVE  ListsSound'
<1>1. Around \/ Reads
  BY ListsNext DEF Lists!MCNext
<1>2. ListsTyped'
  BY <1>1, AroundTyped, ReadsTyped DEF ListsSound
<1>3. calm' => SeenSoFar'
  BY <1>1, AroundSeen, ReadsSeen
<1>4. still' => calm' /\ ContinuesSoFar'
  BY <1>1, AroundContinues, ReadsContinue DEF Lists!MCNext
<1> QED  BY <1>2, <1>3, <1>4 DEF ListsSound

LEMMA ListsStutter ==
  ASSUME ListsSound, UNCHANGED lists
  PROVE  ListsSound'
<1> USE DEF lists
<1>1. ListsTyped'
  BY DEF ListsSound, ListsTyped, Lists!TypeOK, Lists!Rows, Lists!Fresh
<1>2. Lists!Skip' = Lists!Skip
  BY DEF Lists!Skip
<1>3. \A x : Ahead(x)' = Ahead(x)
  BY DEF Ahead, Lists!Listed, Lists!Goes
<1>4. SeenSoFar' <=> SeenSoFar
  BY <1>2, <1>3 DEF SeenSoFar, Lists!Untied, Lists!Listed
<1>5. ContinuesSoFar' <=> ContinuesSoFar
  BY <1>2 DEF ContinuesSoFar, Lists!Sorted, Lists!Listed, Lists!Goes, Lists!LimitOffset
<1> QED  BY <1>1, <1>4, <1>5 DEF ListsSound

(* The inductive invariant of the lists: in a calm time the steady items   *)
(* ahead of the next page have been shown, and while the list stands still *)
(* what has been shown is its beginning.                                   *)
THEOREM ListsInvariant == MCSpec => []ListsSound
<1>1. MCInit => ListsSound
  BY ListsInit DEF MCInit
<1>2. ListsSound /\ [MCNext]_<<part, vars, lists, import>> => ListsSound'
  <2> SUFFICES ASSUME ListsSound, [MCNext]_<<part, vars, lists, import>>
               PROVE  ListsSound'
    OBVIOUS
  <2> QED  BY ListsStep, ListsStutter DEF MCNext
<1> QED  BY <1>1, <1>2, PTL DEF MCSpec

(* findAll and the other lists: whatever comes and is lifted meanwhile, a  *)
(* reader of a calm list who goes on to the end has been shown every item  *)
(* that stayed where it was, for any page size; and the pages of a list    *)
(* that stands still continue one another.                                 *)
THEOREM NothingIsSkipped == MCSpec => []NothingSkipped
<1>1. ListsSound => NothingSkipped
  <2> SUFFICES ASSUME ListsSound, part = "lists" 
               PROVE  Lists!NothingSkipped /\ Lists!PagesContinue
    BY DEF NothingSkipped
  <2>1. Lists!NothingSkipped
    BY DEF ListsSound, SeenSoFar, Lists!NothingSkipped
  <2>2. ASSUME still, NEW s \in Lists!Sorted(Lists!Listed)
        PROVE  /\ Lists!IsPrefix(reader.shown, s)
               /\ reader.step = "done" => reader.shown = s
    <3>1. s \in Seq(Items) /\ Len(s) \in Nat /\ reader.page \in Nat \ {0}
      BY SortedOf, ReaderOf DEF ListsSound
    <3>2. Lists!Skip \in Nat
      BY <3>1, SkipIsNat
    <3>3. \E m \in 0..Len(s) : reader.shown = SubSeq(s, 1, m)
      <4>1. CASE reader.step = "done"
        BY <4>1, <2>2, <3>1, SubSeqFull DEF ListsSound, ContinuesSoFar
      <4>2. CASE reader.step # "done"
        <5>1. reader.shown = Upto(s, Lists!Skip)
          BY <4>2, <2>2 DEF ListsSound, ContinuesSoFar
        <5> QED  BY <5>1, <3>1, <3>2 DEF Upto
      <4> QED  BY <4>1, <4>2
    <3>4. PICK m \in 0..Len(s) : reader.shown = SubSeq(s, 1, m)
      BY <3>3
    <3>5. Len(reader.shown) = m /\ reader.shown \in Seq(Items)
      <4>1. 1 \in Int /\ m \in Int /\ \A i \in 1..m : s[i] \in Items
        BY <3>1
      <4>2. Len(SubSeq(s, 1, m)) = IF 1 <= m THEN m - 1 + 1 ELSE 0
        BY <4>1, SubSeqProperties
      <4>3. SubSeq(s, 1, m) \in Seq(Items)
        BY <4>1, SubSeqProperties
      <4> QED  BY <3>1, <3>4, <4>2, <4>3
    <3>6. SubSeq(reader.shown, 1, Len(reader.shown)) = SubSeq(s, 1, Len(reader.shown))
      BY <3>4, <3>5, SubSeqFull
    <3>7. Lists!IsPrefix(reader.shown, s)
      BY <3>1, <3>4, <3>5, <3>6 DEF Lists!IsPrefix
    <3> QED  BY <2>2, <3>7 DEF ListsSound, ContinuesSoFar
  <2> QED  BY <2>1, <2>2 DEF Lists!PagesContinue
<1> QED  BY <1>1, ListsInvariant, PTL

-----------------------------------------------------------------------------
(* The trees of categories.                                                *)

LEMMA TreeOf ==
  ASSUME NEW t \in Import!Trees
  PROVE  /\ Len(t) \in Nat /\ Len(t) <= MaxNodes /\ DOMAIN t = 1..Len(t)
         /\ \A i \in DOMAIN t : /\ t[i].id \in Ids /\ t[i].path \in Import!Paths
                                /\ t[i].path \in Seq(Names) /\ Len(t[i].path) \in Nat \ {0}
         /\ \A i, j \in DOMAIN t : t[i].id = t[j].id \/ t[i].path = t[j].path => i = j
         /\ \A i \in DOMAIN t :
              Len(t[i].path) # 1
                => i > 1 /\ Import!IsPrefix(Import!Front(t[i].path), t[i - 1].path)
<1>0. MaxNodes \in Nat /\ MaxDepth \in Nat
  BY PartsAssumption DEF Import!CategorySeedAssumption
<1>1. PICK n \in 0..MaxNodes : t \in [1..n -> Import!Node]
  BY DEF Import!Trees
<1>2. Len(t) = n /\ DOMAIN t = 1..n /\ n \in Nat /\ n <= MaxNodes
  BY <1>0, <1>1
<1>3. ASSUME NEW i \in DOMAIN t
      PROVE  /\ t[i].id \in Ids /\ t[i].path \in Import!Paths
             /\ t[i].path \in Seq(Names) /\ Len(t[i].path) \in Nat \ {0}
  <2>1. t[i].id \in Ids /\ t[i].path \in Import!Paths
    BY <1>1, <1>2 DEF Import!Node
  <2>2. PICK m \in 1..MaxDepth : t[i].path \in [1..m -> Names]
    BY <2>1 DEF Import!Paths
  <2> QED  BY <1>0, <2>1, <2>2
<1>4. \A i, j \in DOMAIN t : t[i].id = t[j].id \/ t[i].path = t[j].path => i = j
  BY DEF Import!Trees
<1>5. \A i \in DOMAIN t :
        Len(t[i].path) # 1
          => i > 1 /\ Import!IsPrefix(Import!Front(t[i].path), t[i - 1].path)
  BY DEF Import!Trees
<1> QED  BY <1>2, <1>3, <1>4, <1>5

(* Every beginning of a node's path is the path of a node not after it.    *)
LEMMA AncestorsComeFirst ==
  ASSUME NEW t \in Import!Trees
  PROVE  \A i \in DOMAIN t : \A m \in 1..Len(t[i].path) :
           \E j \in 1..i : t[j].path = SubSeq(t[i].path, 1, m)
<1> DEFINE Reached(i) == \A m \in 1..Len(t[i].path) :
                           \E j \in 1..i : t[j].path = SubSeq(t[i].path, 1, m)
           Bad == {i \in DOMAIN t : ~Reached(i)}
<1> SUFFICES ASSUME Bad # {} PROVE FALSE
  OBVIOUS
<1>0. Len(t) \in Nat /\ DOMAIN t = 1..Len(t)
  BY TreeOf
<1>1. PICK i \in Bad : \A j \in Bad : i <= j
  <2>1. Bad \in SUBSET Nat
    BY <1>0
  <2> HIDE DEF Bad
  <2> QED  BY <2>1, LeastNat
<1>2. i \in DOMAIN t /\ i \in Nat \ {0}
  BY <1>0, <1>1
<1>3. /\ t[i].path \in Seq(Names) /\ Len(t[i].path) \in Nat \ {0}
  BY <1>2, TreeOf
<1>4. ASSUME NEW m \in 1..Len(t[i].path)
      PROVE  \E j \in 1..i : t[j].path = SubSeq(t[i].path, 1, m)
  <2>1. CASE m = Len(t[i].path)
    <3>1. SubSeq(t[i].path, 1, m) = t[i].path
      BY <2>1, <1>3, SubSeqFull
    <3>2. i \in 1..i
      BY <1>2
    <3> QED  BY <3>1, <3>2
  <2>2. CASE m # Len(t[i].path)
    <3> DEFINE l == Len(t[i].path)
               up == t[i - 1].path
    <3>1. m \in Nat /\ m >= 1 /\ m <= l - 1 /\ l - 1 \in Nat /\ l # 1
      <4>1. m \in 1..l /\ m # l /\ l \in Nat \ {0}
        BY <2>2, <1>3
      <4> HIDE DEF l
      <4> QED  BY <4>1
    <3>2. i > 1 /\ Import!IsPrefix(Import!Front(t[i].path), up)
      BY <3>1, <1>2, TreeOf
    <3>3. i - 1 \in DOMAIN t /\ i - 1 < i
      BY <3>2, <1>0, <1>2
    <3>4. up \in Seq(Names) /\ Len(up) \in Nat
      BY <3>3, TreeOf
    <3>5. /\ Import!Front(t[i].path) \in Seq(Names)
          /\ Len(Import!Front(t[i].path)) = l - 1
          /\ \A k \in 1..(l - 1) : Import!Front(t[i].path)[k] = t[i].path[k]
      <4>1. Import!Front(t[i].path) = SubSeq(t[i].path, 1, l - 1)
        BY DEF Import!Front
      <4>2. 1 \in Int /\ l - 1 \in Int /\ \A k \in 1..(l - 1) : t[i].path[k] \in Names
        BY <1>3
      <4>3. /\ SubSeq(t[i].path, 1, l - 1) \in Seq(Names)
            /\ Len(SubSeq(t[i].path, 1, l - 1)) =
                 IF 1 <= l - 1 THEN (l - 1) - 1 + 1 ELSE 0
            /\ \A k \in 1..((l - 1) - 1 + 1) :
                 SubSeq(t[i].path, 1, l - 1)[k] = t[i].path[1 + k - 1]
        BY <4>2, SubSeqProperties
      <4>4. (l - 1) - 1 + 1 = l - 1 /\ (IF 1 <= l - 1 THEN (l - 1) - 1 + 1 ELSE 0) = l - 1
        BY <3>1
      <4>5. \A k \in 1..(l - 1) : 1 + k - 1 = k
        BY <3>1
      <4> QED  BY <4>1, <4>3, <4>4, <4>5
    <3> DEFINE front == Import!Front(t[i].path)
    <3>6. /\ l - 1 <= Len(up)
          /\ SubSeq(front, 1, l - 1) = SubSeq(up, 1, l - 1)
      BY <3>2, <3>5 DEF Import!IsPrefix
    <3>7. \A k \in 1..(l - 1) : up[k] = t[i].path[k]
      <4> HIDE DEF front, up, l
      <4>1. \A k \in 1..(l - 1) : front[k] = SubSeq(front, 1, l - 1)[k]
        BY <3>1, <3>5 DEF front
      <4>2. \A k \in 1..(l - 1) : up[k] = SubSeq(up, 1, l - 1)[k]
        BY <3>1, <3>4, <3>6
      <4> QED  BY <4>1, <4>2, <3>5, <3>6 DEF front
    <3>8. SubSeq(up, 1, m) = SubSeq(t[i].path, 1, m)
      <4> HIDE DEF up, l
      <4>1. m <= Len(up) /\ m \in 1..(l - 1)
        BY <3>1, <3>4, <3>6
      <4>2. \A k \in 1..m : up[k] = t[i].path[k]
        BY <4>1, <3>1, <3>7
      <4> QED  BY <4>2, <3>1
    <3>9. PICK j \in 1..(i - 1) : t[j].path = SubSeq(up, 1, m)
      <4>1. i - 1 \notin Bad
        BY <1>1, <3>3, <1>2
      <4>2. m \in 1..Len(up)
        BY <3>1, <3>4, <3>6
      <4> QED  BY <4>1, <4>2, <3>3
    <3>10. j \in 1..i
      BY <1>2
    <3> QED  BY <3>8, <3>9, <3>10
  <2> QED  BY <2>1, <2>2
<1> QED  BY <1>1, <1>4

(* The node at the front of a path is an earlier one.                      *)
LEMMA ParentComesFirst ==
  ASSUME tree \in Import!Trees, NEW i \in DOMAIN tree, Len(tree[i].path) # 1
  PROVE  \E j \in DOMAIN tree :
           j < i /\ Import!NodeAt(Import!Front(tree[i].path)) = tree[j]
<1> DEFINE l == Len(tree[i].path)
           front == Import!Front(tree[i].path)
<1>1. /\ i \in Nat /\ i >= 1 /\ l \in Nat \ {0} /\ tree[i].path \in Seq(Names)
      /\ Len(tree) \in Nat /\ DOMAIN tree = 1..Len(tree)
  BY TreeOf
<1>2. PICK j \in 1..i : tree[j].path = SubSeq(tree[i].path, 1, l - 1)
  <2>1. l - 1 \in 1..l
    <3>1. l # 1
      OBVIOUS
    <3> HIDE DEF l
    <3> QED  BY <1>1, <3>1
  <2> QED  BY <2>1, AncestorsComeFirst
<1>3. tree[j].path = front
  BY <1>2 DEF Import!Front
<1>4. j # i
  <2>1. Len(SubSeq(tree[i].path, 1, l - 1)) # l
    <3>1. 1 \in Int /\ l - 1 \in Int /\ \A k \in 1..(l - 1) : tree[i].path[k] \in Names
      BY <1>1
    <3>2. Len(SubSeq(tree[i].path, 1, l - 1)) = IF 1 <= l - 1 THEN (l - 1) - 1 + 1 ELSE 0
      BY <3>1, SubSeqProperties
    <3> QED  BY <3>2, <1>1
  <2> QED  BY <2>1, <1>2
<1>5. j \in DOMAIN tree /\ j < i
  BY <1>1, <1>4
<1>6. (CHOOSE k \in DOMAIN tree : tree[k].path = front) = j
  <2>1. \A k \in DOMAIN tree : tree[k].path = front => k = j
    BY <1>3, <1>5, TreeOf
  <2> QED  BY <2>1, <1>3, <1>5
<1> QED  BY <1>5, <1>6 DEF Import!NodeAt

-----------------------------------------------------------------------------
(* The inductive invariant of the import.                                  *)

(* The parent that the release gives to the node.                          *)
ParentOf(i) ==
  IF Len(tree[i].path) = 1 THEN null ELSE Import!NodeAt(Import!Front(tree[i].path)).id

(* The row of the node says where it hangs, and the script knows it.       *)
Written(i) ==
  /\ Import!Exists(tree[i].id)
  /\ table[tree[i].id].path = tree[i].path
  /\ table[tree[i].id].parent = ParentOf(i)
  /\ run.used[tree[i].id] = tree[i].id

ImportTyped == Import!TypeOK /\ run.at <= Len(tree) + 1

DoneSoFar ==
  \A i \in DOMAIN tree :
    i < run.at => Written(i) /\ table[tree[i].id].features = tree[i].id

HalfWay == Import!Running /\ run.step = "features" => Written(run.at)

ImportSound ==
  /\ ImportTyped
  /\ ~adopted => Import!Forest /\ DoneSoFar /\ HalfWay

LEMMA EmptyTree == <<>> \in Import!Trees
<1>1. <<>> \in [1..0 -> Import!Node] /\ 0 \in 0..MaxNodes
  BY PartsAssumption DEF Import!CategorySeedAssumption
<1> QED  BY <1>1 DEF Import!Trees

LEMMA TreeIsOne ==
  ASSUME ImportTyped
  PROVE  tree \in Import!Trees
  BY EmptyTree, PartsAssumption
  DEF ImportTyped, Import!TypeOK, Import!CategorySeedAssumption

LEMMA RunOf ==
  ASSUME ImportTyped
  PROVE  /\ run.at \in Nat /\ run.used \in [Ids -> Ids \cup {null}]
         /\ run.step \in {"upsert", "features"}
         /\ run = [at |-> run.at, step |-> run.step, used |-> run.used]
         /\ table \in [Ids -> Import!Row \cup {null}]
         /\ Import!Running => run.at \in DOMAIN tree
         /\ Len(tree) \in Nat /\ DOMAIN tree = 1..Len(tree) /\ Len(tree) <= MaxNodes
         /\ MaxNodes \in Nat /\ null \notin Ids \cup Import!Row
<1>1. /\ run \in Import!Run /\ table \in [Ids -> Import!Row \cup {null}]
      /\ run.at <= Len(tree) + 1
  BY DEF ImportTyped, Import!TypeOK
<1>2. Len(tree) \in Nat /\ DOMAIN tree = 1..Len(tree) /\ Len(tree) <= MaxNodes
  BY TreeIsOne, TreeOf
<1>3. MaxNodes \in Nat /\ null \notin Ids \cup Import!Row
  BY PartsAssumption DEF Import!CategorySeedAssumption
<1>4. /\ run.at \in Nat /\ run.used \in [Ids -> Ids \cup {null}]
      /\ run.step \in {"upsert", "features"}
      /\ run = [at |-> run.at, step |-> run.step, used |-> run.used]
  BY <1>1, <1>3 DEF Import!Run
<1>5. Import!Running => run.at \in DOMAIN tree
  BY <1>1, <1>2, <1>4 DEF Import!Running, Import!Finished
<1> QED  BY <1>1, <1>2, <1>3, <1>4, <1>5

LEMMA NotRunningIs ==
  /\ Import!NotRunning \in Import!Run /\ Import!NotRunning.at = 0
  /\ [Import!NotRunning EXCEPT !.at = 1] \in Import!Run
  /\ [Import!NotRunning EXCEPT !.at = 1].at = 1
  /\ [Import!NotRunning EXCEPT !.at = 1].step = "upsert"
<1>1. MaxNodes \in Nat
  BY PartsAssumption DEF Import!CategorySeedAssumption
<1> QED  BY <1>1 DEF Import!NotRunning, Import!Run

(* What is kept of the table when the script starts or stops.              *)
LEMMA StartOrStop ==
  ASSUME ImportSound, ~adopted, table' = table, tree' \in Releases \cup {<<>>},
         run' \in Import!Run, run'.at \in {0, 1}, run'.step = "upsert"
  PROVE  ImportSound'
<1>1. tree' \in Import!Trees
  BY EmptyTree, PartsAssumption DEF Import!CategorySeedAssumption
<1>2. Len(tree') \in Nat /\ DOMAIN tree' = 1..Len(tree')
  BY <1>1, TreeOf
<1>3. ImportTyped'
  BY <1>2 DEF ImportSound, ImportTyped, Import!TypeOK
<1>4. Import!Forest'
  BY DEF ImportSound, Import!Forest, Import!Exists
<1>5. DoneSoFar' /\ HalfWay'
  BY <1>2 DEF DoneSoFar, HalfWay
<1> QED  BY <1>3, <1>4, <1>5 DEF ImportSound

LEMMA StopStep ==
  ASSUME ImportSound, ~adopted, Import!die \/ Import!refuse
  PROVE  ImportSound'
<1>1. run' = Import!NotRunning /\ UNCHANGED <<tree, table>>
  BY DEF Import!die, Import!refuse
<1>2. tree' \in Releases \cup {<<>>}
  BY <1>1 DEF ImportSound, ImportTyped, Import!TypeOK
<1>3. Import!NotRunning.step = "upsert"
  BY DEF Import!NotRunning
<1> QED  BY <1>1, <1>2, <1>3, NotRunningIs, StartOrStop

LEMMA StartStep ==
  ASSUME ImportSound, ~adopted, Import!main \/ Import!release
  PROVE  ImportSound'
<1>1. run' = [Import!NotRunning EXCEPT !.at = 1] /\ table' = table
  BY DEF Import!main, Import!release, Import!Start
<1>2. tree' \in Releases \cup {<<>>}
  BY DEF ImportSound, ImportTyped, Import!TypeOK, Import!main, Import!release
<1> QED  BY <1>1, <1>2, NotRunningIs, StartOrStop

-----------------------------------------------------------------------------
(* The step that writes a row.                                             *)

(* The parents of what has been imported have been imported, too.          *)
LEMMA ParentDone ==
  ASSUME ImportTyped, NEW i \in DOMAIN tree
  PROVE  /\ ParentOf(i) \in Ids \cup {null}
         /\ ParentOf(i) # null =>
              \E j \in DOMAIN tree : j < i /\ ParentOf(i) = tree[j].id
<1>1. CASE Len(tree[i].path) = 1
  BY <1>1 DEF ParentOf
<1>2. CASE Len(tree[i].path) # 1
  <2>1. PICK j \in DOMAIN tree :
          j < i /\ Import!NodeAt(Import!Front(tree[i].path)) = tree[j]
    BY <1>2, TreeIsOne, ParentComesFirst
  <2>2. tree[j].id \in Ids
    BY TreeIsOne, TreeOf
  <2> QED  BY <1>2, <2>1, <2>2 DEF ParentOf
<1> QED  BY <1>1, <1>2

LEMMA UpsertTyped ==
  ASSUME ImportTyped, Import!upsertCategory
  PROVE  ImportTyped'
<1> DEFINE node == tree[run.at]
           c == Import!Target(node)
           data == Import!categoryData(node, c)
<1>1. Import!Running /\ run.at \in DOMAIN tree
  BY RunOf DEF Import!upsertCategory
<1>2. node.id \in Ids /\ node.path \in Import!Paths
  BY <1>1, TreeIsOne, TreeOf
<1>3. c \in Ids
  BY <1>2 DEF Import!Target, Import!existing, Import!AtPath
<1>4. Import!parentId(node) \in Ids \cup {null}
  <2>1. CASE Len(node.path) = 1
    BY <2>1 DEF Import!parentId
  <2>2. CASE Len(node.path) # 1
    <3>1. PICK j \in DOMAIN tree : Import!NodeAt(Import!Front(node.path)) = tree[j]
      BY <2>2, <1>1, TreeIsOne, ParentComesFirst
    <3>2. tree[j].id \in Ids
      BY TreeIsOne, TreeOf
    <3> QED  BY <2>2, <3>1, <3>2, RunOf DEF Import!parentId
  <2> QED  BY <2>1, <2>2
<1>5. data \in Import!Row
  <2>1. Import!Exists(c) => table[c] \in Import!Row
    BY <1>3, RunOf DEF Import!Exists
  <2>2. (IF Import!Exists(c) THEN table[c].features ELSE null) \in Ids \cup {null}
    BY <2>1 DEF Import!Row
  <2> QED  BY <1>2, <1>4, <2>2 DEF Import!categoryData, Import!Row
<1>6. /\ table' = [table EXCEPT ![c] = data]
      /\ run' = [run EXCEPT !.step = "features", !.used[node.id] = c]
      /\ tree' = tree
  BY DEF Import!upsertCategory
<1>7. table' \in [Ids -> Import!Row \cup {null}]
  <2> HIDE DEF data, c
  <2> QED  BY <1>3, <1>5, <1>6, RunOf
<1>8. run' \in Import!Run /\ run'.at = run.at
  <2> HIDE DEF c, node
  <2>1. run \in Import!Run
    BY DEF ImportTyped, Import!TypeOK
  <2>2. run' = [at |-> run.at, step |-> "features", used |-> [run.used EXCEPT ![node.id] = c]]
    BY <1>6, RunOf
  <2>3. [run.used EXCEPT ![node.id] = c] \in [Ids -> Ids \cup {null}]
    BY <1>2, <1>3, RunOf
  <2>4. run.at \in 0..(MaxNodes + 1)
    BY <2>1 DEF Import!Run
  <2> QED  BY <2>2, <2>3, <2>4 DEF Import!Run
<1> QED  BY <1>6, <1>7, <1>8 DEF ImportTyped, Import!TypeOK

(* A circle in the new table would have one in the old: the written row's  *)
(* ancestors have all been imported.                                       *)
LEMMA UpsertSound ==
  ASSUME ImportSound, ~adopted, Import!upsertCategory, ~Import!Adopts
  PROVE  Import!Forest' /\ DoneSoFar' /\ HalfWay'
<1> DEFINE at == run.at
           id == tree[at].id
           data == Import!categoryData(tree[at], id)
<1>0. ImportTyped /\ ImportTyped' /\ Import!Forest /\ DoneSoFar
  BY UpsertTyped DEF ImportSound
<1>1. Import!Running /\ at \in DOMAIN tree /\ at \in Nat
  BY <1>0, RunOf DEF Import!upsertCategory
<1>2. id \in Ids /\ \A i \in DOMAIN tree : tree[i].id \in Ids /\ (i # at => tree[i].id # id)
  BY <1>0, <1>1, TreeIsOne, TreeOf
<1>3. Import!Target(tree[at]) = id
  <2>1. CASE Import!Exists(id)
    BY <2>1 DEF Import!Target, Import!existing
  <2>2. CASE ~Import!Exists(id)
    BY <2>2, <1>1 DEF Import!Target, Import!existing, Import!Adopts, Import!upsertCategory
  <2> QED  BY <2>1, <2>2
<1>4. /\ table' = [table EXCEPT ![id] = data]
      /\ run' = [run EXCEPT !.step = "features", !.used[id] = id]
      /\ tree' = tree
  BY <1>3 DEF Import!upsertCategory
<1>5. /\ data.path = tree[at].path /\ data.parent = ParentOf(at)
  <2>1. Import!parentId(tree[at]) = ParentOf(at)
    <3>1. CASE Len(tree[at].path) = 1
      BY <3>1 DEF Import!parentId, ParentOf
    <3>2. CASE Len(tree[at].path) # 1
      <4>1. PICK j \in DOMAIN tree :
              j < at /\ Import!NodeAt(Import!Front(tree[at].path)) = tree[j]
        BY <3>2, <1>0, <1>1, TreeIsOne, ParentComesFirst
      <4>2. run.used[tree[j].id] = tree[j].id
        BY <4>1, <1>0 DEF DoneSoFar, Written
      <4> QED  BY <3>2, <4>1, <4>2 DEF Import!parentId, ParentOf
    <3> QED  BY <3>1, <3>2
  <2> QED  BY <2>1 DEF Import!categoryData
<1>6. /\ table'[id] = data /\ \A d \in Ids : d # id => table'[d] = table[d]
      /\ run'.at = at /\ run'.used[id] = id
      /\ \A d \in Ids : d # id => run'.used[d] = run.used[d]
  <2> HIDE DEF data, id
  <2> QED  BY <1>0, <1>2, <1>4, RunOf
<1>7. data # null
  <2>1. table'[id] \in Import!Row \cup {null}
    BY <1>0, <1>2 DEF ImportTyped, Import!TypeOK
  <2>2. CASE data = null
    <3>1. data \in Import!Row
      <4>1. Import!Exists(id) => table[id] \in Import!Row
        BY <1>0, <1>2, RunOf DEF Import!Exists
      <4>2. (IF Import!Exists(id) THEN table[id].features ELSE null) \in Ids \cup {null}
        BY <4>1 DEF Import!Row
      <4>3. tree[at].path \in Import!Paths /\ ParentOf(at) \in Ids \cup {null}
        BY <1>0, <1>1, TreeIsOne, TreeOf, ParentDone
      <4> QED  BY <4>2, <4>3, <1>5 DEF Import!categoryData, Import!Row
    <3> QED  BY <3>1, <2>2, <1>0, RunOf
  <2> QED  BY <2>2
<1> HIDE DEF data
<1>8. \A i : ParentOf(i)' = ParentOf(i)
  BY <1>4 DEF ParentOf, Import!NodeAt
<1>9. HalfWay'
  <2>1. Written(at)'
    BY <1>4, <1>5, <1>6, <1>7, <1>8 DEF Written, Import!Exists
  <2> QED  BY <2>1, <1>6 DEF HalfWay
<1>10. DoneSoFar'
  <2> SUFFICES ASSUME NEW i \in DOMAIN tree, i < at
               PROVE  Written(i)' /\ table'[tree[i].id].features = tree[i].id
    BY <1>4, <1>6 DEF DoneSoFar
  <2>1. Written(i) /\ table[tree[i].id].features = tree[i].id
    BY <1>0 DEF DoneSoFar
  <2>2. tree[i].id # id /\ tree[i].id \in Ids
    BY <1>1, <1>2
  <2>3. table'[tree[i].id] = table[tree[i].id] /\ run'.used[tree[i].id] = run.used[tree[i].id]
    BY <2>2, <1>6
  <2> QED  BY <2>1, <2>3, <1>4, <1>8 DEF Written, Import!Exists
<1>11. Import!Forest'
  <2> SUFFICES ASSUME NEW s \in SUBSET Ids, s # {},
                      \A d \in s : table'[d] # null /\ table'[d].parent \in s
               PROVE  FALSE
    BY DEF Import!Forest, Import!Exists
  <2>1. CASE id \notin s
    <3>1. \A d \in s : table[d] # null /\ table[d].parent \in s
      BY <2>1, <1>6
    <3> QED  BY <3>1, <1>0 DEF Import!Forest, Import!Exists
  <2>2. CASE id \in s
    <3> DEFINE P == {d \in s : \E i \in DOMAIN tree : i < at /\ d = tree[i].id}
    <3>1. null \notin s
      BY <1>0, RunOf
    <3>2. ASSUME NEW i \in DOMAIN tree, i <= at, tree[i].id \in s,
                 ParentOf(i) \in s
          PROVE  ParentOf(i) \in P
      <4>1. PICK j \in DOMAIN tree : j < i /\ ParentOf(i) = tree[j].id
        BY <3>1, <3>2, <1>0, ParentDone
      <4>2. i \in Nat /\ j \in Nat
        BY <1>0, RunOf
      <4>3. j < at
        BY <4>1, <4>2, <3>2, <1>1
      <4> QED  BY <4>1, <4>3, <3>2
    <3>3. ParentOf(at) \in P
      <4>1. ParentOf(at) \in s
        BY <2>2, <1>5, <1>6
      <4> QED  BY <4>1, <3>2, <2>2, <1>1
    <3>4. ASSUME NEW d \in P PROVE table[d] # null /\ table[d].parent \in P
      <4>1. PICK i \in DOMAIN tree : i < at /\ d = tree[i].id
        OBVIOUS
      <4>2. d # id /\ d \in Ids /\ i <= at
        <5>1. i \in Nat
          BY <1>0, RunOf
        <5> QED  BY <5>1, <4>1, <1>1, <1>2
      <4>3. table'[d] = table[d] /\ table[d].parent = ParentOf(i)
        BY <4>1, <4>2, <1>0, <1>6 DEF DoneSoFar, Written
      <4>4. table'[d] # null /\ table'[d].parent \in s
        OBVIOUS
      <4> QED  BY <4>1, <4>2, <4>3, <4>4, <3>2
    <3>5. P \subseteq {d \in Ids : table[d] # null} /\ P # {}
      BY <3>3, <3>4
    <3>6. \A d \in P : table[d].parent \in P
      BY <3>4
    <3> HIDE DEF P
    <3> QED  BY <3>5, <3>6, <1>0 DEF Import!Forest, Import!Exists
  <2> QED  BY <2>1, <2>2
<1> QED  BY <1>9, <1>10, <1>11

LEMMA FeaturesStep ==
  ASSUME ImportSound, ~adopted, Import!replaceFeatures
  PROVE  ImportSound'
<1> DEFINE at == run.at
           id == tree[at].id
<1>0. ImportTyped /\ Import!Forest /\ DoneSoFar /\ HalfWay
  BY DEF ImportSound
<1>1. Import!Running /\ run.step = "features" /\ at \in DOMAIN tree /\ at \in Nat
  BY <1>0, RunOf DEF Import!replaceFeatures
<1>2. id \in Ids /\ \A i \in DOMAIN tree : tree[i].id \in Ids /\ (i # at => tree[i].id # id)
  BY <1>0, <1>1, TreeIsOne, TreeOf
<1>3. Written(at)
  BY <1>0, <1>1 DEF HalfWay
<1>4. /\ table' = [table EXCEPT ![id].features = id]
      /\ run' = [run EXCEPT !.at = @ + 1, !.step = "upsert"]
      /\ tree' = tree
  BY <1>3 DEF Import!replaceFeatures, Written
<1>5. table[id] \in Import!Row
  BY <1>0, <1>2, <1>3, RunOf DEF Written, Import!Exists
<1>6. /\ table'[id] \in Import!Row /\ table'[id].features = id
      /\ table'[id].path = table[id].path /\ table'[id].parent = table[id].parent
      /\ \A d \in Ids : d # id => table'[d] = table[d]
      /\ table' \in [Ids -> Import!Row \cup {null}]
  <2> HIDE DEF id
  <2>1. table' = [table EXCEPT ![id] = [table[id] EXCEPT !.features = id]]
    BY <1>4
  <2>2. PICK p, q, f : /\ table[id] = [parent |-> p, path |-> q, features |-> f]
                       /\ p \in Ids \cup {null} /\ q \in Import!Paths
    BY <1>5 DEF Import!Row
  <2>3. [table[id] EXCEPT !.features = id] = [parent |-> p, path |-> q, features |-> id]
    BY <2>2
  <2>4. [parent |-> p, path |-> q, features |-> id] \in Import!Row
    BY <2>2, <1>2 DEF Import!Row
  <2>5. table'[id] = [parent |-> p, path |-> q, features |-> id]
    BY <2>1, <2>3, <1>0, <1>2, RunOf
  <2>6. table' \in [Ids -> Import!Row \cup {null}]
    BY <2>1, <2>3, <2>4, <1>0, <1>2, RunOf
  <2>7. \A d \in Ids : d # id => table'[d] = table[d]
    BY <2>1, <1>0, RunOf
  <2> QED  BY <2>2, <2>4, <2>5, <2>6, <2>7
<1>7. run'.at = at + 1 /\ run'.used = run.used /\ run' \in Import!Run /\ run'.step = "upsert"
  <2>1. run' = [at |-> at + 1, step |-> "upsert", used |-> run.used]
    BY <1>0, <1>4, RunOf
  <2>2. at + 1 \in 0..(MaxNodes + 1)
    BY <1>0, <1>1, RunOf
  <2> QED  BY <2>1, <2>2, <1>0, RunOf DEF Import!Run
<1>8. ImportTyped'
  <2>1. at + 1 <= Len(tree) + 1
    BY <1>0, <1>1, RunOf
  <2> QED  BY <2>1, <1>0, <1>4, <1>6, <1>7 DEF ImportTyped, Import!TypeOK
<1>9. null \notin Import!Row
  BY <1>0, RunOf
<1>10. \A d \in Ids : /\ table'[d] # null <=> table[d] # null
                      /\ table'[d] # null => table'[d].parent = table[d].parent
  BY <1>5, <1>6, <1>9
<1>11. Import!Forest'
  <2> SUFFICES ASSUME NEW s \in SUBSET Ids, s # {},
                      \A d \in s : table'[d] # null /\ table'[d].parent \in s
               PROVE  FALSE
    BY DEF Import!Forest, Import!Exists
  <2>1. \A d \in s : table[d] # null /\ table[d].parent \in s
    BY <1>10
  <2> QED  BY <2>1, <1>0 DEF Import!Forest, Import!Exists
<1>12. \A i : ParentOf(i)' = ParentOf(i)
  BY <1>4 DEF ParentOf, Import!NodeAt
<1>13. DoneSoFar'
  <2> SUFFICES ASSUME NEW i \in DOMAIN tree, i < at + 1
               PROVE  Written(i)' /\ table'[tree[i].id].features = tree[i].id
    BY <1>4, <1>7 DEF DoneSoFar
  <2>1. CASE i = at
    <3>1. tree[i].id = id /\ Written(i)
      BY <2>1, <1>3
    <3>2. Written(i)'
      BY <3>1, <1>4, <1>6, <1>7, <1>9, <1>12 DEF Written, Import!Exists
    <3> QED  BY <3>1, <3>2, <1>6
  <2>2. CASE i # at
    <3>1. i < at
      <4>1. i \in Nat
        BY <1>0, RunOf
      <4> QED  BY <4>1, <2>2, <1>1
    <3>2. Written(i) /\ table[tree[i].id].features = tree[i].id
      BY <3>1, <1>0 DEF DoneSoFar
    <3>3. table'[tree[i].id] = table[tree[i].id]
      BY <2>2, <1>2, <1>6
    <3> QED  BY <3>2, <3>3, <1>4, <1>7, <1>12 DEF Written, Import!Exists
  <2> QED  BY <2>1, <2>2
<1>14. HalfWay'
  BY <1>7 DEF HalfWay
<1> QED  BY <1>8, <1>11, <1>13, <1>14 DEF ImportSound

LEMMA ImportInit ==
  ASSUME Import!MCInit
  PROVE  ImportSound
<1> USE DEF Import!MCInit, Import!Init
<1>1. run.at = 0
  BY NotRunningIs
<1>2. ImportTyped
  BY <1>1, NotRunningIs DEF ImportTyped, Import!TypeOK
<1>3. \A c \in Ids : ~Import!Exists(c)
  BY DEF Import!Exists
<1> QED  BY <1>1, <1>2, <1>3 DEF ImportSound, Import!Forest, DoneSoFar, HalfWay, Import!Running

LEMMA ImportStep ==
  ASSUME ImportSound, Import!MCNext
  PROVE  ImportSound'
<1>1. ~adopted /\ Import!Next /\ adopted' = (Import!Adopts /\ Import!upsertCategory)
  BY DEF Import!MCNext
<1>2. CASE Import!upsertCategory
  <2>1. ImportTyped'
    BY <1>2, UpsertTyped DEF ImportSound
  <2>2. ~adopted' => Import!Forest' /\ DoneSoFar' /\ HalfWay'
    BY <1>1, <1>2, UpsertSound
  <2> QED  BY <2>1, <2>2 DEF ImportSound
<1> QED  BY <1>1, <1>2, StopStep, StartStep, FeaturesStep DEF Import!Next

LEMMA ImportStutter ==
  ASSUME ImportSound, UNCHANGED import
  PROVE  ImportSound'
<1> USE DEF import
<1>1. ImportTyped' <=> ImportTyped
  BY DEF ImportTyped, Import!TypeOK
<1>2. Import!Forest' <=> Import!Forest
  BY DEF Import!Forest, Import!Exists
<1>3. \A i : Written(i)' <=> Written(i)
  BY DEF Written, Import!Exists, ParentOf, Import!NodeAt
<1>4. (DoneSoFar' <=> DoneSoFar) /\ (HalfWay' <=> HalfWay)
  BY <1>3 DEF DoneSoFar, HalfWay, Import!Running, Import!Finished
<1> QED  BY <1>1, <1>2, <1>4 DEF ImportSound

(* The inductive invariant of seed.ts: every node before the one it is at  *)
(* has its row, whose parent is the row of an earlier node.                *)
THEOREM ImportInvariant == MCSpec => []ImportSound
<1>1. MCInit => ImportSound
  BY ImportInit DEF MCInit
<1>2. ImportSound /\ [MCNext]_<<part, vars, lists, import>> => ImportSound'
  <2> SUFFICES ASSUME ImportSound, [MCNext]_<<part, vars, lists, import>>
               PROVE  ImportSound'
    OBVIOUS
  <2> QED  BY ImportStep, ImportStutter DEF MCNext
<1> QED  BY <1>1, <1>2, PTL DEF MCSpec

(* seed.ts comes to its end only when every node of the data is imported,  *)
(* however often it died before and whatever was renamed and moved between *)
(* the releases; and at every moment the table of categories is a forest.  *)
THEOREM EverythingImported == MCSpec => []ImportsEverything
<1>1. ImportSound => ImportsEverything
  <2> SUFFICES ASSUME ImportSound PROVE Import!ImportsEverything /\ Import!ForestAlways
    BY DEF ImportsEverything
  <2>1. ASSUME Import!Finished, ~adopted, NEW i \in DOMAIN tree PROVE Import!Imported(i)
    <3>1. i < run.at
      BY <2>1, RunOf DEF ImportSound, Import!Finished
    <3>2. Written(i) /\ table[tree[i].id].features = tree[i].id
      BY <2>1, <3>1 DEF ImportSound, DoneSoFar
    <3>3. table[tree[i].id] \in Import!Row
      <4>1. tree[i].id \in Ids
        BY TreeIsOne, TreeOf DEF ImportSound
      <4> QED  BY <3>2, <4>1, RunOf DEF ImportSound, Written, Import!Exists
    <3>4. table[tree[i].id] = [parent |-> table[tree[i].id].parent,
                               path |-> table[tree[i].id].path,
                               features |-> table[tree[i].id].features]
      BY <3>3 DEF Import!Row
    <3>5. table[tree[i].id] = [parent |-> ParentOf(i), path |-> tree[i].path,
                               features |-> tree[i].id]
      BY <3>2, <3>4 DEF Written
    <3> QED  BY <3>5 DEF Import!Imported, ParentOf
  <2>2. Import!ForestAlways
    BY DEF ImportSound, Import!ForestAlways
  <2> QED  BY <2>1, <2>2 DEF Import!ImportsEverything
<1> QED  BY <1>1, ImportInvariant, PTL
=============================================================================
