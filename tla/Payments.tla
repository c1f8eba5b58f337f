------------------------------ MODULE Payments ------------------------------
(***************************************************************************)
(* Paid promotion: the checkouts of AdBumpsService, PremiumService and     *)
(* AdServicesService, their common reconciliation with YooKassa, which a   *)
(* webhook or the buyer may start at any time and any number of times, and *)
(* the hourly AdAutoBumpWorker that works off what was bought.             *)
(*                                                                         *)
(* The three services differ in the table of the purchase and in what it   *)
(* extends; the order of their steps is the same:                          *)
(*                                                                         *)
(*   checkout   read -> create -> post -> record | cancel                  *)
(*   reconcile  find -> fetch -> read -> write | cancelRow                 *)
(*                                                                         *)
(* One account is modelled: a checkout is refused for anybody else's ad,   *)
(* so the purchases of two accounts never meet in one row.                 *)
(*                                                                         *)
(* A definition op_variant before op is op with a mistake in it; nothing   *)
(* here uses it.  Putting it in op's place breaks one of the properties.   *)
(***************************************************************************)
EXTENDS Naturals

CONSTANTS
  Purchases,   (* ids of the rows of the three tables                      *)
  Ads,         (* the account's ads                                        *)
  AdOf,        (* the ad a purchase is for; null for the premium account   *)
  Services,    (* the services a purchase pays for                         *)
  Duration,    (* days that each service lasts                             *)
  Requests,    (* slots for HTTP requests being handled at the same time   *)
  MaxDay,      (* bound of the clock                                       *)
  MaxCrashes,  (* bound of the number of crashes                           *)
  null

AdServiceType == {"BUMP", "PRICE_HIGHLIGHT", "BADGE"}

ServiceType == AdServiceType \cup {"PREMIUM"}

ASSUME PaymentsAssumption ==
  /\ AdOf \in [Purchases -> Ads \cup {null}]
  /\ Services \in [Purchases -> SUBSET ServiceType]
  /\ \A p \in Purchases : IF AdOf[p] = null THEN Services[p] = {"PREMIUM"}
                                            ELSE "PREMIUM" \notin Services[p]
  /\ Duration \in [ServiceType -> Nat]
  /\ MaxDay \in Nat /\ MaxCrashes \in Nat
  /\ null \notin Ads /\ null \notin Purchases

VARIABLES
  ads,         (* what the ads' statuses mean to these services            *)
  row,         (* the row of each purchase                                 *)
  payment,     (* YooKassa: the payment with Idempotence-Key p             *)
  offered,     (* purchases whose payment link the buyer was given         *)
  webhooks,    (* notifications YooKassa repeats until a 200               *)
  until,       (* the columns bumpServiceUntil, ..., premiumUntil          *)
  bumpedAt,    (* Ad.bumpedAt                                              *)
  req,         (* the request handled in each slot                         *)
  auto,        (* AdAutoBumpWorker: the ads it is about to bump            *)
  applied,     (* history: how often each purchase has been credited       *)
  today,       (* the clock, in days; 0 in a date column is null           *)
  crashes      (* crashes so far                                           *)

vars == <<ads, row, payment, offered, webhooks, until, bumpedAt, req, auto,
          applied, today, crashes>>

-----------------------------------------------------------------------------
(* Types.                                                                  *)

(* What a purchase extends: a column of its ad, or of the account.         *)
Columns == (Ads \X AdServiceType) \cup {<<null, "PREMIUM">>}

Granted(p) == {<<AdOf[p], s>> : s \in Services[p]}

(* GONE: never inserted, or deleted with the ad; nothing finds it.         *)
Purchase == [status : {"NEW", "PENDING", "SUCCEEDED", "CANCELED", "GONE"},
             yookassaPaymentId : BOOLEAN]   \* recorded, or null

Request == [step : {"idle", "create", "post", "record", "cancel",
                    "find", "fetch", "read", "write", "cancelRow"},
            p : Purchases \cup {null},
            webhook : BOOLEAN,              \* started by YooKassa
            seen : [Columns -> Nat],        \* the columns its transaction read
            now : Nat]

At(step, p, webhook) == [step |-> step, p |-> p, webhook |-> webhook,
                         seen |-> [c \in Columns |-> 0], now |-> 0]

Idle == At("idle", null, FALSE)

AutoIdle == [ids |-> {}, now |-> 0]

TypeOK ==
  /\ ads \in [Ads -> {"PUBLISHED", "HIDDEN", "GONE"}]
  /\ row \in [Purchases -> Purchase]
  /\ payment \in [Purchases -> {"none", "pending", "succeeded", "canceled"}]
  /\ offered \subseteq Purchases
  /\ webhooks \subseteq Purchases
  /\ until \in [Columns -> Nat]
  /\ bumpedAt \in [Ads -> Nat]
  /\ req \in [Requests -> Request]
  /\ auto \in [ids : SUBSET Ads, now : Nat]
  /\ applied \in [Purchases -> Nat]
  /\ today \in Nat
  /\ crashes \in Nat

Init ==
  /\ ads = [a \in Ads |-> "PUBLISHED"]
  /\ row = [p \in Purchases |-> [status |-> "NEW", yookassaPaymentId |-> FALSE]]
  /\ payment = [p \in Purchases |-> "none"]
  /\ offered = {}
  /\ webhooks = {}
  /\ until = [c \in Columns |-> 0]
  /\ bumpedAt = [a \in Ads |-> 0]
  /\ req = [r \in Requests |-> Idle]
  /\ auto = AutoIdle
  /\ applied = [p \in Purchases |-> 0]
  /\ today = 1
  /\ crashes = 0

-----------------------------------------------------------------------------
(* Helpers.                                                                *)

(* Everything but the requests and the rows.                               *)
world == <<ads, payment, until, bumpedAt, auto, applied, today, crashes>>

Become(r, q) == req' = [req EXCEPT ![r] = q]

Go(r, step) == Become(r, [req[r] EXCEPT !.step = step])

Respond(r) == Become(r, Idle)

SetStatus(p, status) == row' = [row EXCEPT ![p].status = status]

Alive(p) == row[p].status \notin {"NEW", "GONE"}

(* Premium needs no ad; the account itself is never deleted physically.    *)
AdExists(p) == AdOf[p] # null => ads[AdOf[p]] # "GONE"

(* The handler's answer to YooKassa is a 200: the notification is over.    *)
Acknowledge(r) ==
  webhooks' = IF req[r].webhook THEN webhooks \ {req[r].p} ELSE webhooks

-----------------------------------------------------------------------------
(* createCheckout.                                                         *)

checkoutRead(r, p) ==
  /\ req[r].step = "idle"
  /\ row[p].status = "NEW" /\ \A s \in Requests : req[s].p # p
  /\ AdOf[p] # null => ads[AdOf[p]] = "PUBLISHED"
  /\ Become(r, At("create", p, FALSE))
  /\ UNCHANGED <<row, offered, webhooks, world>>

(* The insert fails when the ad has been deleted meanwhile (foreign key).  *)
checkoutCreate(r) ==
  LET p == req[r].p IN
  /\ req[r].step = "create"
  /\ IF AdExists(p) THEN SetStatus(p, "PENDING") /\ Go(r, "post")
                    ELSE SetStatus(p, "GONE") /\ Respond(r)
  /\ UNCHANGED <<offered, webhooks, world>>

postPayment(r) ==
  /\ req[r].step = "post"
  /\ payment' = [payment EXCEPT ![req[r].p] = "pending"]
  /\ Go(r, "record")
  /\ UNCHANGED <<ads, row, offered, webhooks, until, bumpedAt, auto, applied,
                 today, crashes>>

(* An error, or an answer that is lost on the way.                         *)
postFails_uncaught(r) ==
  /\ req[r].step = "post"
  /\ \E outcome \in {"none", "pending"} :
       payment' = [payment EXCEPT ![req[r].p] = outcome]
  /\ Respond(r)
  /\ UNCHANGED <<ads, row, offered, webhooks, until, bumpedAt, auto, applied,
                 today, crashes>>

postFails(r) ==
  /\ req[r].step = "post"
  /\ \E outcome \in {"none", "pending"} :
       payment' = [payment EXCEPT ![req[r].p] = outcome]
  /\ Go(r, "cancel")
  /\ UNCHANGED <<ads, row, offered, webhooks, until, bumpedAt, auto, applied,
                 today, crashes>>

checkoutCancel(r) ==
  /\ req[r].step = "cancel"
  /\ IF Alive(req[r].p) THEN SetStatus(req[r].p, "CANCELED") ELSE UNCHANGED row
  /\ Respond(r)
  /\ UNCHANGED <<offered, webhooks, world>>

(* The id is stored, then the link is returned, if YooKassa sent one.      *)
checkoutRecord(r) ==
  LET p == req[r].p IN
  /\ req[r].step = "record"
  /\ IF Alive(p)
       THEN /\ row' = [row EXCEPT ![p].yookassaPaymentId = TRUE]
            /\ offered' \in {offered, offered \cup {p}}
       ELSE UNCHANGED <<row, offered>>
  /\ Respond(r)
  /\ UNCHANGED <<webhooks, world>>

-----------------------------------------------------------------------------
(* YooKassa, as these services use it: a payment is paid by who has its    *)
(* link, or canceled; both are final, and both are notified.               *)

Settle(p, outcome) ==
  /\ payment[p] = "pending"
  /\ payment' = [payment EXCEPT ![p] = outcome]
  /\ webhooks' = webhooks \cup {p}
  /\ UNCHANGED <<ads, row, offered, until, bumpedAt, req, auto, applied, today,
                 crashes>>

pay(p) == p \in offered /\ Settle(p, "succeeded")

expire(p) == Settle(p, "canceled")

-----------------------------------------------------------------------------
(* reconcilePayment.                                                       *)

(* handleWebhook; the other two services find no row for this payment.     *)
handleWebhook(r, p) ==
  /\ req[r].step = "idle" /\ p \in webhooks
  /\ Become(r, At("find", p, TRUE))
  /\ UNCHANGED <<row, offered, webhooks, world>>

(* The buyer returns from the payment page, or reloads it.                 *)
checkStatus(r, p) ==
  /\ req[r].step = "idle" /\ Alive(p) /\ row[p].yookassaPaymentId
  /\ Become(r, At("find", p, FALSE))
  /\ UNCHANGED <<row, offered, webhooks, world>>

reconcileFind(r) ==
  LET p == req[r].p IN
  /\ req[r].step = "find"
  /\ IF row[p].status = "PENDING" /\ row[p].yookassaPaymentId
       THEN Go(r, "fetch") /\ UNCHANGED webhooks
       ELSE Acknowledge(r) /\ Respond(r)
  /\ UNCHANGED <<row, offered, world>>

reconcileFetch_unlessSucceeded(r) ==
  LET status == payment[req[r].p] IN
  /\ req[r].step = "fetch"
  /\ IF status = "succeeded" THEN Go(r, "read") ELSE Go(r, "cancelRow")
  /\ UNCHANGED <<row, offered, webhooks, world>>

reconcileFetch_trustBody(r) ==
  LET status == payment[req[r].p] IN
  /\ req[r].step = "fetch"
  /\ IF status = "canceled" THEN Go(r, "cancelRow") ELSE Go(r, "read")
  /\ UNCHANGED <<row, offered, webhooks, world>>

reconcileFetch(r) ==
  LET status == payment[req[r].p] IN
  /\ req[r].step = "fetch"
  /\ \/ status = "succeeded" /\ Go(r, "read") /\ UNCHANGED webhooks
     \/ status = "canceled" /\ Go(r, "cancelRow") /\ UNCHANGED webhooks
     \/ status = "pending" /\ Acknowledge(r) /\ Respond(r)
  /\ UNCHANGED <<row, offered, world>>

fetchFails_acknowledged(r) ==
  /\ req[r].step = "fetch"
  /\ Acknowledge(r)
  /\ Respond(r)
  /\ UNCHANGED <<row, offered, world>>

(* The exception becomes a 500, and YooKassa will notify again.            *)
fetchFails(r) ==
  /\ req[r].step = "fetch"
  /\ Respond(r)
  /\ UNCHANGED <<row, offered, webhooks, world>>

(* The transaction: READ COMMITTED, and the read takes no lock.            *)
reconcileRead(r) ==
  /\ req[r].step = "read"
  /\ IF AdExists(req[r].p)
       THEN Become(r, [req[r] EXCEPT !.step = "write", !.now = today,
                         !.seen = [c \in Columns |->
                           IF c \in Granted(req[r].p) THEN until[c] ELSE 0]])
       ELSE Respond(r)
  /\ UNCHANGED <<row, offered, webhooks, world>>

Extended_fromNow(c, seen, now) == now + Duration[c[2]]

(* A service that is still active is extended from its end, a badge is     *)
(* replaced.                                                               *)
Extended(c, seen, now) ==
  IF seen[c] > now /\ c[2] # "BADGE" THEN seen[c] + Duration[c[2]]
                                     ELSE now + Duration[c[2]]

(* The ads that show the effect at once.                                   *)
Bumped(p) ==
  IF AdOf[p] = null THEN {a \in Ads : ads[a] = "PUBLISHED"}
  ELSE IF "BUMP" \in Services[p] THEN {AdOf[p]} ELSE {}

(* The updates of the transaction, which checks no status again.           *)
reconcileWrite(r) ==
  LET q == req[r]
      p == q.p
  IN
  /\ q.step = "write"
  /\ IF AdExists(p) /\ Alive(p)
       THEN /\ until' = [c \in Columns |->
                           IF c \in Granted(p) THEN Extended(c, q.seen, q.now)
                                               ELSE until[c]]
            /\ bumpedAt' = [a \in Ads |-> IF a \in Bumped(p) THEN q.now
                                                             ELSE bumpedAt[a]]
            /\ SetStatus(p, "SUCCEEDED")
            /\ applied' = [applied EXCEPT ![p] = @ + 1]
            /\ Acknowledge(r)
       ELSE UNCHANGED <<row, until, bumpedAt, applied, webhooks>>
  /\ Respond(r)
  /\ UNCHANGED <<ads, payment, offered, auto, today, crashes>>

reconcileCancel(r) ==
  /\ req[r].step = "cancelRow"
  /\ IF Alive(req[r].p) THEN SetStatus(req[r].p, "CANCELED") /\ Acknowledge(r)
                        ELSE UNCHANGED <<row, webhooks>>
  /\ Respond(r)
  /\ UNCHANGED <<offered, world>>

-----------------------------------------------------------------------------
(* AdAutoBumpWorker.                                                       *)

Active(column) == until[column] > today

NeedsBump(a) ==
  /\ ads[a] = "PUBLISHED" /\ bumpedAt[a] < today
  /\ Active(<<a, "BUMP">>) \/ Active(<<null, "PREMIUM">>)

autoRead_premiumOnly ==
  /\ auto.ids = {}
  /\ auto' = [ids |-> {a \in Ads : NeedsBump(a) /\ Active(<<null, "PREMIUM">>)},
              now |-> today]
  /\ auto'.ids # {}
  /\ UNCHANGED <<ads, row, payment, offered, webhooks, until, bumpedAt, req,
                 applied, today, crashes>>

autoRead ==
  /\ auto.ids = {}
  /\ auto' = [ids |-> {a \in Ads : NeedsBump(a)}, now |-> today]
  /\ auto'.ids # {}
  /\ UNCHANGED <<ads, row, payment, offered, webhooks, until, bumpedAt, req,
                 applied, today, crashes>>

autoWrite ==
  /\ auto.ids # {}
  /\ bumpedAt' = [a \in Ads |-> IF a \in auto.ids /\ ads[a] # "GONE"
                                  THEN auto.now ELSE bumpedAt[a]]
  /\ auto' = AutoIdle
  /\ UNCHANGED <<ads, row, payment, offered, webhooks, until, req, applied,
                 today, crashes>>

-----------------------------------------------------------------------------
(* The rest of the server, and the environment.                            *)

(* AdsService: an ad leaves the catalogue or comes back.                   *)
changeAd(a) ==
  /\ ads[a] # "GONE"
  /\ \E status \in {"PUBLISHED", "HIDDEN"} \ {ads[a]} :
       ads' = [ads EXCEPT ![a] = status]
  /\ UNCHANGED <<row, payment, offered, webhooks, until, bumpedAt, req, auto,
                 applied, today, crashes>>

(* Removed or purged: the rows of its purchases are deleted with it.       *)
removeAd(a) ==
  /\ ads[a] # "GONE"
  /\ ads' = [ads EXCEPT ![a] = "GONE"]
  /\ row' = [p \in Purchases |->
               IF AdOf[p] = a /\ Alive(p) THEN [row[p] EXCEPT !.status = "GONE"]
                                          ELSE row[p]]
  /\ UNCHANGED <<payment, offered, webhooks, until, bumpedAt, req, auto,
                 applied, today, crashes>>

Tick ==
  /\ today < MaxDay
  /\ today' = today + 1
  /\ UNCHANGED <<ads, row, payment, offered, webhooks, until, bumpedAt, req,
                 auto, applied, crashes>>

(* An open transaction is rolled back, YooKassa gets no answer.            *)
Crash ==
  /\ crashes < MaxCrashes
  /\ crashes' = crashes + 1
  /\ req' = [r \in Requests |-> Idle]
  /\ auto' = AutoIdle
  /\ UNCHANGED <<ads, row, payment, offered, webhooks, until, bumpedAt,
                 applied, today>>

HandlerStep(r) ==
  \/ checkoutCreate(r) \/ postPayment(r) \/ postFails(r)
  \/ checkoutCancel(r) \/ checkoutRecord(r)
  \/ reconcileFind(r) \/ reconcileFetch(r) \/ fetchFails(r)
  \/ reconcileRead(r) \/ reconcileWrite(r) \/ reconcileCancel(r)

AutoStep == autoRead \/ autoWrite

Next ==
  \/ \E r \in Requests :
       \/ HandlerStep(r)
       \/ \E p \in Purchases :
            checkoutRead(r, p) \/ handleWebhook(r, p) \/ checkStatus(r, p)
  \/ \E p \in Purchases : pay(p) \/ expire(p)
  \/ AutoStep
  \/ \E a \in Ads : changeAd(a) \/ removeAd(a)
  \/ Tick
  \/ Crash

Spec == Init /\ [][Next]_vars

(* A handler proceeds; YooKassa repeats a notification until it is         *)
(* answered, finding a free slot now and then; it does not answer every    *)
(* question about one payment with an error; the cron job keeps running.   *)
Fairness ==
  /\ \A r \in Requests : WF_vars(HandlerStep(r))
  /\ \A p \in Purchases :
       /\ SF_vars(\E r \in Requests : handleWebhook(r, p))
       /\ SF_vars(\E r \in Requests : req[r].p = p /\ reconcileFetch(r))
  /\ WF_vars(AutoStep)

FairSpec == Spec /\ Fairness

-----------------------------------------------------------------------------
(* The promise these services implement.                                   *)

(* What the row, the payment and the history say of a purchase.            *)
Ledger == [p \in Purchases |->
  IF applied[p] > 0 THEN "credited"
  ELSE IF row[p].status \in {"CANCELED", "GONE"} THEN "void"
  ELSE IF row[p].status = "NEW" THEN "new"
  ELSE IF payment[p] = "succeeded" THEN "paid" ELSE "open"]

Promise == INSTANCE PaymentLedger WITH
  ledger <- Ledger, Replaced <- LAMBDA c : c[2] = "BADGE"

-----------------------------------------------------------------------------
(* Properties.                                                             *)

(* Handled one request at a time, with failures, crashes and repeated      *)
(* notifications, a purchase is credited once, only when paid, and its     *)
(* days are added to those still running: PaymentLedger.                   *)
KeepsPromise == Promise!Spec

(* No service without money: however webhooks, polling, failures and       *)
(* crashes interleave, a purchase is credited only when YooKassa itself    *)
(* has said it was paid (handleWebhook does not trust the body).           *)
CreditedWasPaid ==
  \A p \in Purchases :
    row[p].status = "SUCCEEDED" \/ applied[p] > 0 => payment[p] = "succeeded"

(* No money without a row, but for the row that is deleted with its ad:    *)
(* whatever the buyer has paid or could pay is a row that the notification *)
(* finds by its payment's id, and that was not given up as CANCELED        *)
(* (unless YooKassa canceled it).  An ad that is removed takes the rows of *)
(* its purchases along, paid or not: the notification is then acknowledged *)
(* without effect.  The premium account is never lost.                     *)
PayableIsRecognised ==
  \A p \in Purchases :
    AdExists(p) /\ p \in offered =>
      /\ row[p].status # "GONE" /\ row[p].yookassaPaymentId
      /\ row[p].status = "CANCELED" => payment[p] = "canceled"

(* A paid purchase does not stay PENDING for ever (YookassaWebhook-        *)
(* Controller's comment): failed checks are repeated until it is credited, *)
(* or its ad has been deleted.                                             *)
PaidIsCredited ==
  \A p \in Purchases :
    payment[p] = "succeeded" ~> row[p].status \in {"SUCCEEDED", "GONE"}

(* The worker keeps fresh whatever ad is published with a running service, *)
(* bought for the ad or with the premium account.                          *)
ActiveAdIsBumped == \A a \in Ads : NeedsBump(a) ~> ~NeedsBump(a)

(* "Does nothing if the payment has been processed before: both callers    *)
(* can fire more than once for one payment" (reconcilePayment).            *)
CreditedOnce == \A p \in Purchases : applied[p] <= 1

(* "We leave no PENDING hanging without a chance of being paid"            *)
(* (createCheckout): whatever fails, a PENDING row knows its payment, or   *)
(* soon will.  Only a crash before it is told leaves one for ever.         *)
NoHangingPending ==
  crashes = 0 => \A p \in Purchases :
    row[p].status = "PENDING" /\ ~row[p].yookassaPaymentId =>
      \E r \in Requests : req[r].p = p
=============================================================================
