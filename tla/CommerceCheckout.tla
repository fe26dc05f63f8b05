-------------------------- MODULE CommerceCheckout --------------------------
(* The purchase pipeline of internal/commerce: checkout, discount budget,    *)
(* hosted provider session, provider events, operator review, reversal,      *)
(* revenue entry and trainer payout.                                         *)
(*                                                                           *)
(* A command of the repository is one PostgreSQL transaction that locks the  *)
(* rows it decides on, so it is one action here.  A checkout call is not: it *)
(* looks the request up, inserts it, calls the provider and records the      *)
(* answer in separate steps, each of which other calls may overtake and      *)
(* after each of which the process may die.                                  *)
EXTENDS Naturals, FiniteSets

CONSTANTS
  Requests,      \* (user, idempotency key) pairs: at most one row per pair
  Discounts,     \* discount code rows
  NoCode,        \* a checkout without a discount code
  Checkouts,     \* checkout calls that may be in flight at the same time
  GatewayModes,  \* the gateway modes the deployment is configured with
  Policies,      \* the revenue policies of the products on sale
  Limits,        \* the redemption limits an operator may write (0: unlimited)
  References,    \* external references an operator may type for a reversal
  NoReference    \* no reversal recorded

ASSUME CheckoutAssumption ==
  /\ IsFiniteSet(Requests)
  /\ NoCode \notin Discounts
  /\ Limits \subseteq Nat
  /\ GatewayModes \subseteq {"manual_review", "webhook", "payment_link"}
  /\ Policies \subseteq {"no_trainer", "no_share", "share"}

VARIABLES
  payment,      \* commerce_payment_requests, one row per element of Requests
  redemption,   \* commerce_discount_redemptions.status of the request
  discount,     \* commerce_discount_codes
  entitlement,  \* commerce_entitlements with idempotency key payment:<id>
  revenue,      \* commerce_revenue_entries of the request
  reversal,     \* commerce_payment_reversals.provider_reference of the request
  ledger,       \* commerce_provider_events.processing_result
  checkout,     \* the local state of each checkout call
  charge,       \* EXTERNAL: what the payment provider did with the request
  sent          \* EXTERNAL: the events the provider has emitted

vars == <<payment, redemption, discount, entitlement, revenue, reversal,
          ledger, checkout, charge, sent>>

-----------------------------------------------------------------------------
(* Rows. *)

PaymentStatus == {"pending", "paid", "rejected", "cancelled", "failed",
                  "refunded", "chargeback"}
Collected == {"paid", "refunded", "chargeback"}   \* statuses with a paid_at
Reversed  == {"refunded", "chargeback"}
Declined  == {"rejected", "cancelled", "failed"}

Codes == Discounts \cup {NoCode}

Payments ==
  [status : PaymentStatus \cup {"absent"}, mode : GatewayModes \cup {"none"},
   session : {"none", "initiated", "failed"}, revision : Nat,
   code : Codes, policy : Policies \cup {"none"}]

\* "inactive": paused, expired or outside its window.
DiscountRows == [status : {"active", "inactive"}, max : Nat, reserved : Nat, redeemed : Nat]

NoPayment == [status |-> "absent", mode |-> "none", session |-> "none",
              revision |-> 0, code |-> NoCode, policy |-> "none"]

Exists(k) == payment[k].status # "absent"

ProviderStatus == {"paid", "failed", "cancelled", "refunded", "chargeback"}

\* An event names its request, its status and whether it carries exactly the
\* final amount and currency of the request.  One event id per such triple.
Events == [request : Requests, status : ProviderStatus, exact : BOOLEAN]

\* A recorded reversal names a typed reference or the event that announced it.
ASSUME ReferenceAssumption == NoReference \notin References \cup Events

Results == {"unseen", "rejected", "already", "paid_granted", "released", "reversed"}

Revenues == [allocation : {"none", "not_applicable", "policy_missing", "pending", "allocated"},
             payout : {"none", "not_applicable", "pending", "paid"},
             reversal : {"none"} \cup Reversed]

NoRevenue == [allocation |-> "none", payout |-> "none", reversal |-> "none"]

\* commerce_payment_provider_session_shape: the CHECK every write of a
\* payment row must pass; a write that fails it rolls its transaction back.
SessionShape(p) ==
  IF p.mode # "payment_link"
    THEN p.session = "none"
    ELSE \/ p.status = "pending" /\ p.session # "failed"
         \/ p.status = "failed" /\ p.session # "none"
         \/ p.status \in Collected \cup {"cancelled", "rejected"} /\ p.session = "initiated"

\* A checkout call between two of its steps.  revision is the one the call
\* read and will present to AttachProviderSession or FailProviderSession.
Idle == [pc |-> "idle"]
Inserting == [pc : {"insert"}, request : Requests, code : Codes, mode : GatewayModes]
Initiating == [pc : {"initiate", "attach", "fail"}, request : Requests, revision : Nat]

Charges == {"none", "open", "captured", "failed", "cancelled", "refunded", "chargeback"}

TypeOK ==
  /\ payment \in [Requests -> Payments]
  /\ redemption \in [Requests -> {"none", "reserved", "redeemed", "released"}]
  /\ discount \in [Discounts -> DiscountRows]
  /\ entitlement \in [Requests -> [status : {"none", "active", "revoked"},
                                   source : {"none", "payment_request", "payment_webhook"}]]
  /\ revenue \in [Requests -> Revenues]
  /\ reversal \in [Requests -> References \cup Events \cup {NoReference}]
  /\ ledger \in [Events -> Results]
  /\ checkout \in [Checkouts -> {Idle} \cup Inserting \cup Initiating]
  /\ charge \in [Requests -> Charges]
  /\ sent \subseteq Events

Init ==
  /\ payment = [k \in Requests |-> NoPayment]
  /\ redemption = [k \in Requests |-> "none"]
  /\ \E limit \in [Discounts -> Limits] :
       discount = [d \in Discounts |->
         [status |-> "active", max |-> limit[d], reserved |-> 0, redeemed |-> 0]]
  /\ entitlement = [k \in Requests |-> [status |-> "none", source |-> "none"]]
  /\ revenue = [k \in Requests |-> NoRevenue]
  /\ reversal = [k \in Requests |-> NoReference]
  /\ ledger = [e \in Events |-> "unseen"]
  /\ checkout = [c \in Checkouts |-> Idle]
  /\ charge = [k \in Requests |-> "none"]
  /\ sent = {}

-----------------------------------------------------------------------------
(* Helpers shared by the transactions. *)

\* Definitions marked FAULTY are wrong variants of the one that follows them;
\* nothing uses them but the runs that show a property can fail.

\* FAULTY: the limit compared with <=.
AvailableAtLimit(d) == /\ discount[d].status = "active"
                       /\ \/ discount[d].max = 0
                          \/ discount[d].reserved + discount[d].redeemed <= discount[d].max

\* A discount row that resolveDiscountTx accepts: active and below its limit.
Available(d) == /\ discount[d].status = "active"
                /\ \/ discount[d].max = 0
                   \/ discount[d].reserved + discount[d].redeemed < discount[d].max

\* FAULTY: a redeemed unit is not taken out of reserved_count.
SettleDiscountTwice(k, outcome) ==
  IF redemption[k] = "reserved"
    THEN LET d == payment[k].code IN
         /\ discount' = [discount EXCEPT
              ![d].reserved = IF outcome = "redeemed" THEN @ ELSE @ - 1,
              ![d].redeemed = IF outcome = "redeemed" THEN @ + 1 ELSE @]
         /\ redemption' = [redemption EXCEPT ![k] = outcome]
    ELSE UNCHANGED <<discount, redemption>>

\* settleDiscountTx: only a reserved redemption moves, to outcome, and takes
\* its unit out of reserved_count (and into redeemed_count when redeemed).
SettleDiscount(k, outcome) ==
  IF redemption[k] = "reserved"
    THEN LET d == payment[k].code IN
         /\ discount[d].reserved > 0
         /\ discount' = [discount EXCEPT
              ![d].reserved = @ - 1,
              ![d].redeemed = IF outcome = "redeemed" THEN @ + 1 ELSE @]
         /\ redemption' = [redemption EXCEPT ![k] = outcome]
    ELSE UNCHANGED <<discount, redemption>>

\* grantPaymentEntitlementTx: ON CONFLICT(idempotency_key) DO NOTHING.
GrantEntitlement(k, source) ==
  entitlement' = IF entitlement[k].status = "none"
                   THEN [entitlement EXCEPT ![k] = [status |-> "active", source |-> source]]
                   ELSE entitlement

\* ensureRevenueEntryTx: ON CONFLICT(payment_request_id) DO NOTHING.
RevenueOf(policy) ==
  [allocation |-> IF policy = "share" THEN "pending"
                  ELSE IF policy = "no_share" THEN "policy_missing" ELSE "not_applicable",
   payout |-> IF policy \in {"share", "no_share"} THEN "pending" ELSE "not_applicable",
   reversal |-> "none"]

EnsureRevenue(k) ==
  revenue' = IF revenue[k].allocation = "none"
               THEN [revenue EXCEPT ![k] = RevenueOf(payment[k].policy)]
               ELSE revenue

\* Every write of a payment row bumps its revision and must pass the CHECK.
WritePayment(k, status, session) ==
  LET p == [payment[k] EXCEPT !.status = status, !.session = session, !.revision = @ + 1]
  IN /\ SessionShape(p)
     /\ payment' = [payment EXCEPT ![k] = p]

\* The paid transition, by an operator or by a provider event.
Collect(k, source) ==
  /\ GrantEntitlement(k, source)
  /\ SettleDiscount(k, "redeemed")
  /\ WritePayment(k, "paid", payment[k].session)
  /\ EnsureRevenue(k)

\* FAULTY: the payment status stored as the redemption's outcome.
DeclineAsOutcome(k, status, session) ==
  /\ SettleDiscount(k, status)
  /\ WritePayment(k, status, session)
  /\ UNCHANGED <<entitlement, revenue>>

\* FAULTY: the reserved unit of the discount is not returned.
DeclineKeepingDiscount(k, status, session) ==
  /\ WritePayment(k, status, session)
  /\ UNCHANGED <<redemption, discount, entitlement, revenue>>

\* The transition of a pending request that will not be paid.
Decline(k, status, session) ==
  /\ SettleDiscount(k, "released")
  /\ WritePayment(k, status, session)
  /\ UNCHANGED <<entitlement, revenue>>

\* FAULTY: only what a provider event granted is revoked.
RevokeWebhookGrant(k) ==
  entitlement' = IF entitlement[k] = [status |-> "active", source |-> "payment_webhook"]
                   THEN [entitlement EXCEPT ![k].status = "revoked"]
                   ELSE entitlement

\* UPDATE commerce_entitlements: what this payment granted, if still active.
RevokeGrant(k) ==
  entitlement' = IF /\ entitlement[k].status = "active"
                    /\ entitlement[k].source \in {"payment_request", "payment_webhook"}
                   THEN [entitlement EXCEPT ![k].status = "revoked"]
                   ELSE entitlement

\* FAULTY: an entry whose payout was paid is left alone.
ReverseUnpaidRevenue(k, status) ==
  revenue' = IF revenue[k].allocation # "none" /\ revenue[k].payout # "paid"
               THEN [revenue EXCEPT ![k].reversal = status]
               ELSE revenue

\* UPDATE commerce_revenue_entries ... AND reversal_type='': allocation and
\* payout stay what they were.
ReverseRevenue(k, status) ==
  revenue' = IF revenue[k].allocation # "none" /\ revenue[k].reversal = "none"
               THEN [revenue EXCEPT ![k].reversal = status]
               ELSE revenue

\* recordFullReversalTx on a paid request without a reversal row; the
\* reference is unique per provider.
RecordFullReversal(k, status, reference) ==
  /\ reversal[k] = NoReference
  /\ payment[k].status = "paid"
  /\ \A j \in Requests \ {k} :
       payment[j].mode = payment[k].mode => reversal[j] # reference
  /\ reversal' = [reversal EXCEPT ![k] = reference]
  /\ WritePayment(k, status, payment[k].session)
  /\ RevokeGrant(k)
  /\ ReverseRevenue(k, status)
  /\ UNCHANGED <<redemption, discount>>

-----------------------------------------------------------------------------
(* A checkout call, step by step. *)

\* What CreateCheckout does with the row p it got: only a pending request of
\* a payment_link deployment without a session goes to the provider.
Continue(k, mode, p) ==
  IF mode # "payment_link" \/ p.status # "pending" \/ p.session = "initiated"
    THEN Idle
    ELSE [pc |-> "initiate", request |-> k, revision |-> p.revision]

\* A row found under the same key: another product, method or code is refused.
Reuse(k, code, mode) ==
  IF payment[k].code # code THEN Idle ELSE Continue(k, mode, payment[k])

\* First read of CreatePaymentRequest, without a lock.
Lookup(c, k, code, mode) ==
  /\ checkout[c] = Idle
  /\ checkout' = [checkout EXCEPT ![c] =
       IF Exists(k) THEN Reuse(k, code, mode)
                    ELSE [pc |-> "insert", request |-> k, code |-> code, mode |-> mode]]
  /\ UNCHANGED <<payment, redemption, discount, entitlement, revenue, reversal,
                 ledger, charge, sent>>

Resolved(code) == code # NoCode => Available(code)

\* The product is no longer sold, or the code does not resolve: rollback.
InsertRefused(c) ==
  /\ checkout[c].pc = "insert"
  /\ checkout' = [checkout EXCEPT ![c] = Idle]
  /\ UNCHANGED <<payment, redemption, discount, entitlement, revenue, reversal,
                 ledger, charge, sent>>

\* INSERT of the request, reservation of the discount and its redemption row.
InsertNew(c, policy) ==
  LET call == checkout[c]
      k == call.request
      p == [status |-> "pending", mode |-> call.mode, session |-> "none",
            revision |-> 1, code |-> call.code, policy |-> policy]
  IN /\ call.pc = "insert"
     /\ Resolved(call.code)
     /\ ~Exists(k)
     /\ payment' = [payment EXCEPT ![k] = p]
     /\ IF call.code = NoCode
          THEN UNCHANGED <<discount, redemption>>
          ELSE /\ discount' = [discount EXCEPT ![call.code].reserved = @ + 1]
               /\ redemption' = [redemption EXCEPT ![k] = "reserved"]
     /\ checkout' = [checkout EXCEPT ![c] = Continue(k, call.mode, p)]
     /\ UNCHANGED <<entitlement, revenue, reversal, ledger, charge, sent>>

\* INSERT ... ON CONFLICT DO NOTHING lost to a call with the same key.
InsertLost(c) ==
  LET call == checkout[c] IN
  /\ call.pc = "insert"
  /\ Resolved(call.code)
  /\ Exists(call.request)
  /\ checkout' = [checkout EXCEPT ![c] = Reuse(call.request, call.code, call.mode)]
  /\ UNCHANGED <<payment, redemption, discount, entitlement, revenue, reversal,
                 ledger, charge, sent>>

\* POST /v2/charges with reference.idempotent = request id: the provider
\* opens one charge per request, and answers INITIATED only while it is open.
InitiateOK(c) ==
  LET k == checkout[c].request IN
  /\ checkout[c].pc = "initiate"
  /\ charge[k] \in {"none", "open"}
  /\ charge' = [charge EXCEPT ![k] = "open"]
  /\ checkout' = [checkout EXCEPT ![c].pc = "attach"]
  /\ UNCHANGED <<payment, redemption, discount, entitlement, revenue, reversal,
                 ledger, sent>>

\* No provider, an error, a lost answer or an invalid session; the charge may
\* have been opened all the same.
InitiateError(c) ==
  LET k == checkout[c].request IN
  /\ checkout[c].pc = "initiate"
  /\ checkout' = [checkout EXCEPT ![c].pc = "fail"]
  /\ \/ UNCHANGED charge
     \/ charge[k] = "none" /\ charge' = [charge EXCEPT ![k] = "open"]
  /\ UNCHANGED <<payment, redemption, discount, entitlement, revenue, reversal,
                 ledger, sent>>

AttachProviderSession(c) ==
  LET call == checkout[c]
      k == call.request
  IN /\ call.pc = "attach"
     /\ checkout' = [checkout EXCEPT ![c] = Idle]
     /\ IF /\ payment[k].status = "pending"
           /\ payment[k].mode = "payment_link"
           /\ payment[k].session # "initiated"
           /\ payment[k].revision = call.revision
          THEN WritePayment(k, "pending", "initiated")
          ELSE UNCHANGED payment
     /\ UNCHANGED <<redemption, discount, entitlement, revenue, reversal,
                    ledger, charge, sent>>

\* FAULTY: any pending hosted request is failed.
MayFailPending(call) ==
  /\ payment[call.request].mode = "payment_link"
  /\ payment[call.request].status = "pending"

\* The request is still as the call read it, without a session.
MayFail(call) ==
  /\ payment[call.request].mode = "payment_link"
  /\ payment[call.request].status = "pending"
  /\ payment[call.request].session = "none"
  /\ payment[call.request].revision = call.revision

FailProviderSession(c) ==
  LET call == checkout[c]
      k == call.request
  IN /\ call.pc = "fail"
     /\ checkout' = [checkout EXCEPT ![c] = Idle]
     /\ IF MayFail(call)
          THEN Decline(k, "failed", "failed")
          ELSE UNCHANGED <<payment, redemption, discount, entitlement, revenue>>
     /\ UNCHANGED <<reversal, ledger, charge, sent>>

\* The process dies, or the client gives up and cancels the call's context.
Abandon(c) ==
  /\ checkout[c] # Idle
  /\ checkout' = [checkout EXCEPT ![c] = Idle]
  /\ UNCHANGED <<payment, redemption, discount, entitlement, revenue, reversal,
                 ledger, charge, sent>>

-----------------------------------------------------------------------------
(* ApplyProviderEvent.  The provider delivers at least once and in any order. *)
(* An event id already in the ledger is acknowledged without effect, so only  *)
(* first deliveries are steps.  An event that ends in a rollback (a reversal  *)
(* of a pending request, a write the CHECK refuses) is not a step either: its *)
(* row is rolled back with the rest and a later delivery is a first one.      *)

Deliverable(e) == e \in sent /\ ledger[e] = "unseen"

Mark(e, result) == ledger' = [ledger EXCEPT ![e] = result]

DeliverToManual(e) ==
  /\ Deliverable(e)
  /\ payment[e.request].mode \notin {"webhook", "payment_link"}
  /\ Mark(e, "rejected")
  /\ UNCHANGED <<payment, redemption, discount, entitlement, revenue, reversal,
                 checkout, charge, sent>>

\* FAULTY: the hosted mode is forgotten.
ForWebhook(e) == /\ Deliverable(e)
                 /\ payment[e.request].mode = "webhook"

ForProvider(e) == /\ Deliverable(e)
                  /\ payment[e.request].mode \in {"webhook", "payment_link"}

\* FAULTY: the amount is not compared.
DeliverPaidAnyAmount(e) ==
  /\ ForProvider(e)
  /\ payment[e.request].status = "pending"
  /\ e.status = "paid"
  /\ Collect(e.request, "payment_webhook")
  /\ Mark(e, "paid_granted")
  /\ UNCHANGED <<reversal, checkout, charge, sent>>

DeliverPaid(e) ==
  /\ ForProvider(e)
  /\ payment[e.request].status = "pending"
  /\ e.status = "paid"
  /\ IF e.exact
       THEN Collect(e.request, "payment_webhook") /\ Mark(e, "paid_granted")
       ELSE /\ Mark(e, "rejected")
            /\ UNCHANGED <<payment, redemption, discount, entitlement, revenue>>
  /\ UNCHANGED <<reversal, checkout, charge, sent>>

DeliverDeclined(e) ==
  /\ ForProvider(e)
  /\ payment[e.request].status = "pending"
  /\ e.status \in {"failed", "cancelled"}
  /\ Decline(e.request, e.status, payment[e.request].session)
  /\ Mark(e, "released")
  /\ UNCHANGED <<reversal, checkout, charge, sent>>

DeliverReversal(e) ==
  /\ ForProvider(e)
  /\ payment[e.request].status = "paid"
  /\ e.status \in Reversed
  /\ IF e.exact
       THEN RecordFullReversal(e.request, e.status, e) /\ Mark(e, "reversed")
       ELSE /\ Mark(e, "rejected")
            /\ UNCHANGED <<payment, redemption, discount, entitlement, revenue, reversal>>
  /\ UNCHANGED <<checkout, charge, sent>>

\* FAULTY: a reversal of a pending request is acknowledged and forgotten.
DeliverEarly(e) ==
  /\ ForProvider(e)
  /\ payment[e.request].status # "pending" \/ e.status \in Reversed
  /\ ~(payment[e.request].status = "paid" /\ e.status \in Reversed)
  /\ Mark(e, "already")
  /\ UNCHANGED <<payment, redemption, discount, entitlement, revenue, reversal,
                 checkout, charge, sent>>

DeliverSettled(e) ==
  /\ ForProvider(e)
  /\ payment[e.request].status # "pending"
  /\ ~(payment[e.request].status = "paid" /\ e.status \in Reversed)
  /\ Mark(e, "already")
  /\ UNCHANGED <<payment, redemption, discount, entitlement, revenue, reversal,
                 checkout, charge, sent>>

Deliver(e) == \/ DeliverToManual(e) \/ DeliverPaid(e) \/ DeliverDeclined(e)
              \/ DeliverReversal(e) \/ DeliverSettled(e)

-----------------------------------------------------------------------------
(* Operator commands.  The revision an operator presents is that of the row  *)
(* it decides on: any other is refused without effect.                       *)

\* FAULTY: a request that was declined is reviewed again.
ReviewDeclined(k, decision) ==
  /\ payment[k].status \in {"pending"} \cup Declined
  /\ IF decision = "paid" THEN Collect(k, "payment_request")
                          ELSE Decline(k, decision, payment[k].session)
  /\ UNCHANGED <<reversal, ledger, checkout, charge, sent>>

ReviewPaymentRequest(k, decision) ==
  /\ payment[k].status = "pending"
  /\ IF decision = "paid" THEN Collect(k, "payment_request")
                          ELSE Decline(k, decision, payment[k].session)
  /\ UNCHANGED <<reversal, ledger, checkout, charge, sent>>

RecordAdminReversal(k, status, reference) ==
  /\ RecordFullReversal(k, status, reference)
  /\ UNCHANGED <<ledger, checkout, charge, sent>>

\* Manual revocation of a granted entitlement; the payment is not touched.
RevokeEntitlement(k) ==
  /\ entitlement[k].status = "active"
  /\ entitlement' = [entitlement EXCEPT ![k].status = "revoked"]
  /\ UNCHANGED <<payment, redemption, discount, revenue, reversal, ledger,
                 checkout, charge, sent>>

UpdateDiscount(d, max, status) ==
  /\ max = 0 \/ max >= discount[d].reserved + discount[d].redeemed
  /\ discount' = [discount EXCEPT ![d].max = max, ![d].status = status]
  /\ UNCHANGED <<payment, redemption, entitlement, revenue, reversal, ledger,
                 checkout, charge, sent>>

\* trainerPaid: the trainer's part of the allocation is above zero.
AllocateRevenue(k, trainerPaid) ==
  /\ revenue[k].reversal = "none"
  /\ revenue[k].allocation = "pending"
  /\ revenue' = [revenue EXCEPT
       ![k].allocation = "allocated",
       ![k].payout = IF trainerPaid THEN "pending" ELSE "not_applicable"]
  /\ UNCHANGED <<payment, redemption, discount, entitlement, reversal, ledger,
                 checkout, charge, sent>>

\* FAULTY: a reversed entry is still paid out.
MarkReversedPayoutPaid(k) ==
  /\ revenue[k].allocation = "allocated"
  /\ revenue[k].payout = "pending"
  /\ revenue' = [revenue EXCEPT ![k].payout = "paid"]
  /\ UNCHANGED <<payment, redemption, discount, entitlement, reversal, ledger,
                 checkout, charge, sent>>

MarkPayoutPaid(k) ==
  /\ revenue[k].reversal = "none"
  /\ revenue[k].allocation = "allocated"
  /\ revenue[k].payout = "pending"
  /\ revenue' = [revenue EXCEPT ![k].payout = "paid"]
  /\ UNCHANGED <<payment, redemption, discount, entitlement, reversal, ledger,
                 checkout, charge, sent>>

-----------------------------------------------------------------------------
(* EXTERNAL: the payment provider.  A hosted (payment_link) charge can be    *)
(* paid only through the URL the attached session hands out; a charge ends   *)
(* once.  In webhook mode the customer pays outside, may try again after a   *)
(* failure, and the signed event may carry another amount.                   *)

Emit(k, status, exact) == sent' = sent \cup {[request |-> k, status |-> status, exact |-> exact]}

ledgerVars == <<payment, redemption, discount, entitlement, revenue, reversal,
                ledger, checkout>>

Capture(k) ==
  /\ \/ /\ payment[k].mode = "payment_link"
        /\ payment[k].session = "initiated"
        /\ charge[k] = "open"
     \/ payment[k].mode = "webhook" /\ charge[k] \in {"none", "failed", "cancelled"}
  /\ charge' = [charge EXCEPT ![k] = "captured"]
  /\ Emit(k, "paid", TRUE)
  /\ UNCHANGED ledgerVars

EndCharge(k, status) ==
  /\ charge[k] = "open" \/ (payment[k].mode = "webhook" /\ charge[k] = "none")
  /\ charge' = [charge EXCEPT ![k] = status]
  /\ Emit(k, status, TRUE)
  /\ UNCHANGED ledgerVars

\* Hosted chargebacks are not announced by the provider, refunds are.
ReturnMoney(k, status) ==
  /\ charge[k] = "captured"
  /\ charge' = [charge EXCEPT ![k] = status]
  /\ IF status = "refunded" \/ payment[k].mode = "webhook"
       THEN Emit(k, status, TRUE) ELSE UNCHANGED sent
  /\ UNCHANGED ledgerVars

\* A payment of another amount, or a partial refund.
OtherAmount(k) ==
  /\ \/ payment[k].mode = "webhook" /\ charge[k] = "none" /\ Emit(k, "paid", FALSE)
     \/ charge[k] = "captured" /\ Emit(k, "refunded", FALSE)
  /\ UNCHANGED <<ledgerVars, charge>>

-----------------------------------------------------------------------------
CheckoutStep(c) ==
  \/ \E k \in Requests, code \in Codes, mode \in GatewayModes : Lookup(c, k, code, mode)
  \/ InsertRefused(c)
  \/ \E policy \in Policies : InsertNew(c, policy)
  \/ InsertLost(c)
  \/ InitiateOK(c)
  \/ InitiateError(c)
  \/ AttachProviderSession(c)
  \/ FailProviderSession(c)
  \/ Abandon(c)

OperatorStep ==
  \/ \E k \in Requests, decision \in {"paid", "rejected", "cancelled"} :
       ReviewPaymentRequest(k, decision)
  \/ \E k \in Requests, status \in Reversed, reference \in References :
       RecordAdminReversal(k, status, reference)
  \/ \E k \in Requests : RevokeEntitlement(k) \/ MarkPayoutPaid(k)
  \/ \E k \in Requests, trainerPaid \in BOOLEAN : AllocateRevenue(k, trainerPaid)
  \/ \E d \in Discounts, max \in Limits, status \in {"active", "inactive"} :
       UpdateDiscount(d, max, status)

ProviderStep ==
  \E k \in Requests :
    \/ Capture(k) \/ OtherAmount(k)
    \/ \E status \in {"failed", "cancelled"} : EndCharge(k, status)
    \/ \E status \in Reversed : ReturnMoney(k, status)

Next == \/ \E c \in Checkouts : CheckoutStep(c)
        \/ \E e \in Events : Deliver(e)
        \/ OperatorStep
        \/ ProviderStep

Spec == Init /\ [][Next]_vars

\* The provider repeats an event until it is acknowledged.
Fairness == \A e \in Events : WF_vars(Deliver(e))

FairSpec == Spec /\ Fairness

-----------------------------------------------------------------------------
(* Properties. *)

Redemptions(d, status) == {k \in Requests : payment[k].code = d /\ redemption[k] = status}

\* The counters of a discount row, which every checkout and settlement moves
\* in a transaction of its own, count exactly the redemption rows.
DiscountCounters ==
  \A d \in Discounts :
    /\ discount[d].reserved = Cardinality(Redemptions(d, "reserved"))
    /\ discount[d].redeemed = Cardinality(Redemptions(d, "redeemed"))

\* A limited code is never promised to more requests than its limit, whatever
\* the operator writes while checkouts are in flight.
DiscountBudget ==
  \A d \in Discounts :
    discount[d].max # 0 => discount[d].reserved + discount[d].redeemed <= discount[d].max

\* No unit of a discount leaks: it is held by a pending request, used by a
\* collected one and returned by a declined one.
RedemptionFollowsPayment ==
  \A k \in Requests :
    IF payment[k].code = NoCode
      THEN redemption[k] = "none"
      ELSE /\ redemption[k] = "reserved" <=> payment[k].status = "pending"
           /\ redemption[k] = "redeemed" <=> payment[k].status \in Collected
           /\ redemption[k] = "released" <=> payment[k].status \in Declined

\* Access is granted by the paid transition only, and no request that is not
\* (or no longer) paid keeps active access.
AccessFollowsPayment ==
  \A k \in Requests :
    /\ entitlement[k].status # "none" <=> payment[k].status \in Collected
    /\ entitlement[k].status = "active" => payment[k].status = "paid"

\* A collected request has one revenue entry, and the entry is marked reversed
\* exactly when the money went back.
RevenueFollowsPayment ==
  \A k \in Requests :
    /\ revenue[k].allocation # "none" <=> payment[k].status \in Collected
    /\ revenue[k].reversal = IF payment[k].status \in Reversed THEN payment[k].status ELSE "none"
    /\ reversal[k] # NoReference <=> payment[k].status \in Reversed

\* Access granted by the provider's word rests on one applied event with the
\* exact amount; access granted by an operator on none.
GrantHasEvidence ==
  \A k \in Requests :
    LET granting == {e \in Events : e.request = k /\ ledger[e] = "paid_granted"} IN
    granting = IF entitlement[k].source = "payment_webhook"
                 THEN {[request |-> k, status |-> "paid", exact |-> TRUE]}
                 ELSE {}

\* Money that was captured on a hosted page belongs to a request whose session
\* is recorded as initiated: the database will accept the event about it.
CapturedHasSession ==
  \A k \in Requests :
    charge[k] \in {"captured", "refunded", "chargeback"} /\ payment[k].mode = "payment_link"
      => payment[k].session = "initiated"

\* After a reversal the revenue entry is history: no allocation and no trainer
\* payout is recorded any more, and the reversal is never taken back.
ReversedRevenueIsFinal ==
  [][\A k \in Requests : revenue[k].reversal # "none" => revenue'[k] = revenue[k]]_revenue

\* A captured payment the provider announced does not leave its request
\* pending for ever, however often other events and calls come first.
CapturedSettles ==
  \A k \in Requests :
    [request |-> k, status |-> "paid", exact |-> TRUE] \in sent
      ~> payment[k].status # "pending"

\* A full refund the provider announced ends the access it paid for, also when
\* the refund event overtakes the event of the payment.
RefundEndsAccess ==
  \A k \in Requests :
    [request |-> k, status |-> "refunded", exact |-> TRUE] \in sent
      ~> entitlement[k].status # "active"

-----------------------------------------------------------------------------
(* Refinement. *)

Outcome(status) == IF status \in Reversed THEN "reversed"
                   ELSE IF status \in Declined THEN "declined" ELSE status

LedgerStatus == [k \in Requests |-> Outcome(payment[k].status)]

LedgerAccess == [k \in Requests |-> entitlement[k].status = "active"]

Ledger == INSTANCE PaymentLedger WITH status <- LedgerStatus, access <- LedgerAccess

\* The pipeline implements the abstract ledger: whatever checkouts, events and
\* operators do, a request settles once and access follows its money.
ImplementsLedger == Ledger!Spec
=============================================================================
