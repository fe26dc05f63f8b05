----------------------- MODULE CommerceCheckoutProofs -----------------------
(* Proofs about CommerceCheckout, for every set of requests, discounts and   *)
(* concurrent calls: types; what a payment request, its discount, its        *)
(* entitlement and its revenue entry say of each other; and that the         *)
(* pipeline implements PaymentLedger.  Then DiscountQuote, and AccessSeats.   *)
EXTENDS CommerceCheckout, DiscountQuote, AccessSeats, FiniteSetTheorems, TLAPS

-----------------------------------------------------------------------------
(* Type correctness.  Each helper keeps the type of what it writes; each     *)
(* action is then a combination of helpers.                                  *)

LEMMA SettleType ==
  ASSUME TypeOK, NEW k \in Requests, NEW outcome \in {"redeemed", "released"},
         SettleDiscount(k, outcome)
  PROVE  /\ discount' \in [Discounts -> DiscountRows]
         /\ redemption' \in [Requests -> {"none", "reserved", "redeemed", "released"}]
<1>1. CASE redemption[k] = "reserved"
  <2> DEFINE d == payment[k].code
  <2>1. /\ discount[d].reserved > 0
        /\ discount' = [discount EXCEPT
             ![d].reserved = @ - 1,
             ![d].redeemed = IF outcome = "redeemed" THEN @ + 1 ELSE @]
        /\ redemption' = [redemption EXCEPT ![k] = outcome]
    BY <1>1 DEF SettleDiscount
  <2>2. discount' \in [Discounts -> DiscountRows]
    <3>1. CASE d \in Discounts
      <4> DEFINE row == [discount[d] EXCEPT !.reserved = @ - 1,
                           !.redeemed = IF outcome = "redeemed" THEN @ + 1 ELSE @]
      <4>1. discount[d] \in DiscountRows
        BY <3>1 DEF TypeOK
      <4>2. row \in DiscountRows
        <5>1. /\ discount[d].reserved - 1 \in Nat
              /\ discount[d].redeemed \in Nat
              /\ discount[d].redeemed + 1 \in Nat
          BY <4>1, <2>1 DEF DiscountRows
        <5>2. CASE outcome = "redeemed"
          BY <4>1, <5>1, <5>2 DEF DiscountRows
        <5>3. CASE outcome # "redeemed"
          BY <4>1, <5>1, <5>3 DEF DiscountRows
        <5> QED BY <5>2, <5>3
      <4>3. discount' = [discount EXCEPT ![d] = row]
        BY <2>1, <3>1 DEF TypeOK
      <4> QED BY <4>2, <4>3, <3>1 DEF TypeOK
    <3>2. CASE d \notin Discounts
      <4>1. discount' = discount
        BY <2>1, <3>2 DEF TypeOK
      <4> QED BY <4>1 DEF TypeOK
    <3> QED BY <3>1, <3>2
  <2> QED BY <2>1, <2>2 DEF TypeOK
<1>2. CASE redemption[k] # "reserved"
  BY <1>2 DEF SettleDiscount, TypeOK
<1> QED BY <1>1, <1>2

LEMMA WriteType ==
  ASSUME TypeOK, NEW k \in Requests, NEW status \in PaymentStatus,
         NEW session \in {"none", "initiated", "failed"},
         WritePayment(k, status, session)
  PROVE  payment' \in [Requests -> Payments]
<1>1. payment[k] \in Payments
  BY DEF TypeOK
<1>2. [payment[k] EXCEPT !.status = status, !.session = session, !.revision = @ + 1] \in Payments
  <2>1. payment[k].revision + 1 \in Nat
    BY <1>1 DEF Payments
  <2> QED BY <1>1, <2>1 DEF Payments
<1> QED BY <1>2 DEF WritePayment, TypeOK

LEMMA SessionType ==
  ASSUME TypeOK, NEW k \in Requests
  PROVE  payment[k].session \in {"none", "initiated", "failed"}
BY DEF TypeOK, Payments

LEMMA CollectType ==
  ASSUME TypeOK, NEW k \in Requests, NEW source \in {"payment_request", "payment_webhook"},
         Collect(k, source)
  PROVE  /\ payment' \in [Requests -> Payments]
         /\ redemption' \in [Requests -> {"none", "reserved", "redeemed", "released"}]
         /\ discount' \in [Discounts -> DiscountRows]
         /\ entitlement' \in [Requests -> [status : {"none", "active", "revoked"},
                                           source : {"none", "payment_request", "payment_webhook"}]]
         /\ revenue' \in [Requests -> Revenues]
<1>1. /\ redemption' \in [Requests -> {"none", "reserved", "redeemed", "released"}]
      /\ discount' \in [Discounts -> DiscountRows]
  BY SettleType DEF Collect
<1>2. payment' \in [Requests -> Payments]
  <2>1. "paid" \in PaymentStatus
    BY DEF PaymentStatus
  <2> QED BY <2>1, SessionType, WriteType DEF Collect
<1>3. entitlement' \in [Requests -> [status : {"none", "active", "revoked"},
                                     source : {"none", "payment_request", "payment_webhook"}]]
  BY DEF Collect, GrantEntitlement, TypeOK
<1>4. revenue' \in [Requests -> Revenues]
  <2>1. RevenueOf(payment[k].policy) \in Revenues
    BY DEF RevenueOf, Revenues
  <2> QED BY <2>1 DEF Collect, EnsureRevenue, TypeOK
<1> QED BY <1>1, <1>2, <1>3, <1>4
LEMMA DeclineType ==
  ASSUME TypeOK, NEW k \in Requests, NEW status \in Declined,
         NEW session \in {"none", "initiated", "failed"},
         Decline(k, status, session)
  PROVE  /\ payment' \in [Requests -> Payments]
         /\ redemption' \in [Requests -> {"none", "reserved", "redeemed", "released"}]
         /\ discount' \in [Discounts -> DiscountRows]
         /\ UNCHANGED <<entitlement, revenue>>
<1>1. status \in PaymentStatus
  BY DEF Declined, PaymentStatus
<1> QED BY <1>1, SettleType, WriteType DEF Decline

LEMMA ReversalType ==
  ASSUME TypeOK, NEW k \in Requests, NEW status \in Reversed,
         NEW reference \in References \cup Events,
         RecordFullReversal(k, status, reference)
  PROVE  /\ payment' \in [Requests -> Payments]
         /\ entitlement' \in [Requests -> [status : {"none", "active", "revoked"},
                                           source : {"none", "payment_request", "payment_webhook"}]]
         /\ revenue' \in [Requests -> Revenues]
         /\ reversal' \in [Requests -> References \cup Events \cup {NoReference}]
         /\ UNCHANGED <<redemption, discount>>
<1>1. payment' \in [Requests -> Payments]
  <2>1. status \in PaymentStatus
    BY DEF Reversed, PaymentStatus
  <2> QED BY <2>1, SessionType, WriteType DEF RecordFullReversal
<1>2. entitlement' \in [Requests -> [status : {"none", "active", "revoked"},
                                     source : {"none", "payment_request", "payment_webhook"}]]
  BY DEF RecordFullReversal, RevokeGrant, TypeOK
<1>3. revenue' \in [Requests -> Revenues]
  BY DEF RecordFullReversal, ReverseRevenue, TypeOK, Revenues
<1> QED BY <1>1, <1>2, <1>3 DEF RecordFullReversal, TypeOK

\* Continue and Reuse keep a call in one of its states.
LEMMA ReuseType ==
  ASSUME TypeOK, NEW k \in Requests, NEW code, NEW mode
  PROVE  Reuse(k, code, mode) \in {Idle} \cup Inserting \cup Initiating
<1>1. payment[k].revision \in Nat
  BY DEF TypeOK, Payments
<1> QED BY <1>1 DEF Reuse, Continue, Initiating

\* Every step of a checkout call keeps the types.
LEMMA CheckoutTypeStep ==
  ASSUME TypeOK, CheckoutAssumption, NEW c \in Checkouts, CheckoutStep(c)
  PROVE  TypeOK'
<1> DEFINE Calls == {Idle} \cup Inserting \cup Initiating
<1>0. checkout[c] \in Calls
  BY DEF TypeOK
<1>1. ASSUME NEW k \in Requests, NEW code \in Codes, NEW mode \in GatewayModes,
             Lookup(c, k, code, mode)
      PROVE  TypeOK'
  <2>1. [pc |-> "insert", request |-> k, code |-> code, mode |-> mode] \in Inserting
    BY DEF Inserting
  <2>2. checkout' \in [Checkouts -> Calls]
    BY <1>1, <2>1, ReuseType DEF Lookup, TypeOK
  <2> QED BY <1>1, <2>2 DEF Lookup, TypeOK
<1>2. CASE InsertRefused(c)
  BY <1>2 DEF InsertRefused, TypeOK
<1>3. ASSUME NEW policy \in Policies, InsertNew(c, policy)
      PROVE  TypeOK'
  <2> DEFINE call == checkout[c]
             k == call.request
             p == [status |-> "pending", mode |-> call.mode, session |-> "none",
                   revision |-> 1, code |-> call.code, policy |-> policy]
  <2>1. call \in Inserting
    BY <1>0, <1>3 DEF InsertNew, Idle, Initiating
  <2>2. k \in Requests /\ call.code \in Codes /\ call.mode \in GatewayModes
    BY <2>1 DEF Inserting
  <2>3. p \in Payments
    BY <2>2 DEF Payments, PaymentStatus
  <2>4. payment' \in [Requests -> Payments]
    BY <1>3, <2>3 DEF InsertNew, TypeOK
  <2>5. /\ discount' \in [Discounts -> DiscountRows]
        /\ redemption' \in [Requests -> {"none", "reserved", "redeemed", "released"}]
    <3>1. CASE call.code = NoCode
      BY <1>3, <3>1 DEF InsertNew, TypeOK
    <3>2. CASE call.code # NoCode
      <4>1. call.code \in Discounts
        BY <2>2, <3>2 DEF Codes
      <4>2. discount[call.code].reserved + 1 \in Nat
        BY <4>1 DEF TypeOK, DiscountRows
      <4>3. discount' = [discount EXCEPT ![call.code].reserved = @ + 1]
        BY <1>3, <3>2 DEF InsertNew
      <4>4. discount' \in [Discounts -> DiscountRows]
        <5>1. discount[call.code] \in DiscountRows
          BY <4>1 DEF TypeOK
        <5>2. [discount[call.code] EXCEPT !.reserved = @ + 1] \in DiscountRows
          BY <4>2, <5>1 DEF DiscountRows
        <5>3. discount' = [discount EXCEPT ![call.code] =
                             [discount[call.code] EXCEPT !.reserved = @ + 1]]
          BY <4>1, <4>3 DEF TypeOK
        <5> QED BY <5>2, <5>3 DEF TypeOK
      <4> QED BY <1>3, <3>2, <4>4 DEF InsertNew, TypeOK
    <3> QED BY <3>1, <3>2
  <2>6. checkout' \in [Checkouts -> Calls]
    <3>1. Continue(k, call.mode, p) \in Calls
      BY <2>2 DEF Continue, Initiating
    <3> QED BY <1>3, <3>1 DEF InsertNew, TypeOK
  <2> QED BY <1>3, <2>4, <2>5, <2>6 DEF InsertNew, TypeOK
<1>4. CASE InsertLost(c)
  <2>1. checkout[c] \in Inserting
    BY <1>0, <1>4 DEF InsertLost, Idle, Initiating
  <2>2. checkout[c].request \in Requests
    BY <2>1 DEF Inserting
  <2>3. checkout' \in [Checkouts -> Calls]
    BY <1>4, <2>2, ReuseType DEF InsertLost, TypeOK
  <2> QED BY <1>4, <2>3 DEF InsertLost, TypeOK
<1>5. ASSUME checkout[c].pc \in {"initiate", "attach", "fail"}
      PROVE  checkout[c] \in Initiating /\ checkout[c].request \in Requests
  <2>1. checkout[c] \in Initiating
    BY <1>0, <1>5 DEF Idle, Inserting
  <2> QED BY <2>1 DEF Initiating
<1>6. CASE InitiateOK(c)
  <2>1. checkout[c] \in Initiating
    BY <1>5, <1>6 DEF InitiateOK
  <2>2. checkout' \in [Checkouts -> Calls]
    BY <1>6, <2>1 DEF InitiateOK, TypeOK, Initiating
  <2> QED BY <1>6, <2>2 DEF InitiateOK, TypeOK, Charges
<1>7. CASE InitiateError(c)
  <2>1. checkout[c] \in Initiating
    BY <1>5, <1>7 DEF InitiateError
  <2>2. checkout' \in [Checkouts -> Calls]
    BY <1>7, <2>1 DEF InitiateError, TypeOK, Initiating
  <2> QED BY <1>7, <2>2 DEF InitiateError, TypeOK, Charges
<1>8. CASE AttachProviderSession(c)
  <2>1. checkout[c].request \in Requests
    BY <1>5, <1>8 DEF AttachProviderSession
  <2>2. "pending" \in PaymentStatus
    BY DEF PaymentStatus
  <2>3. payment' \in [Requests -> Payments]
    BY <1>8, <2>1, <2>2, WriteType DEF AttachProviderSession, TypeOK
  <2> QED BY <1>8, <2>3 DEF AttachProviderSession, TypeOK
<1>9. CASE FailProviderSession(c)
  <2>1. checkout[c].request \in Requests
    BY <1>5, <1>9 DEF FailProviderSession
  <2>2. CASE MayFail(checkout[c])
    <3>1. Decline(checkout[c].request, "failed", "failed")
      BY <1>9, <2>2 DEF FailProviderSession
    <3>2. "failed" \in Declined
      BY DEF Declined
    <3> QED BY <1>9, <2>1, <3>1, <3>2, DeclineType DEF FailProviderSession, TypeOK
  <2>3. CASE ~MayFail(checkout[c])
    BY <1>9, <2>3 DEF FailProviderSession, TypeOK
  <2> QED BY <2>2, <2>3
<1>10. CASE Abandon(c)
  BY <1>10 DEF Abandon, TypeOK
<1> QED BY <1>1, <1>2, <1>3, <1>4, <1>6, <1>7, <1>8, <1>9, <1>10 DEF CheckoutStep

\* Every application of a provider event keeps the types.
LEMMA DeliverTypeStep ==
  ASSUME TypeOK, NEW e \in Events, Deliver(e)
  PROVE  TypeOK'
<1>0. e.request \in Requests /\ e.status \in ProviderStatus
  BY DEF Events
<1>1. CASE DeliverToManual(e)
  BY <1>1 DEF DeliverToManual, Mark, TypeOK, Results
<1>2. CASE DeliverPaid(e)
  <2>1. CASE e.exact
    <3>1. Collect(e.request, "payment_webhook") /\ Mark(e, "paid_granted")
      BY <1>2, <2>1 DEF DeliverPaid
    <3>2. ledger' \in [Events -> Results]
      BY <3>1 DEF Mark, TypeOK, Results
    <3> QED BY <1>0, <1>2, <3>1, <3>2, CollectType DEF DeliverPaid, TypeOK
  <2>2. CASE ~e.exact
    BY <1>2, <2>2 DEF DeliverPaid, Mark, TypeOK, Results
  <2> QED BY <2>1, <2>2
<1>3. CASE DeliverDeclined(e)
  <2>1. e.status \in Declined /\ Decline(e.request, e.status, payment[e.request].session)
    BY <1>3 DEF DeliverDeclined, Declined
  <2>2. ledger' \in [Events -> Results]
    BY <1>3 DEF DeliverDeclined, Mark, TypeOK, Results
  <2>3. /\ payment' \in [Requests -> Payments]
        /\ redemption' \in [Requests -> {"none", "reserved", "redeemed", "released"}]
        /\ discount' \in [Discounts -> DiscountRows]
        /\ UNCHANGED <<entitlement, revenue>>
    <3>1. payment[e.request].session \in {"none", "initiated", "failed"}
      BY <1>0, SessionType
    <3> QED BY <1>0, <2>1, <3>1, DeclineType
  <2> QED BY <1>3, <2>2, <2>3 DEF DeliverDeclined, TypeOK
<1>4. CASE DeliverReversal(e)
  <2>1. CASE e.exact
    <3>1. RecordFullReversal(e.request, e.status, e) /\ Mark(e, "reversed") /\ e.status \in Reversed
      BY <1>4, <2>1 DEF DeliverReversal
    <3>2. ledger' \in [Events -> Results]
      BY <3>1 DEF Mark, TypeOK, Results
    <3> QED BY <1>0, <1>4, <3>1, <3>2, ReversalType DEF DeliverReversal, TypeOK
  <2>2. CASE ~e.exact
    BY <1>4, <2>2 DEF DeliverReversal, Mark, TypeOK, Results
  <2> QED BY <2>1, <2>2
<1>5. CASE DeliverSettled(e)
  BY <1>5 DEF DeliverSettled, Mark, TypeOK, Results
<1> QED BY <1>1, <1>2, <1>3, <1>4, <1>5 DEF Deliver

\* Every operator command keeps the types.
LEMMA OperatorTypeStep ==
  ASSUME TypeOK, CheckoutAssumption, OperatorStep
  PROVE  TypeOK'
<1>1. ASSUME NEW k \in Requests, NEW decision \in {"paid", "rejected", "cancelled"},
             ReviewPaymentRequest(k, decision)
      PROVE  TypeOK'
  <2>1. CASE decision = "paid"
    BY <1>1, <2>1, CollectType DEF ReviewPaymentRequest, TypeOK
  <2>2. CASE decision # "paid"
    <3>1. decision \in Declined
      BY <2>2 DEF Declined
    <3> QED BY <1>1, <2>2, <3>1, SessionType, DeclineType DEF ReviewPaymentRequest, TypeOK
  <2> QED BY <2>1, <2>2
<1>2. ASSUME NEW k \in Requests, NEW status \in Reversed, NEW reference \in References,
             RecordAdminReversal(k, status, reference)
      PROVE  TypeOK'
  BY <1>2, ReversalType DEF RecordAdminReversal, TypeOK
<1>3. ASSUME NEW k \in Requests, RevokeEntitlement(k)
      PROVE  TypeOK'
  BY <1>3 DEF RevokeEntitlement, TypeOK
<1>4. ASSUME NEW k \in Requests, MarkPayoutPaid(k)
      PROVE  TypeOK'
  <2>1. [revenue[k] EXCEPT !.payout = "paid"] \in Revenues
    <3>1. revenue[k] \in Revenues
      BY DEF TypeOK
    <3> QED BY ONLY <3>1 DEF Revenues
  <2>2. revenue' = [revenue EXCEPT ![k] = [revenue[k] EXCEPT !.payout = "paid"]]
    BY <1>4 DEF MarkPayoutPaid, TypeOK
  <2>3. revenue' \in [Requests -> Revenues]
    BY <2>1, <2>2 DEF TypeOK
  <2> QED BY <1>4, <2>3 DEF MarkPayoutPaid, TypeOK
<1>5. ASSUME NEW k \in Requests, NEW trainerPaid \in BOOLEAN, AllocateRevenue(k, trainerPaid)
      PROVE  TypeOK'
  <2>1. revenue' \in [Requests -> Revenues]
    <3> DEFINE payout == IF trainerPaid THEN "pending" ELSE "not_applicable"
               row == [revenue[k] EXCEPT !.allocation = "allocated", !.payout = payout]
    <3>1. payout \in {"pending", "not_applicable"}
      OBVIOUS
    <3>2. revenue[k] \in Revenues
      BY DEF TypeOK
    <3>3. row \in Revenues
      <4> HIDE DEF payout
      <4> QED BY ONLY <3>1, <3>2 DEF Revenues
    <3>4. revenue' = [revenue EXCEPT ![k] = row]
      BY <1>5 DEF AllocateRevenue, TypeOK
    <3> QED BY <3>3, <3>4 DEF TypeOK
  <2> QED BY <1>5, <2>1 DEF AllocateRevenue, TypeOK
<1>6. ASSUME NEW d \in Discounts, NEW max \in Limits, NEW status \in {"active", "inactive"},
             UpdateDiscount(d, max, status)
      PROVE  TypeOK'
  <2>1. max \in Nat
    BY DEF CheckoutAssumption
  <2>2. discount[d] \in DiscountRows
    BY DEF TypeOK
  <2>3. [discount[d] EXCEPT !.max = max, !.status = status]
          \in DiscountRows
    BY <2>1, <2>2 DEF DiscountRows
  <2>4. discount' = [discount EXCEPT ![d] = [discount[d] EXCEPT !.max = max, !.status = status]]
    BY <1>6 DEF UpdateDiscount, TypeOK
  <2>5. discount' \in [Discounts -> DiscountRows]
    BY <2>3, <2>4 DEF TypeOK
  <2> QED BY <1>6, <2>5 DEF UpdateDiscount, TypeOK
<1> QED BY <1>1, <1>2, <1>3, <1>4, <1>5, <1>6 DEF OperatorStep

\* Every move of the provider keeps the types.
LEMMA ProviderTypeStep ==
  ASSUME TypeOK, ProviderStep
  PROVE  TypeOK'
<1>1. ASSUME NEW k \in Requests, NEW status \in ProviderStatus, NEW exact \in BOOLEAN,
             Emit(k, status, exact)
      PROVE  sent' \subseteq Events
  BY <1>1 DEF Emit, Events, TypeOK
<1>2. ASSUME NEW k \in Requests, Capture(k)
      PROVE  TypeOK'
  <2>1. sent' \subseteq Events
    BY <1>1, <1>2 DEF Capture, ProviderStatus
  <2> QED BY <1>2, <2>1 DEF Capture, TypeOK, Charges, ledgerVars
<1>3. ASSUME NEW k \in Requests, OtherAmount(k)
      PROVE  TypeOK'
  <2>1. sent' \subseteq Events
    BY <1>1, <1>3 DEF OtherAmount, ProviderStatus
  <2> QED BY <1>3, <2>1 DEF OtherAmount, TypeOK, ledgerVars
<1>4. ASSUME NEW k \in Requests, NEW status \in {"failed", "cancelled"}, EndCharge(k, status)
      PROVE  TypeOK'
  <2>1. sent' \subseteq Events
    BY <1>1, <1>4 DEF EndCharge, ProviderStatus
  <2> QED BY <1>4, <2>1 DEF EndCharge, TypeOK, Charges, ledgerVars
<1>5. ASSUME NEW k \in Requests, NEW status \in Reversed, ReturnMoney(k, status)
      PROVE  TypeOK'
  <2>1. sent' \subseteq Events
    BY <1>1, <1>5 DEF ReturnMoney, ProviderStatus, Reversed, TypeOK
  <2> QED BY <1>5, <2>1 DEF ReturnMoney, TypeOK, Charges, Reversed, ledgerVars
<1> QED BY <1>2, <1>3, <1>4, <1>5 DEF ProviderStep

\* The rows, the calls and the provider's state keep their types for every
\* number of requests, discounts and concurrent calls.
THEOREM TypeCorrect == Spec => []TypeOK
<1>1. Init => TypeOK
  <2> SUFFICES ASSUME Init PROVE TypeOK
    OBVIOUS
  <2>1. payment \in [Requests -> Payments]
    BY DEF Init, NoPayment, Payments, Codes
  <2>2. discount \in [Discounts -> DiscountRows]
    <3>1. PICK limit \in [Discounts -> Limits] :
            discount = [d \in Discounts |->
              [status |-> "active", max |-> limit[d], reserved |-> 0, redeemed |-> 0]]
      BY DEF Init
    <3>2. Limits \subseteq Nat
      BY CheckoutAssumption DEF CheckoutAssumption
    <3> QED BY <3>1, <3>2 DEF DiscountRows
  <2>3. revenue \in [Requests -> Revenues]
    BY DEF Init, NoRevenue, Revenues
  <2> QED BY <2>1, <2>2, <2>3 DEF Init, TypeOK, Results, Charges
<1>2. TypeOK /\ [Next]_vars => TypeOK'
  <2> SUFFICES ASSUME TypeOK, [Next]_vars PROVE TypeOK'
    OBVIOUS
  <2>1. CASE Next
    BY <2>1, CheckoutAssumption, CheckoutTypeStep, DeliverTypeStep, OperatorTypeStep, ProviderTypeStep DEF Next
  <2>2. CASE UNCHANGED vars
    BY <2>2 DEF vars, TypeOK
  <2> QED BY <2>1, <2>2
<1> QED BY <1>1, <1>2, PTL DEF Spec

-----------------------------------------------------------------------------
(* What the helpers write, row by row. *)

LEMMA WriteEffect ==
  ASSUME TypeOK, NEW k \in Requests, NEW status, NEW session,
         WritePayment(k, status, session)
  PROVE  /\ payment'[k].status = status
         /\ payment'[k].code = payment[k].code
         /\ \A j \in Requests \ {k} : payment'[j] = payment[j]
<1>1. payment[k] \in Payments
  BY DEF TypeOK
<1> QED BY <1>1 DEF WritePayment, TypeOK, Payments

LEMMA SettleEffect ==
  ASSUME TypeOK, NEW k \in Requests, NEW outcome, SettleDiscount(k, outcome)
  PROVE  /\ redemption'[k] = IF redemption[k] = "reserved" THEN outcome ELSE redemption[k]
         /\ \A j \in Requests \ {k} : redemption'[j] = redemption[j]
<1>1. CASE redemption[k] = "reserved"
  BY <1>1 DEF SettleDiscount, TypeOK
<1>2. CASE redemption[k] # "reserved"
  BY <1>2 DEF SettleDiscount, TypeOK
<1> QED BY <1>1, <1>2

LEMMA GrantEffect ==
  ASSUME TypeOK, NEW k \in Requests, NEW source, GrantEntitlement(k, source)
  PROVE  /\ entitlement'[k] = IF entitlement[k].status = "none"
                                THEN [status |-> "active", source |-> source]
                                ELSE entitlement[k]
         /\ \A j \in Requests \ {k} : entitlement'[j] = entitlement[j]
BY DEF GrantEntitlement, TypeOK

LEMMA RevenueEffect ==
  ASSUME TypeOK, NEW k \in Requests, EnsureRevenue(k)
  PROVE  /\ revenue'[k] = IF revenue[k].allocation = "none"
                            THEN RevenueOf(payment[k].policy) ELSE revenue[k]
         /\ \A j \in Requests \ {k} : revenue'[j] = revenue[j]
BY DEF EnsureRevenue, TypeOK

-----------------------------------------------------------------------------
(* The inductive invariant.  It speaks of one request at a time, and of all  *)
(* its rows at once: a reversal may revoke the grant of a paid request only  *)
(* because that grant names its source, and the paid transition may insert   *)
(* a grant and an entry only because a pending request has neither.          *)

Redeems(k) ==
  IF payment[k].code = NoCode
    THEN redemption[k] = "none"
    ELSE /\ redemption[k] = "reserved" <=> payment[k].status = "pending"
         /\ redemption[k] = "redeemed" <=> payment[k].status \in Collected
         /\ redemption[k] = "released" <=> payment[k].status \in Declined

Agrees(k) ==
  /\ Redeems(k)
  /\ entitlement[k].status # "none" <=> payment[k].status \in Collected
  /\ entitlement[k].status = "active" => payment[k].status = "paid"
  /\ entitlement[k].status # "none" => entitlement[k].source # "none"
  /\ revenue[k].allocation # "none" <=> payment[k].status \in Collected
  /\ revenue[k].reversal = IF payment[k].status \in Reversed THEN payment[k].status ELSE "none"
  /\ reversal[k] # NoReference <=> payment[k].status \in Reversed

MoneyInv == \A k \in Requests : Agrees(k)

\* Requests a step does not write stay coherent.
LEMMA AgreesFrame ==
  ASSUME NEW k \in Requests, Agrees(k),
         payment'[k].status = payment[k].status, payment'[k].code = payment[k].code,
         redemption'[k] = redemption[k], entitlement'[k] = entitlement[k],
         revenue'[k] = revenue[k], reversal'[k] = reversal[k]
  PROVE  Agrees(k)'
BY DEF Agrees, Redeems

LEMMA CollectAgrees ==
  ASSUME TypeOK, MoneyInv, NEW k \in Requests,
         NEW source \in {"payment_request", "payment_webhook"},
         payment[k].status = "pending", Collect(k, source), UNCHANGED reversal
  PROVE  MoneyInv'
<1>1. SUFFICES ASSUME NEW j \in Requests PROVE Agrees(j)'
  BY DEF MoneyInv
<1>2. Agrees(j) /\ Agrees(k)
  BY DEF MoneyInv
<1>3. /\ payment'[k].status = "paid"
      /\ payment'[k].code = payment[k].code
      /\ \A i \in Requests \ {k} : payment'[i] = payment[i]
  BY WriteEffect DEF Collect
<1>4. /\ redemption'[k] = IF redemption[k] = "reserved" THEN "redeemed" ELSE redemption[k]
      /\ \A i \in Requests \ {k} : redemption'[i] = redemption[i]
  BY SettleEffect DEF Collect
<1>5. /\ entitlement'[k] = IF entitlement[k].status = "none"
                             THEN [status |-> "active", source |-> source] ELSE entitlement[k]
      /\ \A i \in Requests \ {k} : entitlement'[i] = entitlement[i]
  BY GrantEffect DEF Collect
<1>6. /\ revenue'[k] = IF revenue[k].allocation = "none"
                         THEN RevenueOf(payment[k].policy) ELSE revenue[k]
      /\ \A i \in Requests \ {k} : revenue'[i] = revenue[i]
  BY RevenueEffect DEF Collect
<1>7. CASE j = k
  <2>1. Redeems(k)'
    BY <1>2, <1>3, <1>4 DEF Agrees, Redeems, Collected, Declined
  <2>2. entitlement[k].status = "none" /\ revenue[k].allocation = "none"
    BY <1>2 DEF Agrees, Collected
  <2>3. /\ entitlement'[k].status = "active"
        /\ entitlement'[k].source # "none"
    BY <1>5, <2>2
  <2>4. /\ revenue'[k].allocation # "none"
        /\ revenue'[k].reversal = "none"
    BY <1>6, <2>2 DEF RevenueOf
  <2>5. reversal'[k] = NoReference
    BY <1>2 DEF Agrees, Reversed
  <2> QED BY <1>3, <1>7, <2>1, <2>3, <2>4, <2>5 DEF Agrees, Collected, Reversed
<1>8. CASE j # k
  BY <1>2, <1>3, <1>4, <1>5, <1>6, <1>8, AgreesFrame
<1> QED BY <1>7, <1>8

LEMMA DeclineAgrees ==
  ASSUME TypeOK, MoneyInv, NEW k \in Requests, NEW status \in Declined, NEW session,
         payment[k].status = "pending", Decline(k, status, session), UNCHANGED reversal
  PROVE  MoneyInv'
<1>1. SUFFICES ASSUME NEW j \in Requests PROVE Agrees(j)'
  BY DEF MoneyInv
<1>2. Agrees(j) /\ Agrees(k)
  BY DEF MoneyInv
<1>3. /\ payment'[k].status = status
      /\ payment'[k].code = payment[k].code
      /\ \A i \in Requests \ {k} : payment'[i] = payment[i]
  BY WriteEffect DEF Decline
<1>4. /\ redemption'[k] = IF redemption[k] = "reserved" THEN "released" ELSE redemption[k]
      /\ \A i \in Requests \ {k} : redemption'[i] = redemption[i]
  BY SettleEffect DEF Decline
<1>5. UNCHANGED <<entitlement, revenue>>
  BY DEF Decline
<1>6. CASE j = k
  <2>1. Redeems(k)'
    BY <1>2, <1>3, <1>4 DEF Agrees, Redeems, Collected, Declined
  <2> QED BY <1>2, <1>3, <1>5, <1>6, <2>1 DEF Agrees, Collected, Reversed, Declined
<1>7. CASE j # k
  BY <1>2, <1>3, <1>4, <1>5, <1>7, AgreesFrame
<1> QED BY <1>6, <1>7

LEMMA ReversalAgrees ==
  ASSUME TypeOK, MoneyInv, NEW k \in Requests, NEW status \in Reversed,
         NEW reference \in References \cup Events,
         RecordFullReversal(k, status, reference)
  PROVE  MoneyInv'
<1>1. SUFFICES ASSUME NEW j \in Requests PROVE Agrees(j)'
  BY DEF MoneyInv
<1>2. Agrees(j) /\ Agrees(k)
  BY DEF MoneyInv
<1>3. /\ payment'[k].status = status
      /\ payment'[k].code = payment[k].code
      /\ \A i \in Requests \ {k} : payment'[i] = payment[i]
  BY WriteEffect DEF RecordFullReversal
<1>4. payment[k].status = "paid" /\ UNCHANGED redemption
  BY DEF RecordFullReversal
<1>5. /\ reversal'[k] = reference
      /\ \A i \in Requests \ {k} : reversal'[i] = reversal[i]
  BY DEF RecordFullReversal, TypeOK
<1>6. /\ entitlement'[k].status # "none" /\ entitlement'[k].status # "active"
      /\ entitlement'[k].source # "none"
      /\ \A i \in Requests \ {k} : entitlement'[i] = entitlement[i]
  <2>1. entitlement[k].status # "none" /\ entitlement[k].source # "none"
    BY <1>2, <1>4 DEF Agrees, Collected
  <2> QED BY <2>1 DEF RecordFullReversal, RevokeGrant, TypeOK
<1>7. /\ revenue'[k].allocation # "none" /\ revenue'[k].reversal = status
      /\ \A i \in Requests \ {k} : revenue'[i] = revenue[i]
  <2>1. revenue[k].allocation # "none" /\ revenue[k].reversal = "none"
    BY <1>2, <1>4 DEF Agrees, Collected, Reversed
  <2>2. revenue[k] \in Revenues
    BY DEF TypeOK
  <2> QED BY <2>1, <2>2 DEF RecordFullReversal, ReverseRevenue, TypeOK, Revenues
<1>8. CASE j = k
  <2>1. Redeems(k)'
    BY <1>2, <1>3, <1>4 DEF Agrees, Redeems, Collected, Declined, Reversed
  <2>2. reference # NoReference
    BY ReferenceAssumption
  <2> QED BY <1>3, <1>5, <1>6, <1>7, <1>8, <2>1, <2>2 DEF Agrees, Collected, Reversed
<1>9. CASE j # k
  BY <1>2, <1>3, <1>4, <1>5, <1>6, <1>7, <1>9, AgreesFrame
<1> QED BY <1>8, <1>9

\* A step that writes none of the five tables.
LEMMA SameAgrees ==
  ASSUME MoneyInv, UNCHANGED <<payment, redemption, entitlement, revenue, reversal>>
  PROVE  MoneyInv'
BY AgreesFrame DEF MoneyInv

-----------------------------------------------------------------------------
(* Every action keeps MoneyInv. *)

LEMMA CheckoutAgreesStep ==
  ASSUME TypeOK, MoneyInv, NEW c \in Checkouts, CheckoutStep(c)
  PROVE  MoneyInv'
<1>0. checkout[c] \in {Idle} \cup Inserting \cup Initiating
  BY DEF TypeOK
<1>1. ASSUME NEW k \in Requests, NEW code \in Codes, NEW mode \in GatewayModes,
             Lookup(c, k, code, mode)
      PROVE  MoneyInv'
  BY <1>1, SameAgrees DEF Lookup
<1>2. CASE InsertRefused(c)
  BY <1>2, SameAgrees DEF InsertRefused
<1>3. ASSUME NEW policy \in Policies, InsertNew(c, policy)
      PROVE  MoneyInv'
  <2> DEFINE k == checkout[c].request
             code == checkout[c].code
  <2>1. k \in Requests
    BY <1>0, <1>3 DEF InsertNew, Idle, Initiating, Inserting
  <2>2. SUFFICES ASSUME NEW j \in Requests PROVE Agrees(j)'
    BY DEF MoneyInv
  <2>3. Agrees(j) /\ Agrees(k)
    BY <2>1 DEF MoneyInv
  <2>4. /\ payment[k].status = "absent"
        /\ payment'[k].status = "pending" /\ payment'[k].code = code
        /\ \A i \in Requests \ {k} : payment'[i] = payment[i]
    BY <1>3, <2>1 DEF InsertNew, TypeOK, Exists
  <2>5. /\ redemption'[k] = IF code = NoCode THEN redemption[k] ELSE "reserved"
        /\ \A i \in Requests \ {k} : redemption'[i] = redemption[i]
    <3>1. CASE code = NoCode
      BY <1>3, <3>1 DEF InsertNew
    <3>2. CASE code # NoCode
      BY <1>3, <2>1, <3>2 DEF InsertNew, TypeOK
    <3> QED BY <3>1, <3>2
  <2>6. UNCHANGED <<entitlement, revenue, reversal>>
    BY <1>3 DEF InsertNew
  <2>7. CASE j = k
    <3>1. redemption[k] = "none"
      <4>1. redemption[k] \in {"none", "reserved", "redeemed", "released"}
        BY <2>1 DEF TypeOK
      <4> QED BY <2>3, <2>4, <4>1 DEF Agrees, Redeems, Collected, Declined
    <3>2. Redeems(j)'
      BY <2>4, <2>5, <2>7, <3>1 DEF Redeems, Collected, Declined
    <3> QED BY <2>3, <2>4, <2>6, <2>7, <3>2 DEF Agrees, Collected, Reversed
  <2>8. CASE j # k
    BY <2>3, <2>4, <2>5, <2>6, <2>8, AgreesFrame
  <2> QED BY <2>7, <2>8
<1>4. CASE InsertLost(c)
  BY <1>4, SameAgrees DEF InsertLost
<1>5. CASE InitiateOK(c)
  BY <1>5, SameAgrees DEF InitiateOK
<1>6. CASE InitiateError(c)
  BY <1>6, SameAgrees DEF InitiateError
<1>7. CASE AttachProviderSession(c)
  <2> DEFINE k == checkout[c].request
  <2>1. k \in Requests
    BY <1>0, <1>7 DEF AttachProviderSession, Idle, Initiating, Inserting
  <2>2. \/ UNCHANGED payment
        \/ payment[k].status = "pending" /\ WritePayment(k, "pending", "initiated")
    BY <1>7 DEF AttachProviderSession
  <2>3. UNCHANGED <<redemption, entitlement, revenue, reversal>>
    BY <1>7 DEF AttachProviderSession
  <2>4. CASE UNCHANGED payment
    BY <2>3, <2>4, SameAgrees
  <2>5. CASE payment[k].status = "pending" /\ WritePayment(k, "pending", "initiated")
    <3>1. \A j \in Requests : /\ payment'[j].status = payment[j].status
                              /\ payment'[j].code = payment[j].code
      BY <2>1, <2>5, WriteEffect
    <3> QED BY <2>3, <3>1, AgreesFrame DEF MoneyInv
  <2> QED BY <2>2, <2>4, <2>5
<1>8. CASE FailProviderSession(c)
  <2> DEFINE k == checkout[c].request
  <2>1. k \in Requests
    BY <1>0, <1>8 DEF FailProviderSession, Idle, Initiating, Inserting
  <2>2. CASE MayFail(checkout[c])
    <3>1. /\ payment[k].status = "pending"
          /\ Decline(k, "failed", "failed")
          /\ UNCHANGED reversal
      BY <1>8, <2>2 DEF FailProviderSession, MayFail
    <3> QED BY <2>1, <3>1, DeclineAgrees DEF Declined
  <2>3. CASE ~MayFail(checkout[c])
    BY <1>8, <2>3, SameAgrees DEF FailProviderSession
  <2> QED BY <2>2, <2>3
<1>9. CASE Abandon(c)
  BY <1>9, SameAgrees DEF Abandon
<1> QED BY <1>1, <1>2, <1>3, <1>4, <1>5, <1>6, <1>7, <1>8, <1>9 DEF CheckoutStep

LEMMA DeliverAgreesStep ==
  ASSUME TypeOK, MoneyInv, NEW e \in Events, Deliver(e)
  PROVE  MoneyInv'
<1>0. e.request \in Requests
  BY DEF Events
<1>1. CASE DeliverToManual(e)
  BY <1>1, SameAgrees DEF DeliverToManual
<1>2. CASE DeliverPaid(e)
  <2>1. CASE e.exact
    BY <1>0, <1>2, <2>1, CollectAgrees DEF DeliverPaid
  <2>2. CASE ~e.exact
    BY <1>2, <2>2, SameAgrees DEF DeliverPaid
  <2> QED BY <2>1, <2>2
<1>3. CASE DeliverDeclined(e)
  BY <1>0, <1>3, DeclineAgrees DEF DeliverDeclined, Declined
<1>4. CASE DeliverReversal(e)
  <2>1. CASE e.exact
    BY <1>0, <1>4, <2>1, ReversalAgrees DEF DeliverReversal
  <2>2. CASE ~e.exact
    BY <1>4, <2>2, SameAgrees DEF DeliverReversal
  <2> QED BY <2>1, <2>2
<1>5. CASE DeliverSettled(e)
  BY <1>5, SameAgrees DEF DeliverSettled
<1> QED BY <1>1, <1>2, <1>3, <1>4, <1>5 DEF Deliver

LEMMA OperatorAgreesStep ==
  ASSUME TypeOK, MoneyInv, OperatorStep
  PROVE  MoneyInv'
<1>1. ASSUME NEW k \in Requests, NEW decision \in {"paid", "rejected", "cancelled"},
             ReviewPaymentRequest(k, decision)
      PROVE  MoneyInv'
  <2>1. CASE decision = "paid"
    BY <1>1, <2>1, CollectAgrees DEF ReviewPaymentRequest
  <2>2. CASE decision # "paid"
    <3>1. decision \in Declined
      BY <2>2 DEF Declined
    <3> QED BY <1>1, <2>2, <3>1, DeclineAgrees DEF ReviewPaymentRequest
  <2> QED BY <2>1, <2>2
<1>2. ASSUME NEW k \in Requests, NEW status \in Reversed, NEW reference \in References,
             RecordAdminReversal(k, status, reference)
      PROVE  MoneyInv'
  BY <1>2, ReversalAgrees DEF RecordAdminReversal
<1>3. ASSUME NEW k \in Requests, RevokeEntitlement(k)
      PROVE  MoneyInv'
  <2>1. SUFFICES ASSUME NEW j \in Requests PROVE Agrees(j)'
    BY DEF MoneyInv
  <2>2. Agrees(j) /\ Agrees(k)
    BY DEF MoneyInv
  <2>3. /\ entitlement[k].status = "active"
        /\ entitlement'[k].status = "revoked" /\ entitlement'[k].source = entitlement[k].source
        /\ \A i \in Requests \ {k} : entitlement'[i] = entitlement[i]
    BY <1>3 DEF RevokeEntitlement, TypeOK
  <2>4. UNCHANGED <<payment, redemption, revenue, reversal>>
    BY <1>3 DEF RevokeEntitlement
  <2>5. CASE j = k
    BY <2>2, <2>3, <2>4, <2>5 DEF Agrees, Redeems
  <2>6. CASE j # k
    BY <2>2, <2>3, <2>4, <2>6, AgreesFrame
  <2> QED BY <2>5, <2>6
<1>4. ASSUME NEW k \in Requests,
             UNCHANGED <<payment, redemption, entitlement, reversal>>,
             \A j \in Requests : /\ revenue'[j].reversal = revenue[j].reversal
                                 /\ revenue'[j].allocation # "none" <=> revenue[j].allocation # "none"
      PROVE  MoneyInv'
  BY <1>4 DEF MoneyInv, Agrees, Redeems
<1>5. ASSUME NEW k \in Requests, MarkPayoutPaid(k)
      PROVE  MoneyInv'
  <2>1. revenue[k] \in Revenues
    BY DEF TypeOK
  <2>2. \A j \in Requests : /\ revenue'[j].reversal = revenue[j].reversal
                            /\ revenue'[j].allocation = revenue[j].allocation
    BY <1>5, <2>1 DEF MarkPayoutPaid, TypeOK, Revenues
  <2> QED BY <1>4, <1>5, <2>2 DEF MarkPayoutPaid
<1>6. ASSUME NEW k \in Requests, NEW trainerPaid \in BOOLEAN, AllocateRevenue(k, trainerPaid)
      PROVE  MoneyInv'
  <2>1. revenue[k] \in Revenues
    BY DEF TypeOK
  <2>2. /\ revenue[k].allocation = "pending" /\ revenue'[k].allocation = "allocated"
        /\ revenue'[k].reversal = revenue[k].reversal
        /\ \A j \in Requests \ {k} : revenue'[j] = revenue[j]
    BY <1>6, <2>1 DEF AllocateRevenue, TypeOK, Revenues
  <2> QED BY <1>4, <1>6, <2>2 DEF AllocateRevenue
<1>7. ASSUME NEW d \in Discounts, NEW max \in Limits, NEW status \in {"active", "inactive"},
             UpdateDiscount(d, max, status)
      PROVE  MoneyInv'
  BY <1>7, SameAgrees DEF UpdateDiscount
<1> QED BY <1>1, <1>2, <1>3, <1>5, <1>6, <1>7 DEF OperatorStep

LEMMA ProviderAgreesStep ==
  ASSUME MoneyInv, ProviderStep
  PROVE  MoneyInv'
<1>1. UNCHANGED <<payment, redemption, entitlement, revenue, reversal>>
  BY DEF ProviderStep, Capture, OtherAmount, EndCharge, ReturnMoney, ledgerVars
<1> QED BY <1>1, SameAgrees

\* The inductive step and its start, with the types they rest on.
LEMMA MoneyInvariant == Spec => [](TypeOK /\ MoneyInv)
<1>1. Init => MoneyInv
  BY DEF Init, MoneyInv, Agrees, Redeems, NoPayment, NoRevenue, Collected, Declined, Reversed
<1>2. TypeOK /\ MoneyInv /\ [Next]_vars => MoneyInv'
  <2> SUFFICES ASSUME TypeOK, MoneyInv, [Next]_vars PROVE MoneyInv'
    OBVIOUS
  <2>1. CASE Next
    BY <2>1, CheckoutAgreesStep, DeliverAgreesStep, OperatorAgreesStep, ProviderAgreesStep DEF Next
  <2>2. CASE UNCHANGED vars
    BY <2>2, SameAgrees DEF vars
  <2> QED BY <2>1, <2>2
<1> QED BY <1>1, <1>2, TypeCorrect, PTL DEF Spec

-----------------------------------------------------------------------------
(* The properties. *)

\* No unit of a discount leaks: a redemption row is reserved, redeemed or
\* released exactly as its request is pending, collected or declined.
THEOREM RedemptionCorrect == Spec => []RedemptionFollowsPayment
<1>1. MoneyInv => RedemptionFollowsPayment
  BY DEF MoneyInv, Agrees, Redeems, RedemptionFollowsPayment
<1> QED BY <1>1, MoneyInvariant, PTL

\* Access is granted with the payment and never outlives it.
THEOREM AccessCorrect == Spec => []AccessFollowsPayment
<1>1. MoneyInv => AccessFollowsPayment
  BY DEF MoneyInv, Agrees, AccessFollowsPayment
<1> QED BY <1>1, MoneyInvariant, PTL

\* A collected request has its revenue entry, reversed exactly when it is.
THEOREM RevenueCorrect == Spec => []RevenueFollowsPayment
<1>1. MoneyInv => RevenueFollowsPayment
  BY DEF MoneyInv, Agrees, RevenueFollowsPayment
<1> QED BY <1>1, MoneyInvariant, PTL

\* A reversed revenue entry is history: it rests on MoneyInv, because the
\* paid transition inserts an entry only where there is none to overwrite.
THEOREM ReversedRevenueStays == Spec => ReversedRevenueIsFinal
<1> DEFINE Final == \A k \in Requests : revenue[k].reversal # "none" => revenue'[k] = revenue[k]
<1>1. TypeOK /\ MoneyInv /\ [Next]_vars => [Final]_revenue
  <2> SUFFICES ASSUME TypeOK, MoneyInv, Next, revenue' # revenue PROVE Final
    BY DEF vars
  <2>1. ASSUME NEW k \in Requests, payment[k].status = "pending", EnsureRevenue(k)
        PROVE  Final
    <3>1. revenue[k].reversal = "none"
      BY <2>1 DEF MoneyInv, Agrees, Reversed
    <3> QED BY <2>1, <3>1, RevenueEffect
  <2>2. ASSUME NEW k \in Requests, NEW status, ReverseRevenue(k, status)
        PROVE  Final
    BY <2>2 DEF ReverseRevenue, TypeOK
  <2>3. ASSUME NEW c \in Checkouts, CheckoutStep(c) PROVE Final
    BY <2>3 DEF CheckoutStep, Lookup, InsertRefused, InsertNew, InsertLost, InitiateOK,
       InitiateError, AttachProviderSession, FailProviderSession, Decline, Abandon
  <2>4. ASSUME NEW e \in Events, Deliver(e) PROVE Final
    <3>1. e.request \in Requests
      BY DEF Events
    <3>2. CASE DeliverPaid(e)
      BY <2>1, <3>1, <3>2 DEF DeliverPaid, Collect
    <3>3. CASE DeliverReversal(e)
      BY <2>2, <3>1, <3>3 DEF DeliverReversal, RecordFullReversal
    <3> QED BY <2>4, <3>2, <3>3
      DEF Deliver, DeliverToManual, DeliverDeclined, Decline, DeliverSettled
  <2>5. ASSUME OperatorStep PROVE Final
    <3>1. ASSUME NEW k \in Requests, NEW decision, ReviewPaymentRequest(k, decision) PROVE Final
      BY <2>1, <3>1 DEF ReviewPaymentRequest, Collect, Decline
    <3>2. ASSUME NEW k \in Requests, NEW status, NEW reference,
                 RecordAdminReversal(k, status, reference)
          PROVE  Final
      BY <2>2, <3>2 DEF RecordAdminReversal, RecordFullReversal
    <3>3. ASSUME NEW k \in Requests,
                 MarkPayoutPaid(k) \/ \E trainerPaid \in BOOLEAN : AllocateRevenue(k, trainerPaid)
          PROVE  Final
      BY <3>3 DEF MarkPayoutPaid, AllocateRevenue, TypeOK
    <3> QED BY <2>5, <3>1, <3>2, <3>3 DEF OperatorStep, RevokeEntitlement, UpdateDiscount
  <2>6. CASE ProviderStep
    BY <2>6 DEF ProviderStep, Capture, OtherAmount, EndCharge, ReturnMoney, ledgerVars
  <2> QED BY <2>3, <2>4, <2>5, <2>6 DEF Next
<1> QED BY <1>1, MoneyInvariant, PTL DEF Spec, ReversedRevenueIsFinal

-----------------------------------------------------------------------------
(* The discount budget.  It needs no other invariant than the types: every   *)
(* write of a discount row checks or gives back what it takes.               *)

LEMMA SettleBudget ==
  ASSUME TypeOK, DiscountBudget, NEW k \in Requests,
         NEW outcome \in {"redeemed", "released"}, SettleDiscount(k, outcome)
  PROVE  DiscountBudget'
<1> DEFINE d == payment[k].code
<1>1. CASE redemption[k] = "reserved" /\ d \in Discounts
  <2>1. SUFFICES ASSUME NEW x \in Discounts, discount'[x].max # 0
                 PROVE  discount'[x].reserved + discount'[x].redeemed <= discount'[x].max
    BY DEF DiscountBudget
  <2>2. /\ discount[d] \in DiscountRows
        /\ discount[d].max \in Nat /\ discount[d].reserved \in Nat /\ discount[d].redeemed \in Nat
    BY <1>1 DEF TypeOK, DiscountRows
  <2>3. /\ discount'[d].max = discount[d].max
        /\ discount'[d].reserved = discount[d].reserved - 1
        /\ discount'[d].redeemed = IF outcome = "redeemed" THEN discount[d].redeemed + 1
                                                          ELSE discount[d].redeemed
        /\ \A y \in Discounts \ {d} : discount'[y] = discount[y]
    BY <1>1, <2>2 DEF SettleDiscount, TypeOK, DiscountRows
  <2>4. CASE x = d
    BY <1>1, <2>1, <2>2, <2>3, <2>4 DEF DiscountBudget
  <2>5. CASE x # d
    BY <2>1, <2>3, <2>5 DEF DiscountBudget
  <2> QED BY <2>4, <2>5
<1>2. CASE ~(redemption[k] = "reserved" /\ d \in Discounts)
  <2>1. discount' = discount
    BY <1>2 DEF SettleDiscount, TypeOK
  <2> QED BY <2>1 DEF DiscountBudget
<1> QED BY <1>1, <1>2

\* A limited discount is never promised to more requests than its limit, for
\* every number of concurrent checkouts and whatever limits are written.
THEOREM BudgetCorrect == Spec => []DiscountBudget
<1>1. Init => DiscountBudget
  <2> SUFFICES ASSUME Init PROVE DiscountBudget
    OBVIOUS
  <2>1. PICK limit \in [Discounts -> Limits] :
          discount = [d \in Discounts |->
            [status |-> "active", max |-> limit[d], reserved |-> 0, redeemed |-> 0]]
    BY DEF Init
  <2>2. \A d \in Discounts : limit[d] \in Nat
    BY CheckoutAssumption DEF CheckoutAssumption
  <2> QED BY <2>1, <2>2 DEF DiscountBudget
<1>2. TypeOK /\ DiscountBudget /\ [Next]_vars => DiscountBudget'
  <2> SUFFICES ASSUME TypeOK, DiscountBudget, [Next]_vars PROVE DiscountBudget'
    OBVIOUS
  <2>1. ASSUME UNCHANGED discount PROVE DiscountBudget'
    BY <2>1 DEF DiscountBudget
  <2>2. ASSUME NEW c \in Checkouts, CheckoutStep(c) PROVE DiscountBudget'
    <3>0. checkout[c] \in {Idle} \cup Inserting \cup Initiating
      BY DEF TypeOK
    <3>1. ASSUME NEW policy \in Policies, InsertNew(c, policy) PROVE DiscountBudget'
      <4> DEFINE x == checkout[c].code
      <4>1. CASE x = NoCode
        BY <2>1, <3>1, <4>1 DEF InsertNew
      <4>2. CASE x # NoCode
        <5>1. x \in Discounts
          BY <3>0, <3>1, <4>2 DEF InsertNew, Idle, Initiating, Inserting, Codes
        <5>2. Available(x) /\ discount' = [discount EXCEPT ![x].reserved = @ + 1]
          BY <3>1, <4>2 DEF InsertNew, Resolved
        <5>3. /\ discount[x] \in DiscountRows
              /\ discount[x].max \in Nat /\ discount[x].reserved \in Nat /\ discount[x].redeemed \in Nat
          BY <5>1 DEF TypeOK, DiscountRows
        <5>4. \/ discount[x].max = 0
              \/ discount[x].reserved + discount[x].redeemed < discount[x].max
          BY <5>2 DEF Available
        <5>5. discount' = [discount EXCEPT ![x] = [discount[x] EXCEPT !.reserved = @ + 1]]
          BY <5>1, <5>2 DEF TypeOK
        <5>6. /\ discount'[x].max = discount[x].max
              /\ discount'[x].reserved = discount[x].reserved + 1
              /\ discount'[x].redeemed = discount[x].redeemed
              /\ \A y \in Discounts \ {x} : discount'[y] = discount[y]
          BY <5>1, <5>3, <5>5 DEF TypeOK, DiscountRows
        <5>7. discount'[x].max # 0 =>
                discount'[x].reserved + discount'[x].redeemed <= discount'[x].max
          BY <5>3, <5>4, <5>6
        <5>8. \A y \in Discounts \ {x} : discount'[y].max # 0 =>
                discount'[y].reserved + discount'[y].redeemed <= discount'[y].max
          BY <5>6 DEF DiscountBudget
        <5>9. SUFFICES ASSUME NEW y \in Discounts, discount'[y].max # 0
                       PROVE  discount'[y].reserved + discount'[y].redeemed <= discount'[y].max
          BY DEF DiscountBudget
        <5> QED
          <6>1. CASE y = checkout[c].code
            BY <5>7, <5>9, <6>1
          <6>2. CASE y # checkout[c].code
            BY <5>8, <5>9, <6>2
          <6> QED BY <6>1, <6>2
      <4> QED BY <4>1, <4>2
    <3>2. CASE FailProviderSession(c)
      <4>1. checkout[c].request \in Requests
        BY <3>0, <3>2 DEF FailProviderSession, Idle, Initiating, Inserting
      <4>2. CASE MayFail(checkout[c])
        BY <3>2, <4>1, <4>2, SettleBudget DEF FailProviderSession, Decline
      <4>3. CASE ~MayFail(checkout[c])
        BY <2>1, <3>2, <4>3 DEF FailProviderSession
      <4> QED BY <4>2, <4>3
    <3> QED BY <2>1, <2>2, <3>1, <3>2
      DEF CheckoutStep, Lookup, InsertRefused, InsertLost, InitiateOK, InitiateError,
          AttachProviderSession, Abandon
  <2>3. ASSUME NEW e \in Events, Deliver(e) PROVE DiscountBudget'
    <3>1. e.request \in Requests
      BY DEF Events
    <3>2. CASE DeliverPaid(e)
      <4>1. CASE e.exact
        BY <3>1, <3>2, <4>1, SettleBudget DEF DeliverPaid, Collect
      <4>2. CASE ~e.exact
        BY <2>1, <3>2, <4>2 DEF DeliverPaid
      <4> QED BY <4>1, <4>2
    <3>3. CASE DeliverDeclined(e)
      BY <3>1, <3>3, SettleBudget DEF DeliverDeclined, Decline
    <3>4. CASE DeliverReversal(e)
      BY <2>1, <3>4 DEF DeliverReversal, RecordFullReversal
    <3> QED BY <2>1, <2>3, <3>2, <3>3, <3>4 DEF Deliver, DeliverToManual, DeliverSettled
  <2>4. ASSUME OperatorStep PROVE DiscountBudget'
    <3>1. ASSUME NEW k \in Requests, NEW decision, ReviewPaymentRequest(k, decision)
          PROVE  DiscountBudget'
      BY <3>1, SettleBudget DEF ReviewPaymentRequest, Collect, Decline
    <3>2. ASSUME NEW x \in Discounts, NEW max \in Limits, NEW status, UpdateDiscount(x, max, status)
          PROVE  DiscountBudget'
      <4>1. discount[x] \in DiscountRows
        BY DEF TypeOK
      <4>2. /\ discount'[x].max = max
            /\ discount'[x].reserved = discount[x].reserved
            /\ discount'[x].redeemed = discount[x].redeemed
            /\ \A y \in Discounts \ {x} : discount'[y] = discount[y]
        BY <3>2, <4>1 DEF UpdateDiscount, TypeOK, DiscountRows
      <4>3. SUFFICES ASSUME NEW y \in Discounts, discount'[y].max # 0
                     PROVE  discount'[y].reserved + discount'[y].redeemed <= discount'[y].max
        BY DEF DiscountBudget
      <4>4. max = 0 \/ max >= discount[x].reserved + discount[x].redeemed
        BY <3>2 DEF UpdateDiscount
      <4>5. max \in Nat /\ discount[x].reserved \in Nat /\ discount[x].redeemed \in Nat
        BY <4>1, CheckoutAssumption DEF CheckoutAssumption, DiscountRows
      <4>6. CASE y = x
        BY <4>2, <4>3, <4>4, <4>5, <4>6
      <4>7. CASE y # x
        BY <4>2, <4>3, <4>7 DEF DiscountBudget
      <4> QED BY <4>6, <4>7
    <3> QED BY <2>1, <2>4, <3>1, <3>2
      DEF OperatorStep, RecordAdminReversal, RecordFullReversal, RevokeEntitlement,
          MarkPayoutPaid, AllocateRevenue
  <2>5. CASE ProviderStep
    BY <2>1, <2>5 DEF ProviderStep, Capture, OtherAmount, EndCharge, ReturnMoney, ledgerVars
  <2> QED BY <2>1, <2>2, <2>3, <2>4, <2>5 DEF Next, vars
<1> QED BY <1>1, <1>2, TypeCorrect, PTL DEF Spec

-----------------------------------------------------------------------------
(* Refinement.  Seen through LedgerStatus and LedgerAccess, every step moves *)
(* one request of PaymentLedger or none.                                     *)

\* A step that writes the status or the grant of at most one request.
LEMMA OneMove ==
  ASSUME NEW k \in Requests, NEW to, NEW gives \in BOOLEAN,
         LedgerStatus'[k] = to, LedgerAccess'[k] = gives,
         \A j \in Requests \ {k} : /\ payment'[j].status = payment[j].status
                                  /\ entitlement'[j] = entitlement[j]
  PROVE  /\ LedgerStatus' = [LedgerStatus EXCEPT ![k] = to]
         /\ LedgerAccess' = [LedgerAccess EXCEPT ![k] = gives]
<1>1. LedgerStatus' = [LedgerStatus EXCEPT ![k] = to]
  <2>1. \A j \in Requests \ {k} : LedgerStatus'[j] = LedgerStatus[j]
    BY DEF LedgerStatus
  <2> QED BY <2>1 DEF LedgerStatus
<1>2. LedgerAccess' = [LedgerAccess EXCEPT ![k] = gives]
  <2>1. \A j \in Requests \ {k} : LedgerAccess'[j] = LedgerAccess[j]
    BY DEF LedgerAccess
  <2> QED BY <2>1 DEF LedgerAccess
<1> QED BY <1>1, <1>2

LEMMA SameLedger ==
  ASSUME \A j \in Requests : payment'[j].status = payment[j].status,
         UNCHANGED entitlement
  PROVE  UNCHANGED Ledger!ledgerState
BY DEF LedgerStatus, LedgerAccess, Ledger!ledgerState

LEMMA CollectMoves ==
  ASSUME TypeOK, MoneyInv, NEW k \in Requests,
         NEW source \in {"payment_request", "payment_webhook"},
         payment[k].status = "pending", Collect(k, source)
  PROVE  Ledger!Pay(k)
<1>1. /\ payment'[k].status = "paid"
      /\ \A i \in Requests \ {k} : payment'[i] = payment[i]
  BY WriteEffect DEF Collect
<1>2. entitlement[k].status = "none"
  BY DEF MoneyInv, Agrees, Collected
<1>3. /\ entitlement'[k].status = "active"
      /\ \A i \in Requests \ {k} : entitlement'[i] = entitlement[i]
  <2>1. GrantEntitlement(k, source)
    BY DEF Collect
  <2>2. /\ entitlement'[k] = [status |-> "active", source |-> source]
        /\ \A i \in Requests \ {k} : entitlement'[i] = entitlement[i]
    BY <1>2, <2>1, GrantEffect
  <2> QED BY <2>2
<1>4. /\ LedgerStatus[k] = "pending" /\ LedgerStatus'[k] = "paid"
      /\ LedgerAccess'[k] = TRUE
  BY <1>1, <1>3 DEF LedgerStatus, LedgerAccess, Outcome, Reversed, Declined
<1>5. /\ LedgerStatus' = [LedgerStatus EXCEPT ![k] = "paid"]
      /\ LedgerAccess' = [LedgerAccess EXCEPT ![k] = TRUE]
  BY <1>1, <1>3, <1>4, OneMove
<1> QED BY <1>4, <1>5 DEF Ledger!Pay, Ledger!Move

LEMMA DeclineMoves ==
  ASSUME TypeOK, MoneyInv, NEW k \in Requests, NEW status \in Declined, NEW session,
         payment[k].status = "pending", Decline(k, status, session)
  PROVE  Ledger!Decline(k)
<1>1. /\ payment'[k].status = status
      /\ \A i \in Requests \ {k} : payment'[i] = payment[i]
  BY WriteEffect DEF Decline
<1>2. entitlement[k].status = "none" /\ UNCHANGED entitlement
  BY DEF MoneyInv, Agrees, Collected, Decline
<1>3. /\ LedgerStatus[k] = "pending" /\ LedgerStatus'[k] = "declined"
      /\ LedgerAccess'[k] = FALSE
  BY <1>1, <1>2 DEF LedgerStatus, LedgerAccess, Outcome, Reversed, Declined
<1>4. /\ LedgerStatus' = [LedgerStatus EXCEPT ![k] = "declined"]
      /\ LedgerAccess' = [LedgerAccess EXCEPT ![k] = FALSE]
  BY <1>1, <1>2, <1>3, OneMove
<1> QED BY <1>3, <1>4 DEF Ledger!Decline, Ledger!Move

LEMMA ReversalMoves ==
  ASSUME TypeOK, MoneyInv, NEW k \in Requests, NEW status \in Reversed, NEW reference,
         RecordFullReversal(k, status, reference)
  PROVE  Ledger!Reverse(k)
<1>1. /\ payment[k].status = "paid" /\ payment'[k].status = status
      /\ \A i \in Requests \ {k} : payment'[i] = payment[i]
  BY WriteEffect DEF RecordFullReversal
<1>2. /\ entitlement'[k].status # "active"
      /\ \A i \in Requests \ {k} : entitlement'[i] = entitlement[i]
  <2>1. entitlement[k].source # "none" /\ entitlement[k].source \in {"none", "payment_request", "payment_webhook"}
    BY <1>1 DEF MoneyInv, Agrees, Collected, TypeOK
  <2> QED BY <2>1 DEF RecordFullReversal, RevokeGrant, TypeOK
<1>3. /\ LedgerStatus[k] = "paid" /\ LedgerStatus'[k] = "reversed"
      /\ LedgerAccess'[k] = FALSE
  BY <1>1, <1>2 DEF LedgerStatus, LedgerAccess, Outcome, Reversed, Declined
<1>4. /\ LedgerStatus' = [LedgerStatus EXCEPT ![k] = "reversed"]
      /\ LedgerAccess' = [LedgerAccess EXCEPT ![k] = FALSE]
  BY <1>1, <1>2, <1>3, OneMove
<1> QED BY <1>3, <1>4 DEF Ledger!Reverse, Ledger!Move

LEMMA CheckoutMoves ==
  ASSUME TypeOK, MoneyInv, NEW c \in Checkouts, CheckoutStep(c)
  PROVE  [Ledger!Next]_(Ledger!ledgerState)
<1>0. checkout[c] \in {Idle} \cup Inserting \cup Initiating
  BY DEF TypeOK
<1>1. ASSUME UNCHANGED <<payment, entitlement>> PROVE UNCHANGED Ledger!ledgerState
  BY <1>1, SameLedger
<1>2. ASSUME NEW policy \in Policies, InsertNew(c, policy)
      PROVE  Ledger!Next
  <2>1. PICK k \in Requests : k = checkout[c].request
    BY <1>0, <1>2 DEF InsertNew, Idle, Initiating, Inserting
  <2>2. /\ payment[k].status = "absent" /\ payment'[k].status = "pending"
        /\ \A i \in Requests \ {k} : payment'[i] = payment[i]
        /\ UNCHANGED entitlement
    BY <1>2, <2>1 DEF InsertNew, TypeOK, Exists
  <2>3. entitlement[k].status = "none"
    BY <2>2 DEF MoneyInv, Agrees, Collected
  <2>4. /\ LedgerStatus[k] = "absent" /\ LedgerStatus'[k] = "pending"
        /\ LedgerAccess'[k] = FALSE
    BY <2>2, <2>3 DEF LedgerStatus, LedgerAccess, Outcome, Reversed, Declined
  <2>5. /\ LedgerStatus' = [LedgerStatus EXCEPT ![k] = "pending"]
        /\ LedgerAccess' = [LedgerAccess EXCEPT ![k] = FALSE]
    BY <2>2, <2>4, OneMove
  <2> QED BY <2>4, <2>5 DEF Ledger!Next, Ledger!Open, Ledger!Move
<1>3. CASE AttachProviderSession(c)
  <2>1. PICK k \in Requests : k = checkout[c].request
    BY <1>0, <1>3 DEF AttachProviderSession, Idle, Initiating, Inserting
  <2>2. /\ UNCHANGED entitlement
        /\ \/ UNCHANGED payment
           \/ payment[k].status = "pending" /\ WritePayment(k, "pending", "initiated")
    BY <1>3, <2>1 DEF AttachProviderSession
  <2>3. \A j \in Requests : payment'[j].status = payment[j].status
    BY <2>2, WriteEffect
  <2> QED BY <2>2, <2>3, SameLedger
<1>4. CASE FailProviderSession(c)
  <2>1. PICK k \in Requests : k = checkout[c].request
    BY <1>0, <1>4 DEF FailProviderSession, Idle, Initiating, Inserting
  <2>2. CASE MayFail(checkout[c])
    <3>1. payment[k].status = "pending" /\ Decline(k, "failed", "failed")
      BY <1>4, <2>1, <2>2 DEF FailProviderSession, MayFail
    <3> QED BY <3>1, DeclineMoves DEF Declined, Ledger!Next
  <2>3. CASE ~MayFail(checkout[c])
    BY <1>1, <1>4, <2>3 DEF FailProviderSession
  <2> QED BY <2>2, <2>3
<1> QED BY <1>1, <1>2, <1>3, <1>4
  DEF CheckoutStep, Lookup, InsertRefused, InsertLost, InitiateOK, InitiateError, Abandon

LEMMA DeliverMoves ==
  ASSUME TypeOK, MoneyInv, NEW e \in Events, Deliver(e)
  PROVE  [Ledger!Next]_(Ledger!ledgerState)
<1>0. e.request \in Requests
  BY DEF Events
<1>1. ASSUME UNCHANGED <<payment, entitlement>> PROVE UNCHANGED Ledger!ledgerState
  BY <1>1, SameLedger
<1>2. CASE DeliverPaid(e)
  <2>1. CASE e.exact
    <3>1. Ledger!Pay(e.request)
      BY <1>0, <1>2, <2>1, CollectMoves DEF DeliverPaid
    <3> QED BY <1>0, <3>1 DEF Ledger!Next
  <2>2. CASE ~e.exact
    BY <1>1, <1>2, <2>2 DEF DeliverPaid
  <2> QED BY <2>1, <2>2
<1>3. CASE DeliverDeclined(e)
  <2>1. Ledger!Decline(e.request)
    BY <1>0, <1>3, DeclineMoves DEF DeliverDeclined, Declined
  <2> QED BY <1>0, <2>1 DEF Ledger!Next
<1>4. CASE DeliverReversal(e)
  <2>1. CASE e.exact
    <3>1. Ledger!Reverse(e.request)
      BY <1>0, <1>4, <2>1, ReversalMoves DEF DeliverReversal
    <3> QED BY <1>0, <3>1 DEF Ledger!Next
  <2>2. CASE ~e.exact
    BY <1>1, <1>4, <2>2 DEF DeliverReversal
  <2> QED BY <2>1, <2>2
<1> QED BY <1>1, <1>2, <1>3, <1>4 DEF Deliver, DeliverToManual, DeliverSettled

LEMMA OperatorMoves ==
  ASSUME TypeOK, MoneyInv, OperatorStep
  PROVE  [Ledger!Next]_(Ledger!ledgerState)
<1>1. ASSUME UNCHANGED <<payment, entitlement>> PROVE UNCHANGED Ledger!ledgerState
  BY <1>1, SameLedger
<1>2. ASSUME NEW k \in Requests, NEW decision \in {"paid", "rejected", "cancelled"},
             ReviewPaymentRequest(k, decision)
      PROVE  Ledger!Next
  <2>1. CASE decision = "paid"
    BY <1>2, <2>1, CollectMoves DEF ReviewPaymentRequest, Ledger!Next
  <2>2. CASE decision # "paid"
    <3>1. decision \in Declined
      BY <2>2 DEF Declined
    <3> QED BY <1>2, <2>2, <3>1, DeclineMoves DEF ReviewPaymentRequest, Ledger!Next
  <2> QED BY <2>1, <2>2
<1>3. ASSUME NEW k \in Requests, NEW status \in Reversed, NEW reference \in References,
             RecordAdminReversal(k, status, reference)
      PROVE  Ledger!Next
  BY <1>3, ReversalMoves DEF RecordAdminReversal, Ledger!Next
<1>4. ASSUME NEW k \in Requests, RevokeEntitlement(k)
      PROVE  Ledger!Next
  <2>1. /\ UNCHANGED payment
        /\ entitlement[k].status = "active" /\ entitlement'[k].status = "revoked"
        /\ \A i \in Requests \ {k} : entitlement'[i] = entitlement[i]
    BY <1>4 DEF RevokeEntitlement, TypeOK
  <2>2. payment[k].status = "paid"
    BY <2>1 DEF MoneyInv, Agrees
  <2>3. /\ LedgerStatus[k] = "paid" /\ LedgerStatus'[k] = "paid"
        /\ LedgerAccess'[k] = FALSE
    BY <2>1, <2>2 DEF LedgerStatus, LedgerAccess, Outcome, Reversed, Declined
  <2>4. /\ LedgerStatus' = [LedgerStatus EXCEPT ![k] = "paid"]
        /\ LedgerAccess' = [LedgerAccess EXCEPT ![k] = FALSE]
    BY <2>1, <2>3, OneMove
  <2> QED BY <2>3, <2>4 DEF Ledger!Next, Ledger!Withdraw, Ledger!Move
<1> QED BY <1>1, <1>2, <1>3, <1>4 DEF OperatorStep, MarkPayoutPaid, AllocateRevenue, UpdateDiscount

\* The pipeline implements the abstract ledger for every number of requests
\* and concurrent calls: a request is opened once and settles once, and gives
\* access only while it is paid.
THEOREM LedgerCorrect == Spec => ImplementsLedger
<1>1. Init => Ledger!Init
  <2> SUFFICES ASSUME Init PROVE Ledger!Init
    OBVIOUS
  <2>1. \A k \in Requests : payment[k].status = "absent" /\ entitlement[k].status = "none"
    BY DEF Init, NoPayment
  <2>2. LedgerStatus = [k \in Requests |-> "absent"]
    BY <2>1 DEF LedgerStatus, Outcome, Reversed, Declined
  <2>3. LedgerAccess = [k \in Requests |-> FALSE]
    BY <2>1 DEF LedgerAccess
  <2> QED BY <2>2, <2>3 DEF Ledger!Init
<1>2. TypeOK /\ MoneyInv /\ [Next]_vars => [Ledger!Next]_(Ledger!ledgerState)
  <2> SUFFICES ASSUME TypeOK, MoneyInv, [Next]_vars
               PROVE  [Ledger!Next]_(Ledger!ledgerState)
    OBVIOUS
  <2>1. CASE UNCHANGED vars
    BY <2>1, SameLedger DEF vars
  <2>2. CASE ProviderStep
    <3>1. UNCHANGED <<payment, entitlement>>
      BY <2>2 DEF ProviderStep, Capture, OtherAmount, EndCharge, ReturnMoney, ledgerVars
    <3> QED BY <3>1, SameLedger
  <2> QED BY <2>1, <2>2, CheckoutMoves, DeliverMoves, OperatorMoves DEF Next
<1> QED BY <1>1, <1>2, MoneyInvariant, PTL DEF Spec, ImplementsLedger, Ledger!Spec

-----------------------------------------------------------------------------
(* Captured money and its session.  A hosted charge is captured through the  *)
(* URL of a session that is on record, and no later write of the row takes   *)
(* the session back: the failure path asks for a row without one.            *)

Taken == {"captured", "refunded", "chargeback"}

SessionOf(k) ==
  /\ payment[k].status = "absent" => payment[k].mode = "none"
  /\ charge[k] \in Taken =>
       /\ payment[k].status # "absent"
       /\ payment[k].mode = "payment_link" => payment[k].session = "initiated"

SessionInv == \A k \in Requests : SessionOf(k)

\* A write keeps the mode of its row.
LEMMA WriteKeepsMode ==
  ASSUME TypeOK, NEW k \in Requests, NEW status, NEW session,
         WritePayment(k, status, session)
  PROVE  /\ payment'[k].status = status
         /\ payment'[k].session = session
         /\ payment'[k].mode = payment[k].mode
         /\ \A j \in Requests \ {k} : payment'[j] = payment[j]
<1>1. payment[k] \in Payments
  BY DEF TypeOK
<1> QED BY <1>1 DEF WritePayment, TypeOK, Payments

\* A write that leaves the session as it was, or records one.
LEMMA WriteSession ==
  ASSUME TypeOK, SessionInv, UNCHANGED charge, NEW k \in Requests,
         NEW status, NEW session, status # "absent", payment[k].status = "pending" \/ payment[k].status = "paid",
         session \in {payment[k].session, "initiated"},
         WritePayment(k, status, session)
  PROVE  SessionInv'
<1>1. SUFFICES ASSUME NEW j \in Requests PROVE SessionOf(j)'
  BY DEF SessionInv
<1>2. SessionOf(j)
  BY DEF SessionInv
<1>3. /\ payment'[k].status = status
      /\ payment'[k].session = session
      /\ payment'[k].mode = payment[k].mode
      /\ \A i \in Requests \ {k} : payment'[i] = payment[i]
  BY WriteKeepsMode
<1>4. CASE j = k
  BY <1>2, <1>3, <1>4 DEF SessionOf
<1>5. CASE j # k
  BY <1>2, <1>3, <1>5 DEF SessionOf
<1> QED BY <1>4, <1>5

LEMMA CheckoutSession ==
  ASSUME TypeOK, SessionInv, NEW c \in Checkouts, CheckoutStep(c)
  PROVE  SessionInv'
<1>0. checkout[c] \in {Idle} \cup Inserting \cup Initiating
  BY DEF TypeOK
<1>1. ASSUME UNCHANGED <<payment, charge>> PROVE SessionInv'
  BY <1>1 DEF SessionInv, SessionOf
<1>2. ASSUME NEW policy \in Policies, InsertNew(c, policy) PROVE SessionInv'
  <2>1. PICK k \in Requests : k = checkout[c].request
    BY <1>0, <1>2 DEF InsertNew, Idle, Initiating, Inserting
  <2>2. /\ payment[k].status = "absent" /\ payment'[k].status = "pending"
        /\ \A i \in Requests \ {k} : payment'[i] = payment[i]
        /\ UNCHANGED charge
    BY <1>2, <2>1 DEF InsertNew, TypeOK, Exists
  <2>3. charge[k] \notin Taken
    BY <2>2 DEF SessionInv, SessionOf
  <2>4. SUFFICES ASSUME NEW j \in Requests PROVE SessionOf(j)'
    BY DEF SessionInv
  <2>5. CASE j = k
    BY <2>2, <2>3, <2>5 DEF SessionOf
  <2>6. CASE j # k
    BY <2>2, <2>6 DEF SessionInv, SessionOf
  <2> QED BY <2>5, <2>6
<1>3. ASSUME UNCHANGED payment, NEW k \in Requests,
             charge' = charge \/ charge' = [charge EXCEPT ![k] = "open"]
      PROVE  SessionInv'
  <2>1. \A j \in Requests : charge'[j] \in Taken => charge[j] \in Taken
    BY <1>3 DEF TypeOK, Taken
  <2> QED BY <1>3, <2>1 DEF SessionInv, SessionOf
<1>4. CASE InitiateOK(c)
  <2>1. checkout[c].request \in Requests
    BY <1>0, <1>4 DEF InitiateOK, Idle, Initiating, Inserting
  <2> QED BY <1>3, <1>4, <2>1 DEF InitiateOK
<1>5. CASE InitiateError(c)
  <2>1. checkout[c].request \in Requests
    BY <1>0, <1>5 DEF InitiateError, Idle, Initiating, Inserting
  <2> QED BY <1>3, <1>5, <2>1 DEF InitiateError
<1>6. CASE AttachProviderSession(c)
  <2>1. PICK k \in Requests : k = checkout[c].request
    BY <1>0, <1>6 DEF AttachProviderSession, Idle, Initiating, Inserting
  <2>2. /\ UNCHANGED charge
        /\ \/ UNCHANGED payment
           \/ payment[k].status = "pending" /\ WritePayment(k, "pending", "initiated")
    BY <1>6, <2>1 DEF AttachProviderSession
  <2> QED BY <1>1, <2>2, WriteSession
<1>7. CASE FailProviderSession(c)
  <2>1. PICK k \in Requests : k = checkout[c].request
    BY <1>0, <1>7 DEF FailProviderSession, Idle, Initiating, Inserting
  <2>2. CASE MayFail(checkout[c])
    <3>1. /\ payment[k].mode = "payment_link" /\ payment[k].session = "none"
          /\ payment[k].status = "pending"
          /\ WritePayment(k, "failed", "failed")
          /\ UNCHANGED charge
      BY <1>7, <2>1, <2>2 DEF FailProviderSession, MayFail, Decline
    <3>2. charge[k] \notin Taken
      BY <3>1 DEF SessionInv, SessionOf
    <3>3. /\ payment'[k].status = "failed"
          /\ \A i \in Requests \ {k} : payment'[i] = payment[i]
      BY <3>1, WriteKeepsMode
    <3>4. SUFFICES ASSUME NEW j \in Requests PROVE SessionOf(j)'
      BY DEF SessionInv
    <3>5. CASE j = k
      BY <3>1, <3>2, <3>3, <3>5 DEF SessionOf
    <3>6. CASE j # k
      BY <3>1, <3>3, <3>6 DEF SessionInv, SessionOf
    <3> QED BY <3>5, <3>6
  <2>3. CASE ~MayFail(checkout[c])
    BY <1>1, <1>7, <2>3 DEF FailProviderSession
  <2> QED BY <2>2, <2>3
<1> QED BY <1>1, <1>2, <1>4, <1>5, <1>6, <1>7
  DEF CheckoutStep, Lookup, InsertRefused, InsertLost, Abandon

LEMMA DeliverSession ==
  ASSUME TypeOK, SessionInv, NEW e \in Events, Deliver(e)
  PROVE  SessionInv'
<1>0. e.request \in Requests
  BY DEF Events
<1>1. ASSUME UNCHANGED <<payment, charge>> PROVE SessionInv'
  BY <1>1 DEF SessionInv, SessionOf
<1>2. CASE DeliverPaid(e)
  BY <1>0, <1>1, <1>2, WriteSession DEF DeliverPaid, Collect
<1>3. CASE DeliverDeclined(e)
  <2>1. e.status # "absent"
    BY <1>3 DEF DeliverDeclined
  <2> QED BY <1>0, <1>3, <2>1, WriteSession DEF DeliverDeclined, Decline
<1>4. CASE DeliverReversal(e)
  <2>1. e.status # "absent"
    BY <1>4 DEF DeliverReversal, Reversed
  <2> QED BY <1>0, <1>1, <1>4, <2>1, WriteSession DEF DeliverReversal, RecordFullReversal
<1> QED BY <1>1, <1>2, <1>3, <1>4 DEF Deliver, DeliverToManual, DeliverSettled

LEMMA OperatorSession ==
  ASSUME TypeOK, SessionInv, OperatorStep
  PROVE  SessionInv'
<1>1. ASSUME UNCHANGED <<payment, charge>> PROVE SessionInv'
  BY <1>1 DEF SessionInv, SessionOf
<1>2. ASSUME NEW k \in Requests, NEW decision \in {"paid", "rejected", "cancelled"},
             ReviewPaymentRequest(k, decision)
      PROVE  SessionInv'
  BY <1>2, WriteSession DEF ReviewPaymentRequest, Collect, Decline
<1>3. ASSUME NEW k \in Requests, NEW status \in Reversed, NEW reference \in References,
             RecordAdminReversal(k, status, reference)
      PROVE  SessionInv'
  <2>1. status # "absent"
    BY DEF Reversed
  <2> QED BY <1>3, <2>1, WriteSession DEF RecordAdminReversal, RecordFullReversal
<1> QED BY <1>1, <1>2, <1>3
  DEF OperatorStep, RevokeEntitlement, MarkPayoutPaid, AllocateRevenue, UpdateDiscount

LEMMA ProviderSession ==
  ASSUME TypeOK, SessionInv, ProviderStep
  PROVE  SessionInv'
<1>1. UNCHANGED payment
  BY DEF ProviderStep, Capture, OtherAmount, EndCharge, ReturnMoney, ledgerVars
<1>2. ASSUME NEW k \in Requests, NEW to, charge' = [charge EXCEPT ![k] = to],
             to \in Taken => SessionOf(k)' PROVE SessionInv'
  <2>1. SUFFICES ASSUME NEW j \in Requests PROVE SessionOf(j)'
    BY DEF SessionInv
  <2>2. /\ charge'[k] = to
        /\ \A i \in Requests \ {k} : charge'[i] = charge[i]
    BY <1>2 DEF TypeOK
  <2> QED BY <1>1, <1>2, <2>2 DEF SessionInv, SessionOf
<1>3. ASSUME NEW k \in Requests, Capture(k) PROVE SessionInv'
  <2>1. \/ payment[k].mode = "payment_link" /\ payment[k].session = "initiated"
        \/ payment[k].mode = "webhook"
    BY <1>3 DEF Capture
  <2>2. payment[k].status # "absent"
    BY <2>1 DEF SessionInv, SessionOf
  <2>3. SessionOf(k)'
    BY <1>1, <2>1, <2>2 DEF SessionOf
  <2> QED BY <1>2, <1>3, <2>3 DEF Capture
<1>4. ASSUME NEW k \in Requests, NEW status \in {"failed", "cancelled"}, EndCharge(k, status)
      PROVE  SessionInv'
  <2>1. status \notin Taken
    BY DEF Taken
  <2> QED BY <1>2, <1>4, <2>1 DEF EndCharge
<1>5. ASSUME NEW k \in Requests, NEW status \in Reversed, ReturnMoney(k, status)
      PROVE  SessionInv'
  <2>1. charge[k] \in Taken
    BY <1>5 DEF ReturnMoney, Taken
  <2>2. SessionOf(k)'
    BY <1>1, <2>1 DEF SessionInv, SessionOf
  <2> QED BY <1>2, <1>5, <2>2 DEF ReturnMoney
<1>6. ASSUME NEW k \in Requests, OtherAmount(k) PROVE SessionInv'
  BY <1>1, <1>6 DEF OtherAmount, SessionInv, SessionOf
<1> QED BY <1>3, <1>4, <1>5, <1>6 DEF ProviderStep

\* Money captured on a hosted page belongs to a request whose session is on
\* record, however many calls with one key fail, retry and race.
THEOREM CapturedCorrect == Spec => []CapturedHasSession
<1>1. Init => SessionInv
  BY DEF Init, SessionInv, SessionOf, NoPayment, Taken
<1>2. TypeOK /\ SessionInv /\ [Next]_vars => SessionInv'
  <2> SUFFICES ASSUME TypeOK, SessionInv, [Next]_vars PROVE SessionInv'
    OBVIOUS
  <2>1. CASE Next
    BY <2>1, CheckoutSession, DeliverSession, OperatorSession, ProviderSession DEF Next
  <2>2. CASE UNCHANGED vars
    BY <2>2 DEF vars, SessionInv, SessionOf
  <2> QED BY <2>1, <2>2
<1>3. SessionInv => CapturedHasSession
  BY DEF SessionInv, SessionOf, CapturedHasSession, Taken
<1> QED BY <1>1, <1>2, <1>3, TypeCorrect, PTL DEF Spec

-----------------------------------------------------------------------------
(* The evidence of a grant.  It rests on MoneyInv: a pending request has no  *)
(* grant, so the event that is applied to it is the one that grants, and an  *)
(* operator's grant finds no event that was applied before it.               *)

Grants(e, k) ==
  entitlement[k].source = "payment_webhook" /\ e.status = "paid" /\ e.exact

EvidenceOf(k) ==
  /\ entitlement[k].status = "none" => entitlement[k].source = "none"
  /\ \A e \in Events : e.request = k => (ledger[e] = "paid_granted" <=> Grants(e, k))

EvidenceInv == \A k \in Requests : EvidenceOf(k)

\* A step that applies no granting event and keeps what a grant names.
LEMMA EvidenceFrame ==
  ASSUME EvidenceInv,
         \A k \in Requests : /\ entitlement'[k].source = entitlement[k].source
                             /\ entitlement'[k].status = "none" => entitlement[k].status = "none",
         \A e \in Events : ledger'[e] = "paid_granted" <=> ledger[e] = "paid_granted"
  PROVE  EvidenceInv'
BY DEF EvidenceInv, EvidenceOf, Grants

LEMMA RevokeKeepsSource ==
  ASSUME TypeOK, NEW k \in Requests, RevokeGrant(k)
  PROVE  \A j \in Requests : /\ entitlement'[j].source = entitlement[j].source
                             /\ entitlement'[j].status = "none" => entitlement[j].status = "none"
BY DEF RevokeGrant, TypeOK

LEMMA MarkEffect ==
  ASSUME TypeOK, NEW e \in Events, NEW result, Mark(e, result)
  PROVE  ledger'[e] = result /\ \A f \in Events \ {e} : ledger'[f] = ledger[f]
BY DEF TypeOK, Mark

LEMMA PaidEvidence ==
  ASSUME TypeOK, MoneyInv, EvidenceInv, NEW e \in Events, e.exact, DeliverPaid(e)
  PROVE  EvidenceInv'
<1>0. PICK k \in Requests : k = e.request
  BY DEF Events
<1>1. /\ payment[k].status = "pending" /\ e.status = "paid"
      /\ GrantEntitlement(k, "payment_webhook") /\ Mark(e, "paid_granted")
  BY <1>0 DEF DeliverPaid, Collect
<1>2. entitlement[k].status = "none" /\ entitlement[k].source = "none"
  BY <1>1 DEF MoneyInv, Agrees, Collected, EvidenceInv, EvidenceOf
<1>3. /\ entitlement'[k] = [status |-> "active", source |-> "payment_webhook"]
      /\ \A j \in Requests \ {k} : entitlement'[j] = entitlement[j]
  BY <1>1, <1>2, GrantEffect
<1>4. ledger'[e] = "paid_granted" /\ \A f \in Events \ {e} : ledger'[f] = ledger[f]
  BY <1>1, MarkEffect
<1>5. \A f \in Events : f.request = k => ledger[f] # "paid_granted"
  BY <1>2 DEF EvidenceInv, EvidenceOf, Grants
<1>6. \A f \in Events : f.request = k /\ f.status = "paid" /\ f.exact => f = e
  BY <1>0, <1>1 DEF Events
<1>7. ASSUME NEW j \in Requests \ {k} PROVE EvidenceOf(j)'
  <2>1. \A f \in Events : f.request = j => f # e
    BY <1>0
  <2> QED BY <1>3, <1>4, <2>1 DEF EvidenceInv, EvidenceOf, Grants
<1>8. EvidenceOf(k)'
  <2>1. \A f \in Events \ {e} : f.request = k => ledger'[f] # "paid_granted" /\ ~Grants(f, k)'
    BY <1>4, <1>5, <1>6 DEF Grants
  <2>2. Grants(e, k)'
    BY <1>1, <1>3 DEF Grants
  <2> QED BY <1>3, <1>4, <2>1, <2>2 DEF EvidenceOf
<1> QED BY <1>7, <1>8 DEF EvidenceInv

LEMMA DeliverEvidence ==
  ASSUME TypeOK, MoneyInv, EvidenceInv, NEW e \in Events, Deliver(e)
  PROVE  EvidenceInv'
<1>0. e.request \in Requests /\ ledger[e] = "unseen"
  BY DEF Events, Deliver, DeliverToManual, DeliverPaid, DeliverDeclined, DeliverReversal,
     DeliverSettled, ForProvider, Deliverable
<1>1. ASSUME NEW result, result # "paid_granted", Mark(e, result),
             \A k \in Requests : /\ entitlement'[k].source = entitlement[k].source
                                 /\ entitlement'[k].status = "none" => entitlement[k].status = "none"
      PROVE  EvidenceInv'
  <2>1. \A f \in Events : ledger'[f] = "paid_granted" <=> ledger[f] = "paid_granted"
    BY <1>0, <1>1, MarkEffect
  <2> QED BY <1>1, <2>1, EvidenceFrame
<1>2. ASSUME NEW result, result # "paid_granted", Mark(e, result), UNCHANGED entitlement
      PROVE  EvidenceInv'
  BY <1>1, <1>2
<1>3. CASE DeliverPaid(e)
  <2>1. CASE e.exact
    BY <1>3, <2>1, PaidEvidence
  <2>2. CASE ~e.exact
    BY <1>2, <1>3, <2>2 DEF DeliverPaid
  <2> QED BY <2>1, <2>2
<1>4. CASE DeliverReversal(e)
  <2>1. CASE e.exact
    BY <1>0, <1>1, <1>4, <2>1, RevokeKeepsSource DEF DeliverReversal, RecordFullReversal
  <2>2. CASE ~e.exact
    BY <1>2, <1>4, <2>2 DEF DeliverReversal
  <2> QED BY <2>1, <2>2
<1> QED BY <1>2, <1>3, <1>4
  DEF Deliver, DeliverToManual, DeliverDeclined, Decline, DeliverSettled

LEMMA OperatorEvidence ==
  ASSUME TypeOK, MoneyInv, EvidenceInv, OperatorStep
  PROVE  EvidenceInv'
<1>1. UNCHANGED ledger
  BY DEF OperatorStep, ReviewPaymentRequest, RecordAdminReversal, RevokeEntitlement,
     MarkPayoutPaid, AllocateRevenue, UpdateDiscount
<1>2. ASSUME UNCHANGED entitlement PROVE EvidenceInv'
  BY <1>1, <1>2, EvidenceFrame
<1>3. ASSUME NEW k \in Requests, NEW decision, ReviewPaymentRequest(k, decision)
      PROVE  EvidenceInv'
  <2>1. CASE decision = "paid"
    <3>1. entitlement[k].status = "none" /\ entitlement[k].source = "none"
      BY <1>3 DEF ReviewPaymentRequest, MoneyInv, Agrees, Collected, EvidenceInv, EvidenceOf
    <3>2. /\ entitlement'[k] = [status |-> "active", source |-> "payment_request"]
          /\ \A j \in Requests \ {k} : entitlement'[j] = entitlement[j]
      <4>1. GrantEntitlement(k, "payment_request")
        BY <1>3, <2>1 DEF ReviewPaymentRequest, Collect
      <4> QED BY <3>1, <4>1, GrantEffect
    <3>3. SUFFICES ASSUME NEW j \in Requests PROVE EvidenceOf(j)'
      BY DEF EvidenceInv
    <3>4. CASE j = k
      BY <1>1, <3>1, <3>2, <3>4 DEF EvidenceInv, EvidenceOf, Grants
    <3>5. CASE j # k
      BY <1>1, <3>2, <3>5 DEF EvidenceInv, EvidenceOf, Grants
    <3> QED BY <3>4, <3>5
  <2>2. CASE decision # "paid"
    BY <1>2, <1>3, <2>2 DEF ReviewPaymentRequest, Decline
  <2> QED BY <2>1, <2>2
<1>4. ASSUME NEW k \in Requests, NEW status, NEW reference,
             RecordAdminReversal(k, status, reference)
      PROVE  EvidenceInv'
  <2>1. RevokeGrant(k)
    BY <1>4 DEF RecordAdminReversal, RecordFullReversal
  <2> QED BY <1>1, <2>1, RevokeKeepsSource, EvidenceFrame
<1>5. ASSUME NEW k \in Requests, RevokeEntitlement(k) PROVE EvidenceInv'
  <2>1. \A j \in Requests : /\ entitlement'[j].source = entitlement[j].source
                            /\ entitlement'[j].status = "none" => entitlement[j].status = "none"
    BY <1>5 DEF RevokeEntitlement, TypeOK
  <2> QED BY <1>1, <2>1, EvidenceFrame
<1> QED BY <1>2, <1>3, <1>4, <1>5 DEF OperatorStep, MarkPayoutPaid, AllocateRevenue, UpdateDiscount

\* Access granted by the provider's word rests on exactly one applied event
\* with the exact amount, and access granted by an operator on none.
THEOREM EvidenceCorrect == Spec => []GrantHasEvidence
<1>1. Init => EvidenceInv
  BY DEF Init, EvidenceInv, EvidenceOf, Grants
<1>2. TypeOK /\ MoneyInv /\ EvidenceInv /\ [Next]_vars => EvidenceInv'
  <2> SUFFICES ASSUME TypeOK, MoneyInv, EvidenceInv, [Next]_vars PROVE EvidenceInv'
    OBVIOUS
  <2>1. ASSUME UNCHANGED <<entitlement, ledger>> PROVE EvidenceInv'
    BY <2>1, EvidenceFrame
  <2>2. ASSUME NEW c \in Checkouts, CheckoutStep(c) PROVE EvidenceInv'
    BY <2>1, <2>2
    DEF CheckoutStep, Lookup, InsertRefused, InsertNew, InsertLost, InitiateOK, InitiateError,
        AttachProviderSession, FailProviderSession, Decline, Abandon
  <2>3. CASE ProviderStep
    BY <2>1, <2>3 DEF ProviderStep, Capture, OtherAmount, EndCharge, ReturnMoney, ledgerVars
  <2> QED BY <2>1, <2>2, <2>3, DeliverEvidence, OperatorEvidence DEF Next, vars
<1>3. EvidenceInv => GrantHasEvidence
  <2> SUFFICES ASSUME EvidenceInv, NEW k \in Requests
               PROVE  {e \in Events : e.request = k /\ ledger[e] = "paid_granted"}
                        = IF entitlement[k].source = "payment_webhook"
                            THEN {[request |-> k, status |-> "paid", exact |-> TRUE]} ELSE {}
    BY DEF GrantHasEvidence
  <2>1. \A e \in Events : e.request = k =>
           (ledger[e] = "paid_granted" <=>
              entitlement[k].source = "payment_webhook" /\ e.status = "paid" /\ e.exact)
    BY DEF EvidenceInv, EvidenceOf, Grants
  <2>2. /\ [request |-> k, status |-> "paid", exact |-> TRUE] \in Events
        /\ \A e \in Events : e.request = k /\ e.status = "paid" /\ e.exact =>
             e = [request |-> k, status |-> "paid", exact |-> TRUE]
    BY DEF Events, ProviderStatus
  <2>3. CASE entitlement[k].source = "payment_webhook"
    <3> DEFINE paid == [request |-> k, status |-> "paid", exact |-> TRUE]
    <3>1. paid \in Events /\ paid.request = k /\ ledger[paid] = "paid_granted"
      BY <2>1, <2>2, <2>3
    <3>2. \A e \in Events : e.request = k /\ ledger[e] = "paid_granted" => e = paid
      BY <2>1, <2>2
    <3> HIDE DEF paid
    <3>3. {e \in Events : e.request = k /\ ledger[e] = "paid_granted"} = {paid}
      BY <3>1, <3>2
    <3> QED BY <2>3, <3>3 DEF paid
  <2>4. CASE entitlement[k].source # "payment_webhook"
    BY <2>1, <2>4
  <2> QED BY <2>3, <2>4
<1> QED BY <1>1, <1>2, <1>3, MoneyInvariant, PTL DEF Spec

-----------------------------------------------------------------------------
(* The counters of a discount.  A step moves at most one request between the *)
(* sets that are counted, and the request it reserves for was in neither     *)
(* because, by MoneyInv, a request that does not exist has no redemption.    *)

LEMMA FinitelyMany ==
  \A d, status : /\ IsFiniteSet(Redemptions(d, status))
                 /\ Cardinality(Redemptions(d, status)) \in Nat
<1> SUFFICES ASSUME NEW d, NEW status
             PROVE  /\ IsFiniteSet(Redemptions(d, status))
                    /\ Cardinality(Redemptions(d, status)) \in Nat
  OBVIOUS
<1>1. Redemptions(d, status) \in SUBSET Requests
  BY DEF Redemptions
<1>2. IsFiniteSet(Redemptions(d, status))
  BY <1>1, FS_Subset, CheckoutAssumption DEF CheckoutAssumption
<1> QED BY <1>2, FS_CardinalityType

\* A step that writes neither the rows counted nor the counters.
LEMMA SameCounts ==
  ASSUME DiscountCounters,
         \A j \in Requests : payment'[j].code = payment[j].code,
         UNCHANGED redemption,
         \A d \in Discounts : /\ discount'[d].reserved = discount[d].reserved
                              /\ discount'[d].redeemed = discount[d].redeemed
  PROVE  DiscountCounters'
<1>1. \A d, status : Redemptions(d, status)' = Redemptions(d, status)
  BY DEF Redemptions
<1> QED BY <1>1 DEF DiscountCounters

LEMMA SettleCounts ==
  ASSUME TypeOK, MoneyInv, DiscountCounters, NEW k \in Requests,
         NEW outcome \in {"redeemed", "released"}, SettleDiscount(k, outcome),
         \A j \in Requests : payment'[j].code = payment[j].code
  PROVE  DiscountCounters'
<1>1. CASE redemption[k] = "reserved"
  <2>1. PICK d \in Discounts : d = payment[k].code
    <3>1. payment[k].code \in Codes /\ payment[k].code # NoCode
      BY <1>1 DEF TypeOK, Payments, MoneyInv, Agrees, Redeems
    <3> QED BY <3>1 DEF Codes
  <2>2. /\ discount[d] \in DiscountRows
        /\ discount[d].reserved \in Nat /\ discount[d].redeemed \in Nat
    BY DEF TypeOK, DiscountRows
  <2>3. /\ discount'[d].reserved = discount[d].reserved - 1
        /\ discount'[d].redeemed = IF outcome = "redeemed" THEN discount[d].redeemed + 1
                                                          ELSE discount[d].redeemed
        /\ \A y \in Discounts \ {d} : discount'[y] = discount[y]
    BY <1>1, <2>1, <2>2 DEF SettleDiscount, TypeOK, DiscountRows
  <2>4. /\ redemption'[k] = outcome
        /\ \A j \in Requests \ {k} : redemption'[j] = redemption[j]
    BY <1>1, SettleEffect
  <2>5. \A y \in Discounts \ {d} : /\ Redemptions(y, "reserved")' = Redemptions(y, "reserved")
                                   /\ Redemptions(y, "redeemed")' = Redemptions(y, "redeemed")
    BY <2>1, <2>4 DEF Redemptions
  <2>6. /\ k \in Redemptions(d, "reserved") /\ k \notin Redemptions(d, "redeemed")
        /\ Redemptions(d, "reserved")' = Redemptions(d, "reserved") \ {k}
    BY <1>1, <2>1, <2>4 DEF Redemptions
  <2>7. Redemptions(d, "redeemed")' = IF outcome = "redeemed"
                                        THEN Redemptions(d, "redeemed") \cup {k}
                                        ELSE Redemptions(d, "redeemed")
    <3>1. CASE outcome = "redeemed"
      BY <2>1, <2>4, <3>1 DEF Redemptions
    <3>2. CASE outcome = "released"
      BY <1>1, <2>1, <2>4, <3>2 DEF Redemptions
    <3> QED BY <3>1, <3>2
  <2>8. /\ Cardinality(Redemptions(d, "reserved"))' = Cardinality(Redemptions(d, "reserved")) - 1
        /\ Cardinality(Redemptions(d, "redeemed"))' =
             IF outcome = "redeemed" THEN Cardinality(Redemptions(d, "redeemed")) + 1
                                     ELSE Cardinality(Redemptions(d, "redeemed"))
    <3>1. Cardinality(Redemptions(d, "reserved") \ {k}) = Cardinality(Redemptions(d, "reserved")) - 1
      BY <2>6, FinitelyMany, FS_RemoveElement
    <3>2. Cardinality(Redemptions(d, "redeemed") \cup {k}) = Cardinality(Redemptions(d, "redeemed")) + 1
      BY <2>6, FinitelyMany, FS_AddElement
    <3> QED BY <2>6, <2>7, <3>1, <3>2
  <2>9. SUFFICES ASSUME NEW y \in Discounts
                 PROVE  /\ discount'[y].reserved = Cardinality(Redemptions(y, "reserved"))'
                        /\ discount'[y].redeemed = Cardinality(Redemptions(y, "redeemed"))'
    BY DEF DiscountCounters
  <2>10. CASE y = d
    BY <2>3, <2>8, <2>10 DEF DiscountCounters
  <2>11. CASE y # d
    BY <2>3, <2>5, <2>11 DEF DiscountCounters
  <2> QED BY <2>10, <2>11
<1>2. CASE redemption[k] # "reserved"
  BY <1>2, SameCounts DEF SettleDiscount
<1> QED BY <1>1, <1>2

LEMMA InsertCounts ==
  ASSUME TypeOK, MoneyInv, DiscountCounters, NEW c \in Checkouts,
         NEW policy \in Policies, InsertNew(c, policy)
  PROVE  DiscountCounters'
<1>0. checkout[c] \in Inserting
  BY DEF TypeOK, InsertNew, Idle, Initiating
<1>1. PICK k \in Requests, x \in Codes : k = checkout[c].request /\ x = checkout[c].code
  BY <1>0 DEF Inserting
<1>2. /\ payment[k].status = "absent" /\ payment'[k].code = x
      /\ \A j \in Requests \ {k} : payment'[j] = payment[j]
  BY <1>1 DEF InsertNew, TypeOK, Exists
<1>3. redemption[k] = "none"
  <2>1. redemption[k] \in {"none", "reserved", "redeemed", "released"}
    BY DEF TypeOK
  <2> QED BY <1>2, <2>1 DEF MoneyInv, Agrees, Redeems, Collected, Declined
<1>4. CASE x = NoCode
  <2>1. UNCHANGED <<discount, redemption>>
    BY <1>1, <1>4 DEF InsertNew
  <2>2. \A d \in Discounts : /\ Redemptions(d, "reserved")' = Redemptions(d, "reserved")
                             /\ Redemptions(d, "redeemed")' = Redemptions(d, "redeemed")
    BY <1>2, <1>3, <2>1 DEF Redemptions
  <2> QED BY <2>1, <2>2 DEF DiscountCounters
<1>5. CASE x # NoCode
  <2>1. x \in Discounts
    BY <1>5 DEF Codes
  <2>2. /\ discount[x] \in DiscountRows
        /\ discount[x].reserved \in Nat /\ discount[x].redeemed \in Nat
    BY <2>1 DEF TypeOK, DiscountRows
  <2>3. /\ discount' = [discount EXCEPT ![x] = [discount[x] EXCEPT !.reserved = @ + 1]]
        /\ redemption' = [redemption EXCEPT ![k] = "reserved"]
    BY <1>1, <1>5, <2>1 DEF InsertNew, TypeOK
  <2>4. /\ discount'[x].reserved = discount[x].reserved + 1
        /\ discount'[x].redeemed = discount[x].redeemed
        /\ \A y \in Discounts \ {x} : discount'[y] = discount[y]
    BY <2>1, <2>2, <2>3 DEF TypeOK, DiscountRows
  <2>5. /\ redemption'[k] = "reserved"
        /\ \A j \in Requests \ {k} : redemption'[j] = redemption[j]
    BY <2>3 DEF TypeOK
  <2>6. \A y \in Discounts : Redemptions(y, "redeemed")' = Redemptions(y, "redeemed")
    BY <1>2, <1>3, <2>5 DEF Redemptions
  <2>7. \A y \in Discounts \ {x} : Redemptions(y, "reserved")' = Redemptions(y, "reserved")
    BY <1>2, <1>3, <2>5 DEF Redemptions
  <2>8. /\ Redemptions(x, "reserved")' = Redemptions(x, "reserved") \cup {k}
        /\ k \notin Redemptions(x, "reserved")
    BY <1>2, <1>3, <2>5 DEF Redemptions
  <2>9. Cardinality(Redemptions(x, "reserved"))' = Cardinality(Redemptions(x, "reserved")) + 1
    <3>1. Cardinality(Redemptions(x, "reserved") \cup {k}) = Cardinality(Redemptions(x, "reserved")) + 1
      BY <2>8, FinitelyMany, FS_AddElement
    <3> QED BY <2>8, <3>1
  <2>10. SUFFICES ASSUME NEW y \in Discounts
                  PROVE  /\ discount'[y].reserved = Cardinality(Redemptions(y, "reserved"))'
                         /\ discount'[y].redeemed = Cardinality(Redemptions(y, "redeemed"))'
    BY DEF DiscountCounters
  <2>11. CASE y = x
    BY <2>4, <2>6, <2>9, <2>11 DEF DiscountCounters
  <2>12. CASE y # x
    BY <2>4, <2>6, <2>7, <2>12 DEF DiscountCounters
  <2> QED BY <2>11, <2>12
<1> QED BY <1>4, <1>5

LEMMA CheckoutCounts ==
  ASSUME TypeOK, MoneyInv, DiscountCounters, NEW c \in Checkouts, CheckoutStep(c)
  PROVE  DiscountCounters'
<1>0. checkout[c] \in {Idle} \cup Inserting \cup Initiating
  BY DEF TypeOK
<1>1. ASSUME UNCHANGED <<payment, redemption, discount>> PROVE DiscountCounters'
  BY <1>1, SameCounts
<1>2. CASE AttachProviderSession(c)
  <2>1. PICK k \in Requests : k = checkout[c].request
    BY <1>0, <1>2 DEF AttachProviderSession, Idle, Initiating, Inserting
  <2>2. /\ UNCHANGED <<redemption, discount>>
        /\ UNCHANGED payment \/ WritePayment(k, "pending", "initiated")
    BY <1>2, <2>1 DEF AttachProviderSession
  <2>3. \A j \in Requests : payment'[j].code = payment[j].code
    BY <2>2, WriteEffect
  <2> QED BY <2>2, <2>3, SameCounts
<1>3. CASE FailProviderSession(c)
  <2>1. PICK k \in Requests : k = checkout[c].request
    BY <1>0, <1>3 DEF FailProviderSession, Idle, Initiating, Inserting
  <2>2. CASE MayFail(checkout[c])
    <3>1. SettleDiscount(k, "released") /\ WritePayment(k, "failed", "failed")
      BY <1>3, <2>1, <2>2 DEF FailProviderSession, Decline
    <3>2. \A j \in Requests : payment'[j].code = payment[j].code
      BY <3>1, WriteEffect
    <3> QED BY <3>1, <3>2, SettleCounts
  <2>3. CASE ~MayFail(checkout[c])
    BY <1>1, <1>3, <2>3 DEF FailProviderSession
  <2> QED BY <2>2, <2>3
<1> QED BY <1>1, <1>2, <1>3, InsertCounts
  DEF CheckoutStep, Lookup, InsertRefused, InsertLost, InitiateOK, InitiateError, Abandon

LEMMA DeliverCounts ==
  ASSUME TypeOK, MoneyInv, DiscountCounters, NEW e \in Events, Deliver(e)
  PROVE  DiscountCounters'
<1>0. PICK k \in Requests : k = e.request
  BY DEF Events
<1>1. ASSUME UNCHANGED <<payment, redemption, discount>> PROVE DiscountCounters'
  BY <1>1, SameCounts
<1>2. ASSUME NEW status, NEW session, NEW outcome \in {"redeemed", "released"},
             SettleDiscount(k, outcome), WritePayment(k, status, session)
      PROVE  DiscountCounters'
  BY <1>2, WriteEffect, SettleCounts
<1>3. CASE DeliverPaid(e)
  BY <1>0, <1>1, <1>2, <1>3 DEF DeliverPaid, Collect
<1>4. CASE DeliverDeclined(e)
  BY <1>0, <1>2, <1>4 DEF DeliverDeclined, Decline
<1>5. CASE DeliverReversal(e)
  <2>1. CASE e.exact
    <3>1. UNCHANGED <<redemption, discount>> /\ WritePayment(k, e.status, payment[k].session)
      BY <1>0, <1>5, <2>1 DEF DeliverReversal, RecordFullReversal
    <3> QED BY <3>1, WriteEffect, SameCounts
  <2>2. CASE ~e.exact
    BY <1>1, <1>5, <2>2 DEF DeliverReversal
  <2> QED BY <2>1, <2>2
<1> QED BY <1>1, <1>3, <1>4, <1>5 DEF Deliver, DeliverToManual, DeliverSettled

LEMMA OperatorCounts ==
  ASSUME TypeOK, MoneyInv, DiscountCounters, OperatorStep
  PROVE  DiscountCounters'
<1>1. ASSUME UNCHANGED <<payment, redemption, discount>> PROVE DiscountCounters'
  BY <1>1, SameCounts
<1>2. ASSUME NEW k \in Requests, NEW decision, ReviewPaymentRequest(k, decision)
      PROVE  DiscountCounters'
  <2>1. PICK outcome \in {"redeemed", "released"} :
          /\ SettleDiscount(k, outcome)
          /\ \E status : WritePayment(k, status, payment[k].session)
    BY <1>2 DEF ReviewPaymentRequest, Collect, Decline
  <2>2. PICK status : WritePayment(k, status, payment[k].session)
    BY <2>1
  <2> QED BY <2>1, <2>2, WriteEffect, SettleCounts
<1>3. ASSUME NEW k \in Requests, NEW status, NEW reference,
             RecordAdminReversal(k, status, reference)
      PROVE  DiscountCounters'
  <2>1. UNCHANGED <<redemption, discount>> /\ WritePayment(k, status, payment[k].session)
    BY <1>3 DEF RecordAdminReversal, RecordFullReversal
  <2> QED BY <2>1, WriteEffect, SameCounts
<1>4. ASSUME NEW d \in Discounts, NEW max, NEW status, UpdateDiscount(d, max, status)
      PROVE  DiscountCounters'
  <2>1. \A y \in Discounts : /\ discount'[y].reserved = discount[y].reserved
                            /\ discount'[y].redeemed = discount[y].redeemed
    <3>1. discount[d] \in DiscountRows
      BY DEF TypeOK
    <3> QED BY <1>4, <3>1 DEF UpdateDiscount, TypeOK, DiscountRows
  <2> QED BY <1>4, <2>1, SameCounts DEF UpdateDiscount
<1> QED BY <1>1, <1>2, <1>3, <1>4 DEF OperatorStep, RevokeEntitlement, MarkPayoutPaid, AllocateRevenue

\* The counters of a discount row, moved by every checkout and settlement in
\* a transaction of its own, count exactly its redemption rows.
THEOREM CountersCorrect == Spec => []DiscountCounters
<1>1. Init => DiscountCounters
  <2> SUFFICES ASSUME Init PROVE DiscountCounters
    OBVIOUS
  <2>1. \A d \in Discounts : discount[d].reserved = 0 /\ discount[d].redeemed = 0
    BY DEF Init
  <2>2. \A d \in Discounts : Redemptions(d, "reserved") = {} /\ Redemptions(d, "redeemed") = {}
    BY DEF Init, Redemptions
  <2> QED BY <2>1, <2>2, FS_EmptySet DEF DiscountCounters
<1>2. TypeOK /\ MoneyInv /\ DiscountCounters /\ [Next]_vars => DiscountCounters'
  <2> SUFFICES ASSUME TypeOK, MoneyInv, DiscountCounters, [Next]_vars PROVE DiscountCounters'
    OBVIOUS
  <2>1. ASSUME UNCHANGED <<payment, redemption, discount>> PROVE DiscountCounters'
    BY <2>1, SameCounts
  <2>2. CASE ProviderStep
    BY <2>1, <2>2 DEF ProviderStep, Capture, OtherAmount, EndCharge, ReturnMoney, ledgerVars
  <2> QED BY <2>1, <2>2, CheckoutCounts, DeliverCounts, OperatorCounts DEF Next, vars
<1> QED BY <1>1, <1>2, MoneyInvariant, PTL DEF Spec


-----------------------------------------------------------------------------
(* DiscountQuote, for every base, every width and every price: a percentage  *)
(* discount is the exact share rounded down, and no quote takes the whole price. *)

\* In range, Go's int64 arithmetic is the arithmetic of the integers.
LEMMA NoWrap ==
  ASSUME NEW x \in Int, 0 <= x, x < Width
  PROVE  Int64(x) = x
<1>1. Width \in Nat /\ 0 < Width
  BY QuoteAssumption
<1>2. x + Width \in Nat /\ x + Width < 2 * Width
  BY <1>1
<1>3. (x + Width) % (2 * Width) = x + Width
  BY <1>1, <1>2
<1> QED
  BY <1>1, <1>3 DEF Int64

\* A product is monotone in its factors.
LEMMA ProductBound ==
  ASSUME NEW a \in Nat, NEW b \in Nat, NEW c \in Nat, b <= c
  PROVE  a * b \in Nat /\ a * b <= a * c
<1>1. a * c = a * b + a * (c - b)
  OBVIOUS
<1>2. a * (c - b) >= 0
  OBVIOUS
<1> QED
  BY <1>1, <1>2

\* The remainder and the quotient of a division, as inequalities.
LEMMA Division ==
  ASSUME NEW x \in Nat
  PROVE  /\ x \div Base \in Nat /\ x % Base \in 0..(Base - 1)
         /\ x = Base * (x \div Base) + (x % Base)
BY QuoteAssumption

\* percentDiscount is the share of the price rounded down.
LEMMA ShareIsExact ==
  ASSUME NEW p \in 0..MaxInt64, NEW bps \in 1..Base
  PROVE  /\ percentDiscount(p, bps) \in 0..p
         /\ Base * percentDiscount(p, bps) <= p * bps
         /\ p * bps < Base * (percentDiscount(p, bps) + 1)
<1> DEFINE a == p \div Base
           r == p % Base
           f == (r * bps) \div Base
<1>0. /\ p \in Nat /\ bps \in Nat /\ bps <= Base /\ p < Width
      /\ Base \in Nat /\ Base > 0 /\ Width \in Nat /\ Base * Base < Width
  BY QuoteAssumption DEF MaxInt64
<1>1. a \in Nat /\ r \in Nat /\ r < Base /\ p = Base * a + r
  BY <1>0, Division
<1>2. a * bps \in Nat /\ a * bps <= a * Base
  BY <1>0, <1>1, ProductBound
<1>3. r * bps \in Nat /\ r * bps <= r * Base
  BY <1>0, <1>1, ProductBound
<1>4. r * Base <= Base * Base
  <2>1. Base * r <= Base * Base
    BY <1>0, <1>1, ProductBound
  <2> QED
    BY <2>1, <1>0, <1>1
<1>5. f \in Nat /\ Base * f <= r * bps /\ r * bps < Base * (f + 1)
  <2>1. f \in Nat /\ (r * bps) % Base \in 0..(Base - 1)
        /\ r * bps = Base * f + ((r * bps) % Base)
    BY <1>3, Division
  <2> QED
    BY <2>1, <1>0
<1>6. f <= r
  <2>1. Base * f <= r * Base
    BY <1>5, <1>3, <1>0, <1>1
  <2>2. CASE f > r
    <3>1. Base * (r + 1) <= Base * f
      BY <2>2, <1>0, <1>1, <1>5, ProductBound
    <3>2. Base * (r + 1) = Base * r + Base
      BY <1>0, <1>1
    <3> QED
      BY <3>1, <3>2, <2>1, <1>0, <1>1
  <2> QED
    BY <2>2, <1>1, <1>5
<1>7. a * bps + f <= p
  BY <1>0, <1>1, <1>2, <1>5, <1>6
<1>8. percentDiscount(p, bps) = a * bps + f
  <2>1. Int64(a * bps) = a * bps
    BY <1>0, <1>1, <1>2, <1>5, <1>7, NoWrap
  <2>2. Int64(r * bps) = r * bps
    BY <1>0, <1>1, <1>3, <1>4, NoWrap
  <2>3. Int64(a * bps + f) = a * bps + f
    BY <1>0, <1>2, <1>5, <1>7, NoWrap
  <2> QED
    BY <2>1, <2>2, <2>3 DEF percentDiscount
<1>9. p * bps = Base * (a * bps) + r * bps
  BY <1>0, <1>1
<1> QED
  BY <1>0, <1>2, <1>5, <1>7, <1>8, <1>9

-----------------------------------------------------------------------------
\* The discount is an amount between zero and the price.
LEMMA AmountBound ==
  ASSUME NEW p \in 0..MaxInt64, NEW d \in DiscountRow
  PROVE  Amount(p, d) \in 0..p
<1>1. CASE d.kind = "percentage"
  <2>1. d.bps \in 1..Base
    BY <1>1 DEF DiscountRow
  <2>2. percentDiscount(p, d.bps) \in 0..p
    BY <2>1, ShareIsExact
  <2> QED
    BY <1>1, <2>2 DEF Amount
<1>2. CASE d.kind # "percentage"
  <2>1. d.minor \in Nat
    BY <1>2, QuoteAssumption DEF DiscountRow, MaxInt64
  <2>2. p \in Nat
    BY QuoteAssumption DEF MaxInt64
  <2> QED
    BY <1>2, <2>1, <2>2 DEF Amount
<1> QED
  BY <1>1, <1>2

\* percentDiscount never overflows and never rounds up, whatever the price and
\* the percentage that operators write.
THEOREM ShareCorrect == ExactShare
BY ShareIsExact DEF ExactShare

\* No quote gives a product away or charges other than the difference.
THEOREM QuoteCorrect == QuoteAddsUp
<1> SUFFICES ASSUME NEW p \in 1..MaxInt64, NEW d \in DiscountRow
             PROVE  /\ Quote(p, d).discount + Quote(p, d).final = Quote(p, d).original
                    /\ Quote(p, d).valid <=> Quote(p, d).discount > 0
                    /\ Quote(p, d).final > 0
  BY DEF QuoteAddsUp
<1>1. Amount(p, d) \in 0..p /\ p \in Nat /\ p > 0
  BY AmountBound, QuoteAssumption DEF MaxInt64
<1>2. CASE Discounted(p, d)
  BY <1>1, <1>2 DEF Quote, Discounted
<1>3. CASE ~Discounted(p, d)
  BY <1>1, <1>3 DEF Quote
<1> QED
  BY <1>2, <1>3

-----------------------------------------------------------------------------
(* AccessSeats: codes and seats for every number of codes, schools, users     *)
(* and requests in flight, and for every max_uses and every capacity.        *)

\* What the row locks are for: one redemption of the package at a time, and one
\* assignment per school.
LocksExclude ==
  \A s, t \in Transactions :
    /\ tx[s] \in Redeeming /\ tx[t] \in Redeeming => s = t
    /\ (/\ tx[s] \in Assigning /\ tx[t] \in Assigning
        /\ tx[s].contract = tx[t].contract) => s = t

\* Whoever is past its check still has the place it saw: what it decided on
\* cannot have changed, or has changed only in its favour.
RedeemingHasPlace ==
  \A t \in Transactions : tx[t] \in Redeeming =>
    /\ codeRedemption[<<tx[t].code, tx[t].user>>] = "none"
    /\ accessCode[tx[t].code].uses < MaxUses
    /\ 0 \notin written => \E n \in written : Cardinality(Redeemed) < n

AssigningHasSeat ==
  \A t \in Transactions : tx[t] \in Assigning =>
    \E n \in written : Cardinality(Seats(tx[t].contract)) < n

SeatsInv ==
  /\ SeatsTypeOK
  /\ UsesAreRedemptions
  /\ RedeemedWithinCapacity
  /\ SeatsWithinCapacity
  /\ SeatEndsAccess
  /\ LocksExclude
  /\ RedeemingHasPlace
  /\ AssigningHasSeat

-----------------------------------------------------------------------------
\* What the counts are taken of is finite.
LEMMA CountsAreNumbers ==
  /\ IsFiniteSet(Redeemed) /\ Cardinality(Redeemed) \in Nat
  /\ IsFiniteSet(Seated) /\ Cardinality(Seated) \in Nat
  /\ \A k : IsFiniteSet(Seats(k)) /\ Cardinality(Seats(k)) \in Nat
<1>1. IsFiniteSet(AccessCodes \X Users) /\ IsFiniteSet(Contracts \X Users)
  BY FS_Product, SeatAssumption
<1>2. Redeemed \in SUBSET (AccessCodes \X Users) /\ Seated \in SUBSET (Contracts \X Users)
  BY DEF Redeemed, Seated
<1>3. IsFiniteSet(Redeemed) /\ IsFiniteSet(Seated)
  BY <1>1, <1>2, FS_Subset
<1>4. ASSUME NEW k PROVE IsFiniteSet(Seats(k))
  BY FS_Subset, SeatAssumption DEF Seats
<1> QED BY <1>3, <1>4, FS_CardinalityType

\* One place more than a smaller set takes is at most what there was room for.
LEMMA OneMoreFits ==
  ASSUME NEW S, NEW T, NEW x, NEW n \in Nat, IsFiniteSet(S), T \in SUBSET (S \cup {x}),
         Cardinality(S) < n
  PROVE  Cardinality(T) <= n
<1>1. Cardinality(S) \in Nat
  BY FS_CardinalityType
<1>2. /\ IsFiniteSet(S \cup {x})
      /\ Cardinality(S \cup {x}) = IF x \in S THEN Cardinality(S) ELSE Cardinality(S) + 1
  BY FS_AddElement
<1>3. Cardinality(T) <= Cardinality(S \cup {x}) /\ IsFiniteSet(T)
  BY <1>2, FS_Subset
<1>4. Cardinality(T) \in Nat
  BY <1>3, FS_CardinalityType
<1> QED BY <1>1, <1>2, <1>3, <1>4

LEMMA FewerFit ==
  ASSUME NEW S, NEW T \in SUBSET S, IsFiniteSet(S)
  PROVE  /\ Cardinality(T) <= Cardinality(S)
         /\ Cardinality(T) \in Nat /\ Cardinality(S) \in Nat
BY FS_Subset, FS_CardinalityType

\* The system starts with nothing given away.
LEMMA SeatsStart == SeatsInit => SeatsInv
<1> SUFFICES ASSUME SeatsInit PROVE SeatsInv
  OBVIOUS
<1> USE SeatAssumption DEF SeatsInit
<1>1. SeatsTypeOK
  BY DEF SeatsTypeOK, EntitlementStatus
<1>2. Redeemed = {} /\ \A k \in Contracts : Seats(k) = {}
  BY DEF Redeemed, Seats
<1>3. \A t \in Transactions : tx[t] \notin Redeeming /\ tx[t] \notin Assigning
  BY DEF NoTx, Redeeming, Assigning
<1>4. UsesAreRedemptions
  <2>1. \A c \in AccessCodes : {u \in Users : codeRedemption[<<c, u>>] # "none"} = {}
    OBVIOUS
  <2> QED BY <2>1, FS_EmptySet DEF UsesAreRedemptions
<1>5. capacity \in written /\ capacity \in Nat
  OBVIOUS
<1>6. RedeemedWithinCapacity /\ SeatsWithinCapacity
  <2>1. Cardinality(Redeemed) = 0 /\ \A k \in Contracts : Cardinality(Seats(k)) = 0
    BY <1>2, FS_EmptySet
  <2> QED BY <1>5, <2>1 DEF RedeemedWithinCapacity, SeatsWithinCapacity
<1>7. SeatEndsAccess
  BY DEF SeatEndsAccess, Seated
<1>8. LocksExclude /\ RedeemingHasPlace /\ AssigningHasSeat
  BY <1>3 DEF LocksExclude, RedeemingHasPlace, AssigningHasSeat
<1> QED BY <1>1, <1>4, <1>6, <1>7, <1>8 DEF SeatsInv

-----------------------------------------------------------------------------
(* The steps. *)

\* A redemption that begins: the package is not locked, so it is alone, and it saw
\* a place.
LEMMA BeginRedeemKeeps ==
  ASSUME SeatsInv, NEW t \in Transactions, NEW c \in AccessCodes, NEW u \in Users, BeginRedeem(t, c, u)
  PROVE  SeatsInv'
<1> USE DEF SeatsInv, BeginRedeem
<1> DEFINE new == [kind |-> "redeem", code |-> c, user |-> u]
<1>1. new \in Redeeming /\ new \notin Assigning
  BY DEF Redeeming, Assigning
<1>2. tx' \in [Transactions -> {NoTx} \cup Redeeming \cup Assigning] /\ tx'[t] = new
      /\ \A s \in Transactions \ {t} : tx'[s] = tx[s]
  BY <1>1 DEF SeatsTypeOK
<1>3. Redeemed' = Redeemed /\ \A k : Seats(k)' = Seats(k)
  BY DEF Redeemed, Seats
<1>4. SeatsTypeOK'
  BY <1>2 DEF SeatsTypeOK
<1>5. UsesAreRedemptions' /\ SeatEndsAccess'
  BY DEF UsesAreRedemptions, SeatEndsAccess, Seated
<1>6. RedeemedWithinCapacity' /\ SeatsWithinCapacity'
  BY <1>3 DEF RedeemedWithinCapacity, SeatsWithinCapacity
<1>7. LocksExclude'
  BY <1>1, <1>2 DEF LocksExclude, RedeemLocks, PackageLocked
<1>8. RedeemingHasPlace'
  <2>1. 0 \notin written => Cardinality(Redeemed) < capacity
    BY CountsAreNumbers, SeatAssumption DEF SeatsTypeOK, Used
  <2>2. 0 \notin written' => \E n \in written' : Cardinality(Redeemed)' < n
    BY <2>1, <1>3 DEF SeatsTypeOK
  <2> QED BY <1>1, <1>2, <2>2 DEF RedeemingHasPlace, MayRedeem
<1>9. AssigningHasSeat'
  BY <1>1, <1>2, <1>3 DEF AssigningHasSeat
<1> QED BY <1>4, <1>5, <1>6, <1>7, <1>8, <1>9

\* A redemption that commits takes the place it saw, and no other one was waiting
\* behind the same check.
LEMMA CommitRedeemKeeps ==
  ASSUME SeatsInv, NEW t \in Transactions, CommitRedeem(t)
  PROVE  SeatsInv'
<1> USE DEF SeatsInv, CommitRedeem
<1> DEFINE c == tx[t].code
           u == tx[t].user
<1>1. c \in AccessCodes /\ u \in Users /\ tx[t] \in Redeeming
  BY DEF Redeeming
<1>2. tx'[t] = NoTx /\ \A s \in Transactions \ {t} : tx'[s] = tx[s]
  BY DEF SeatsTypeOK
<1>3. NoTx \notin Redeeming /\ NoTx \notin Assigning
  BY DEF NoTx, Redeeming, Assigning
<1>4. /\ codeRedemption[<<c, u>>] = "none" /\ accessCode[c].uses < MaxUses
      /\ 0 \notin written => \E n \in written : Cardinality(Redeemed) < n
  BY <1>1 DEF RedeemingHasPlace
<1>5. \A k : Seats(k)' = Seats(k)
  BY DEF Seats
<1>6. /\ accessCode'[c].status = accessCode[c].status /\ accessCode'[c].uses = accessCode[c].uses + 1
      /\ \A d \in AccessCodes \ {c} : accessCode'[d] = accessCode[d]
  BY <1>1 DEF SeatsTypeOK
<1>7. codeRedemption'[<<c, u>>] = "active"
      /\ \A r \in AccessCodes \X Users : r # <<c, u>> => codeRedemption'[r] = codeRedemption[r]
  BY <1>1 DEF SeatsTypeOK
<1>8. SeatsTypeOK'
  <2>1. accessCode' \in [AccessCodes -> [status : {"active", "paused", "archived"}, uses : 0..MaxUses]]
    <3>1. accessCode[c].uses + 1 \in 0..MaxUses
      BY <1>1, <1>4, SeatAssumption DEF SeatsTypeOK
    <3>2. [accessCode[c] EXCEPT !.uses = @ + 1] \in [status : {"active", "paused", "archived"}, uses : 0..MaxUses]
      BY <1>1, <3>1 DEF SeatsTypeOK
    <3> QED BY <1>1, <3>2 DEF SeatsTypeOK
  <2>2. codeRedemption' \in [AccessCodes \X Users -> EntitlementStatus]
    BY <1>1 DEF SeatsTypeOK, EntitlementStatus
  <2>3. tx' \in [Transactions -> {NoTx} \cup Redeeming \cup Assigning]
    BY DEF SeatsTypeOK
  <2> QED BY <2>1, <2>2, <2>3 DEF SeatsTypeOK
<1>9. UsesAreRedemptions'
  <2> SUFFICES ASSUME NEW d \in AccessCodes
               PROVE  accessCode'[d].uses = Cardinality({v \in Users : codeRedemption'[<<d, v>>] # "none"})
    BY DEF UsesAreRedemptions
  <2> DEFINE Before == {v \in Users : codeRedemption[<<d, v>>] # "none"}
             Now == {v \in Users : codeRedemption'[<<d, v>>] # "none"}
  <2>1. accessCode[d].uses = Cardinality(Before)
    BY DEF UsesAreRedemptions
  <2>2. CASE d = c
    <3>1. u \notin Before /\ Now = Before \cup {u}
      BY <1>1, <1>4, <1>7, <2>2
    <3>2. IsFiniteSet(Before)
      BY FS_Subset, SeatAssumption
    <3>3. Cardinality(Now) = Cardinality(Before) + 1
      BY <3>1, <3>2, FS_AddElement
    <3>4. accessCode'[d].uses = accessCode[d].uses + 1
      BY <1>6, <2>2
    <3> HIDE DEF Before, Now
    <3>5. accessCode'[d].uses = Cardinality(Now)
      BY <2>1, <3>3, <3>4
    <3> QED BY <3>5 DEF Now
  <2>3. CASE d # c
    <3>1. Now = Before
      BY <1>7, <2>3
    <3> QED BY <1>6, <2>1, <2>3, <3>1
  <2> QED BY <2>2, <2>3
<1>10. RedeemedWithinCapacity'
  <2> SUFFICES ASSUME 0 \notin written
               PROVE  \E n \in written : Cardinality(Redeemed') <= n
    BY DEF RedeemedWithinCapacity
  <2>1. PICK n \in written : Cardinality(Redeemed) < n
    BY <1>4
  <2>2. Redeemed' \in SUBSET (Redeemed \cup {<<c, u>>})
    BY <1>7 DEF Redeemed
  <2>3. n \in Nat
    BY SeatAssumption DEF SeatsTypeOK
  <2> QED BY <2>1, <2>2, <2>3, CountsAreNumbers, OneMoreFits
<1>11. SeatsWithinCapacity' /\ SeatEndsAccess'
  BY <1>5 DEF SeatsWithinCapacity, SeatEndsAccess, Seated
<1>12. LocksExclude'
  BY <1>2, <1>3 DEF LocksExclude
<1>13. RedeemingHasPlace'
  BY <1>1, <1>2, <1>3 DEF RedeemingHasPlace, LocksExclude
<1>14. AssigningHasSeat'
  BY <1>2, <1>3, <1>5 DEF AssigningHasSeat
<1> QED BY <1>8, <1>9, <1>10, <1>11, <1>12, <1>13, <1>14

\* An assignment that begins has the school to itself, and it saw a free seat under
\* a capacity that the package had at some time.
LEMMA BeginAssignKeeps ==
  ASSUME SeatsInv, NEW t \in Transactions, NEW k \in Contracts, NEW u \in Users,
         NEW limit \in Capacities, BeginAssign(t, k, u, limit)
  PROVE  SeatsInv'
<1> USE DEF SeatsInv, BeginAssign
<1> DEFINE new == [kind |-> "assign", contract |-> k, user |-> u]
<1>1. new \in Assigning /\ new \notin Redeeming
  BY DEF Redeeming, Assigning
<1>2. tx' \in [Transactions -> {NoTx} \cup Redeeming \cup Assigning] /\ tx'[t] = new
      /\ \A s \in Transactions \ {t} : tx'[s] = tx[s]
  BY <1>1 DEF SeatsTypeOK
<1>3. Redeemed' = Redeemed /\ \A j : Seats(j)' = Seats(j)
  BY DEF Redeemed, Seats
<1>4. SeatsTypeOK'
  BY <1>2 DEF SeatsTypeOK
<1>5. UsesAreRedemptions' /\ SeatEndsAccess'
  BY DEF UsesAreRedemptions, SeatEndsAccess, Seated
<1>6. RedeemedWithinCapacity' /\ SeatsWithinCapacity'
  BY <1>3 DEF RedeemedWithinCapacity, SeatsWithinCapacity
<1>7. LocksExclude'
  BY <1>1, <1>2 DEF LocksExclude, AssignLocks, ContractLocked
<1>8. RedeemingHasPlace'
  BY <1>1, <1>2, <1>3 DEF RedeemingHasPlace
<1>9. AssigningHasSeat'
  BY <1>1, <1>2, <1>3 DEF AssigningHasSeat
<1> QED BY <1>4, <1>5, <1>6, <1>7, <1>8, <1>9

\* An assignment that commits takes the seat it saw; no other one of the school is
\* under way.
LEMMA CommitAssignKeeps ==
  ASSUME SeatsInv, NEW t \in Transactions, CommitAssign(t)
  PROVE  SeatsInv'
<1> USE DEF SeatsInv, CommitAssign
<1>0. PICK k \in Contracts, u \in Users : tx[t].contract = k /\ tx[t].user = u
  BY DEF Assigning
<1>1. tx[t] \in Assigning /\ tx[t].contract = k /\ tx[t].user = u
  BY <1>0
<1>2. tx'[t] = NoTx /\ \A s \in Transactions \ {t} : tx'[s] = tx[s]
  BY DEF SeatsTypeOK
<1>3. NoTx \notin Redeeming /\ NoTx \notin Assigning
  BY DEF NoTx, Redeeming, Assigning
<1>4. /\ seat'[<<k, u>>] = [status |-> "active", access |-> "active"]
      /\ \A s \in Contracts \X Users : s # <<k, u>> => seat'[s] = seat[s]
  BY <1>1 DEF SeatsTypeOK
<1>5. Redeemed' = Redeemed
  BY DEF Redeemed
<1>6. \A j \in Contracts \ {k} : Seats(j)' = Seats(j)
  BY <1>1, <1>4 DEF Seats
<1>7. SeatsTypeOK'
  <2>1. seat' \in [Contracts \X Users -> [status : EntitlementStatus, access : EntitlementStatus]]
    BY <1>1 DEF SeatsTypeOK, EntitlementStatus
  <2>2. tx' \in [Transactions -> {NoTx} \cup Redeeming \cup Assigning]
    BY DEF SeatsTypeOK
  <2> QED BY <2>1, <2>2 DEF SeatsTypeOK
<1>8. UsesAreRedemptions' /\ RedeemedWithinCapacity'
  BY <1>5 DEF UsesAreRedemptions, RedeemedWithinCapacity
<1>9. SeatsWithinCapacity'
  <2>1. \E n \in written : Cardinality(Seats(k)') <= n
    <3>1. PICK n \in written : Cardinality(Seats(k)) < n
      BY <1>1 DEF AssigningHasSeat
    <3>2. Seats(k)' \in SUBSET (Seats(k) \cup {u})
      BY <1>1, <1>4 DEF Seats
    <3>3. n \in Nat
      BY SeatAssumption DEF SeatsTypeOK
    <3> QED BY <3>1, <3>2, <3>3, CountsAreNumbers, OneMoreFits
  <2> QED BY <1>6, <2>1 DEF SeatsWithinCapacity
<1>10. SeatEndsAccess'
  BY <1>4 DEF SeatEndsAccess, Seated
<1>11. LocksExclude'
  BY <1>2, <1>3 DEF LocksExclude
<1>12. RedeemingHasPlace'
  BY <1>2, <1>3, <1>5 DEF RedeemingHasPlace
<1>13. AssigningHasSeat'
  <2> SUFFICES ASSUME NEW s \in Transactions, tx'[s] \in Assigning, NEW j, j = tx'[s].contract
               PROVE  \E n \in written : Cardinality(Seats(j)') < n
    BY DEF AssigningHasSeat, Seats
  <2>1. s # t /\ tx'[s] = tx[s]
    BY <1>2, <1>3
  <2>2. j \in Contracts \ {k}
    BY <1>1, <2>1 DEF LocksExclude, Assigning
  <2> QED BY <1>6, <2>1, <2>2 DEF AssigningHasSeat
<1> QED BY <1>7, <1>8, <1>9, <1>10, <1>11, <1>12, <1>13

\* Whoever gives up leaves nothing behind.
LEMMA RollbackKeeps ==
  ASSUME SeatsInv, NEW t \in Transactions, Rollback(t)
  PROVE  SeatsInv'
<1> USE DEF SeatsInv, Rollback
<1>1. tx'[t] = NoTx /\ \A s \in Transactions \ {t} : tx'[s] = tx[s]
  BY DEF SeatsTypeOK
<1>2. NoTx \notin Redeeming /\ NoTx \notin Assigning
  BY DEF NoTx, Redeeming, Assigning
<1>3. Redeemed' = Redeemed /\ \A k : Seats(k)' = Seats(k)
  BY DEF Redeemed, Seats
<1>4. SeatsTypeOK'
  BY DEF SeatsTypeOK
<1>5. UsesAreRedemptions' /\ SeatEndsAccess'
  BY DEF UsesAreRedemptions, SeatEndsAccess, Seated
<1>6. RedeemedWithinCapacity' /\ SeatsWithinCapacity'
  BY <1>3 DEF RedeemedWithinCapacity, SeatsWithinCapacity
<1>7. LocksExclude'
  BY <1>1, <1>2 DEF LocksExclude
<1>8. RedeemingHasPlace' /\ AssigningHasSeat'
  BY <1>1, <1>2, <1>3 DEF RedeemingHasPlace, AssigningHasSeat
<1> QED BY <1>4, <1>5, <1>6, <1>7, <1>8

\* The commands of one statement take places back, or change what is decided on
\* under the locks of those who decided.
LEMMA RevokeSeatKeeps ==
  ASSUME SeatsInv, NEW k \in Contracts, NEW u \in Users,
         RevokeSchoolSeat(k, u) \/ RevokeSeatAccess(<<k, u>>)
  PROVE  SeatsInv'
<1> USE DEF SeatsInv
<1>1. UNCHANGED <<accessCode, codeRedemption, contract, capacity, other, tx, written>>
  BY DEF RevokeSchoolSeat, RevokeSeatAccess
<1>2. /\ seat' \in [Contracts \X Users -> [status : EntitlementStatus, access : EntitlementStatus]]
      /\ seat'[<<k, u>>].access = "revoked"
      /\ seat'[<<k, u>>].status \in {"revoked", seat[<<k, u>>].status}
      /\ \A s \in Contracts \X Users : s # <<k, u>> => seat'[s] = seat[s]
  <2>1. CASE RevokeSchoolSeat(k, u)
    BY <2>1 DEF RevokeSchoolSeat, Revoked, SeatsTypeOK, EntitlementStatus
  <2>2. CASE RevokeSeatAccess(<<k, u>>)
    <3>1. [seat[<<k, u>>] EXCEPT !.access = "revoked"]
            \in [status : EntitlementStatus, access : EntitlementStatus]
      BY DEF SeatsTypeOK, EntitlementStatus
    <3> QED BY <2>2, <3>1 DEF RevokeSeatAccess, SeatsTypeOK
  <2> QED BY <2>1, <2>2
<1>3. Redeemed' = Redeemed
  BY <1>1 DEF Redeemed
<1>4. \A j \in Contracts : Seats(j)' \in SUBSET Seats(j)
  BY <1>2 DEF Seats
<1>5. \A j \in Contracts : /\ Cardinality(Seats(j)') <= Cardinality(Seats(j))
                          /\ Cardinality(Seats(j)') \in Nat /\ Cardinality(Seats(j)) \in Nat
  BY <1>4, CountsAreNumbers, FewerFit
<1>6. written \subseteq Nat
  BY SeatAssumption DEF SeatsTypeOK
<1>7. SeatsTypeOK'
  BY <1>1, <1>2 DEF SeatsTypeOK
<1>8. UsesAreRedemptions' /\ RedeemedWithinCapacity' /\ LocksExclude' /\ RedeemingHasPlace'
  BY <1>1, <1>3 DEF UsesAreRedemptions, RedeemedWithinCapacity, LocksExclude, RedeemingHasPlace
<1>9. SeatsWithinCapacity'
  <2> SUFFICES ASSUME NEW j \in Contracts
               PROVE  \E n \in written : Cardinality(Seats(j)') <= n
    BY <1>1 DEF SeatsWithinCapacity
  <2>1. PICK n \in written : Cardinality(Seats(j)) <= n
    BY DEF SeatsWithinCapacity
  <2>2. n \in Nat
    BY <1>6
  <2> QED BY <1>5, <2>1, <2>2
<1>10. SeatEndsAccess'
  BY <1>2 DEF SeatEndsAccess, Seated
<1>11. AssigningHasSeat'
  <2> SUFFICES ASSUME NEW s \in Transactions, tx[s] \in Assigning, NEW j, j = tx[s].contract
               PROVE  \E n \in written : Cardinality(Seats(j)') < n
    BY <1>1 DEF AssigningHasSeat, Seats
  <2>1. PICK n \in written : Cardinality(Seats(j)) < n
    BY DEF AssigningHasSeat
  <2>2. n \in Nat /\ j \in Contracts
    BY <1>6 DEF Assigning
  <2> QED BY <1>5, <2>1, <2>2
<1> QED BY <1>7, <1>8, <1>9, <1>10, <1>11

LEMMA RevokeRedeemedKeeps ==
  ASSUME SeatsInv, NEW r \in AccessCodes \X Users, RevokeRedeemed(r)
  PROVE  SeatsInv'
<1> USE DEF SeatsInv, RevokeRedeemed
<1>1. /\ codeRedemption'[r] = "revoked" /\ codeRedemption[r] = "active"
      /\ \A q \in AccessCodes \X Users : q # r => codeRedemption'[q] = codeRedemption[q]
  BY DEF SeatsTypeOK, Redeemed
<1>2. Redeemed' \in SUBSET Redeemed /\ \A k : Seats(k)' = Seats(k)
  BY <1>1 DEF Redeemed, Seats
<1>3. /\ Cardinality(Redeemed') <= Cardinality(Redeemed)
      /\ Cardinality(Redeemed') \in Nat /\ Cardinality(Redeemed) \in Nat
  BY <1>2, CountsAreNumbers, FewerFit
<1>4. written \subseteq Nat
  BY SeatAssumption DEF SeatsTypeOK
<1>5. SeatsTypeOK'
  BY DEF SeatsTypeOK, EntitlementStatus
<1>6. UsesAreRedemptions'
  <2> SUFFICES ASSUME NEW c \in AccessCodes
               PROVE  accessCode[c].uses = Cardinality({u \in Users : codeRedemption'[<<c, u>>] # "none"})
    BY DEF UsesAreRedemptions
  <2>1. {u \in Users : codeRedemption'[<<c, u>>] # "none"}
          = {u \in Users : codeRedemption[<<c, u>>] # "none"}
    BY <1>1
  <2> QED BY <2>1 DEF UsesAreRedemptions
<1>7. RedeemedWithinCapacity'
  <2> SUFFICES ASSUME 0 \notin written
               PROVE  \E n \in written : Cardinality(Redeemed') <= n
    BY DEF RedeemedWithinCapacity
  <2>1. PICK n \in written : Cardinality(Redeemed) <= n
    BY DEF RedeemedWithinCapacity
  <2>2. n \in Nat
    BY <1>4
  <2> QED BY <1>3, <2>1, <2>2
<1>8. SeatsWithinCapacity' /\ SeatEndsAccess' /\ LocksExclude' /\ AssigningHasSeat'
  BY <1>2 DEF SeatsWithinCapacity, SeatEndsAccess, Seated, LocksExclude, AssigningHasSeat
<1>9. RedeemingHasPlace'
  <2> SUFFICES ASSUME NEW t \in Transactions, tx[t] \in Redeeming
               PROVE  /\ codeRedemption'[<<tx[t].code, tx[t].user>>] = "none"
                      /\ accessCode[tx[t].code].uses < MaxUses
                      /\ 0 \notin written => \E n \in written : Cardinality(Redeemed') < n
    BY DEF RedeemingHasPlace
  <2>1. <<tx[t].code, tx[t].user>> # r
    BY <1>1 DEF RedeemingHasPlace
  <2>2. <<tx[t].code, tx[t].user>> \in AccessCodes \X Users
    BY DEF Redeeming
  <2>3. ASSUME 0 \notin written PROVE \E n \in written : Cardinality(Redeemed') < n
    <3>1. PICK n \in written : Cardinality(Redeemed) < n
      BY <2>3 DEF RedeemingHasPlace
    <3>2. n \in Nat
      BY <1>4
    <3> QED BY <1>3, <3>1, <3>2
  <2> QED BY <1>1, <2>1, <2>2, <2>3 DEF RedeemingHasPlace
<1> QED BY <1>5, <1>6, <1>7, <1>8, <1>9

\* What moves no place, no request and no capacity.
LEMMA OthersKeep ==
  ASSUME SeatsInv, UNCHANGED <<codeRedemption, seat, tx, capacity, written>>,
         \/ \E k \in Contracts : RevokeContract(k)
         \/ \E n \in 0..Others : OtherEntitlement(n)
         \/ \E c \in AccessCodes, status \in {"active", "paused", "archived"} :
              UpdateAccessCodeStatus(c, status)
  PROVE  SeatsInv'
<1> USE DEF SeatsInv
<1>1. /\ contract' \in [Contracts -> {"active", "revoked"}] /\ other' \in 0..Others
      /\ accessCode' \in [AccessCodes -> [status : {"active", "paused", "archived"}, uses : 0..MaxUses]]
      /\ \A c \in AccessCodes : accessCode'[c].uses = accessCode[c].uses
  <2>1. CASE \E k \in Contracts : RevokeContract(k)
    BY <2>1 DEF RevokeContract, SeatsTypeOK
  <2>2. CASE \E n \in 0..Others : OtherEntitlement(n)
    BY <2>2 DEF OtherEntitlement, SeatsTypeOK
  <2>3. CASE \E c \in AccessCodes, status \in {"active", "paused", "archived"} :
               UpdateAccessCodeStatus(c, status)
    BY <2>3 DEF UpdateAccessCodeStatus, SeatsTypeOK
  <2> QED BY <2>1, <2>2, <2>3
<1>2. Redeemed' = Redeemed /\ \A k : Seats(k)' = Seats(k)
  BY DEF Redeemed, Seats
<1>3. SeatsTypeOK'
  BY <1>1 DEF SeatsTypeOK
<1>4. UsesAreRedemptions'
  BY <1>1 DEF UsesAreRedemptions
<1>5. RedeemedWithinCapacity' /\ SeatsWithinCapacity' /\ SeatEndsAccess' /\ LocksExclude'
  BY <1>2 DEF RedeemedWithinCapacity, SeatsWithinCapacity, SeatEndsAccess, Seated, LocksExclude
<1>6. RedeemingHasPlace'
  <2>1. \A t \in Transactions : tx[t] \in Redeeming => accessCode'[tx[t].code].uses = accessCode[tx[t].code].uses
    BY <1>1 DEF Redeeming
  <2> QED BY <1>2, <2>1 DEF RedeemingHasPlace
<1>7. AssigningHasSeat'
  BY <1>2 DEF AssigningHasSeat
<1> QED BY <1>3, <1>4, <1>5, <1>6, <1>7

\* A capacity that is written, lower or lifted, takes nothing away from what the
\* package had before.
LEMMA UpdateProductKeeps ==
  ASSUME SeatsInv, NEW n \in Capacities, UpdateProduct(n)
  PROVE  SeatsInv'
<1> USE DEF SeatsInv, UpdateProduct
<1>1. Redeemed' = Redeemed /\ \A k : Seats(k)' = Seats(k)
  BY DEF Redeemed, Seats
<1>2. written \subseteq written' /\ (0 \notin written' => 0 \notin written)
  OBVIOUS
<1>3. SeatsTypeOK'
  BY DEF SeatsTypeOK
<1>4. UsesAreRedemptions' /\ SeatEndsAccess' /\ LocksExclude'
  BY DEF UsesAreRedemptions, SeatEndsAccess, Seated, LocksExclude
<1>5. RedeemedWithinCapacity' /\ SeatsWithinCapacity'
  BY <1>1, <1>2 DEF RedeemedWithinCapacity, SeatsWithinCapacity
<1>6. RedeemingHasPlace'
  BY <1>1, <1>2 DEF RedeemingHasPlace
<1>7. AssigningHasSeat'
  BY <1>1, <1>2 DEF AssigningHasSeat
<1> QED BY <1>3, <1>4, <1>5, <1>6, <1>7

\* Nothing happens.
LEMMA StutterKeeps == SeatsInv /\ UNCHANGED seatVars => SeatsInv'
<1> SUFFICES ASSUME SeatsInv, UNCHANGED seatVars PROVE SeatsInv'
  OBVIOUS
<1> USE DEF seatVars, SeatsInv
<1>1. Redeemed' = Redeemed /\ \A k : Seats(k)' = Seats(k)
  BY DEF Redeemed, Seats
<1>2. SeatsTypeOK' /\ UsesAreRedemptions' /\ SeatEndsAccess' /\ LocksExclude'
  BY DEF SeatsTypeOK, UsesAreRedemptions, SeatEndsAccess, Seated, LocksExclude
<1>3. RedeemedWithinCapacity' /\ SeatsWithinCapacity'
  BY <1>1 DEF RedeemedWithinCapacity, SeatsWithinCapacity
<1>4. RedeemingHasPlace' /\ AssigningHasSeat'
  BY <1>1 DEF RedeemingHasPlace, AssigningHasSeat
<1> QED BY <1>2, <1>3, <1>4

LEMMA SeatsStep == SeatsInv /\ [SeatsNext]_seatVars => SeatsInv'
<1> SUFFICES ASSUME SeatsInv, [SeatsNext]_seatVars PROVE SeatsInv'
  OBVIOUS
<1>1. ASSUME NEW t \in Transactions, NEW c \in AccessCodes, NEW u \in Users, BeginRedeem(t, c, u)
      PROVE  SeatsInv'
  BY <1>1, BeginRedeemKeeps
<1>2. ASSUME NEW t \in Transactions, NEW k \in Contracts, NEW u \in Users, NEW limit \in Capacities,
             BeginAssign(t, k, u, limit)
      PROVE  SeatsInv'
  BY <1>2, BeginAssignKeeps
<1>3. ASSUME NEW t \in Transactions, CommitRedeem(t) \/ CommitAssign(t) \/ Rollback(t)
      PROVE  SeatsInv'
  BY <1>3, CommitRedeemKeeps, CommitAssignKeeps, RollbackKeeps
<1>4. ASSUME NEW k \in Contracts, NEW u \in Users, RevokeSchoolSeat(k, u)
      PROVE  SeatsInv'
  BY <1>4, RevokeSeatKeeps
<1>5. ASSUME NEW r \in AccessCodes \X Users, RevokeRedeemed(r) PROVE SeatsInv'
  BY <1>5, RevokeRedeemedKeeps
<1>6. ASSUME NEW s \in Contracts \X Users, RevokeSeatAccess(s) PROVE SeatsInv'
  <2>1. PICK k \in Contracts, u \in Users : s = <<k, u>>
    OBVIOUS
  <2> QED BY <1>6, <2>1, RevokeSeatKeeps
<1>7. ASSUME NEW k \in Contracts, RevokeContract(k) PROVE SeatsInv'
  BY <1>7, OthersKeep DEF RevokeContract
<1>8. ASSUME NEW n \in 0..Others, OtherEntitlement(n) PROVE SeatsInv'
  BY <1>8, OthersKeep DEF OtherEntitlement
<1>9. ASSUME NEW c \in AccessCodes, NEW status \in {"active", "paused", "archived"},
             UpdateAccessCodeStatus(c, status)
      PROVE  SeatsInv'
  BY <1>9, OthersKeep DEF UpdateAccessCodeStatus
<1>10. ASSUME NEW n \in Capacities, UpdateProduct(n) PROVE SeatsInv'
  BY <1>10, UpdateProductKeeps
<1>11. ASSUME UNCHANGED seatVars PROVE SeatsInv'
  BY <1>11, StutterKeeps
<1> QED
  BY <1>1, <1>2, <1>3, <1>4, <1>5, <1>6, <1>7, <1>8, <1>9, <1>10, <1>11 DEF SeatsNext

\* Whatever redemptions and assignments run beside each other.
THEOREM SeatsInvariant == SeatsSpec => []SeatsInv
<1>1. SeatsInit => SeatsInv
  BY SeatsStart
<1>2. SeatsInv /\ [SeatsNext]_seatVars => SeatsInv'
  BY SeatsStep
<1> QED BY <1>1, <1>2, PTL DEF SeatsSpec

\* No place is given away twice (RedeemAccessCode, AssignSchoolSeat): a code is used
\* at most max_uses times, redemptions of several codes stay within the capacity of
\* their package unless it was lifted, and the seats of a school within the largest
\* capacity the package had.
THEOREM PlacesAreLimited == SeatsSpec => []WithinCapacity
<1>1. SeatsInv => WithinCapacity
  <2> SUFFICES ASSUME SeatsInv, NEW c \in AccessCodes PROVE accessCode[c].uses <= MaxUses
    BY DEF WithinCapacity, SeatsInv
  <2>1. accessCode[c].uses \in 0..MaxUses
    BY DEF SeatsInv, SeatsTypeOK
  <2> QED BY <2>1, SeatAssumption
<1> QED BY <1>1, SeatsInvariant, PTL

\* The rows that different commands write agree: a code's counter with its
\* redemptions, a seat with the entitlement that came with it.
THEOREM RowsStayInStep == SeatsSpec => []RowsAgree
<1>1. SeatsInv => RowsAgree
  BY DEF SeatsInv, RowsAgree
<1> QED BY <1>1, SeatsInvariant, PTL
=============================================================================
