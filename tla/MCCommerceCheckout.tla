------------------------- MODULE MCCommerceCheckout -------------------------
(* Instances of CommerceCheckout for TLC, together with the arithmetic of    *)
(* its discounts: Width stands for 2^63, a little above the square of Base,  *)
(* so that price * bps overflows for most prices.                            *)
EXTENDS CommerceCheckout, DiscountQuote, TLC

\* The two situations of the run "checkout", which are too large when they come
\* together: one request, with a hosted page and without a trainer's share; or
\* several requests that an operator settles, with a share to pay out.
InFlight == {c \in Checkouts : checkout[c] # Idle}
Begun == {k \in Requests : Exists(k) \/ \E c \in InFlight : checkout[c].request = k}
OneHosted ==
  Cardinality(Begun) <= 1 /\ \A k \in Begun : payment[k].policy # "share"
SeveralManual ==
  /\ \A k \in Begun : Exists(k) => payment[k].mode = "manual_review" /\ payment[k].policy = "share"
  /\ \A c \in InFlight : checkout[c].pc = "insert" /\ checkout[c].mode = "manual_review"
Situations == OneHosted \/ SeveralManual

Symmetry == Permutations(Requests) \cup Permutations(Checkouts)

\* What DiscountQuote proves, evaluated for every price and discount.
ASSUME QuoteChecked == ExactShare /\ QuoteAddsUp
=============================================================================
