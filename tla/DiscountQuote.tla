---------------------------- MODULE DiscountQuote ----------------------------
(* What a discount code takes off a price: percentDiscount and               *)
(* resolveDiscountTx (checkout_repository.go), with the int64 arithmetic of  *)
(* Go.  The scope, the dates and the number of redemptions that make a code  *)
(* unavailable are inputs of resolveDiscountTx left out here;                *)
(* CommerceCheckout has the redemptions.                                     *)
EXTENDS Integers

CONSTANTS
  Base,    \* 10000: a percentage is in basis points
  Width    \* Go's int64 runs from -Width to Width - 1, Width = 2^63

ASSUME QuoteAssumption ==
  /\ Base \in Nat \ {0}
  /\ Width \in Nat /\ Base * Base < Width

-----------------------------------------------------------------------------
MaxInt64 == Width - 1

\* Go's int64 wraps around.
Int64(x) == ((x + Width) % (2 * Width)) - Width

\* \div rounds down where Go rounds to zero; nothing negative is divided here.
percentDiscount(p, bps) ==
  LET whole == Int64((p \div Base) * bps)
      fraction == Int64((p % Base) * bps) \div Base
  IN Int64(whole + fraction)

\* The value CHECK of commerce_discount_codes.
DiscountRow ==
  [kind : {"percentage"}, bps : 1..Base, min : 0..MaxInt64]
  \cup [kind : {"fixed"}, minor : 1..MaxInt64, min : 0..MaxInt64]

Amount(p, d) ==
  LET off == IF d.kind = "percentage" THEN percentDiscount(p, d.bps) ELSE d.minor
  IN IF off > p THEN p ELSE off

Discounted(p, d) ==
  p >= d.min /\ Amount(p, d) >= 1 /\ p - Amount(p, d) >= 1

Quote(p, d) ==
  IF Discounted(p, d)
  THEN [valid |-> TRUE, original |-> p, discount |-> Amount(p, d), final |-> p - Amount(p, d)]
  ELSE [valid |-> FALSE, original |-> p, discount |-> 0, final |-> p]

-----------------------------------------------------------------------------
\* A percentage takes off exactly the share of the price, rounded down, for
\* every price an int64 holds: percentDiscount splits the price so that no
\* product overflows.
ExactShare ==
  \A p \in 0..MaxInt64, bps \in 1..Base :
    LET off == percentDiscount(p, bps)
    IN off \in 0..p /\ Base * off <= p * bps /\ p * bps < Base * (off + 1)

\* The amounts a quote promises add up, and a discounted product still costs
\* something: the payment gateway takes no empty charge.  A product that costs
\* nothing has no quote (loadCheckoutProduct).
QuoteAddsUp ==
  \A p \in 1..MaxInt64, d \in DiscountRow :
    LET quote == Quote(p, d)
    IN /\ quote.discount + quote.final = quote.original
       /\ quote.valid <=> quote.discount > 0
       /\ quote.final > 0
=============================================================================
