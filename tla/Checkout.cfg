SPECIFICATION Spec
CONSTANTS
  Requests = {k1, k2}
  Discounts = {d1}
  NoCode = NoCode
  Checkouts = {c1, c2}
  GatewayModes = {"payment_link", "manual_review"}
  Policies = {"no_trainer", "no_share", "share"}
  Limits = {0, 1}
  References = {r1}
  NoReference = NoReference
  Base = 3
  Width = 12
CONSTRAINT Situations
SYMMETRY Symmetry
INVARIANTS
  TypeOK
  RedemptionFollowsPayment
  AccessFollowsPayment
  CapturedHasSession
  DiscountCounters
  DiscountBudget
PROPERTIES
  ReversedRevenueIsFinal
CHECK_DEADLOCK FALSE
