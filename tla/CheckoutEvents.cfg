SPECIFICATION FairSpec
CONSTANTS
  Requests = {k1}
  Discounts = {d1}
  NoCode = NoCode
  Checkouts = {c1}
  GatewayModes = {"webhook", "payment_link"}
  Policies = {"share"}
  Limits = {1}
  References = {r1}
  NoReference = NoReference
  Base = 3
  Width = 12
INVARIANTS
  GrantHasEvidence
  RevenueFollowsPayment
PROPERTIES
  CapturedSettles
  RefundEndsAccess
  ImplementsLedger
CHECK_DEADLOCK FALSE
