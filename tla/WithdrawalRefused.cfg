SPECIFICATION PayoutSpec
CONSTANTS
  d1 = d1
  o1 = o1
  Distributions = {d1}
  NetOf <- OneShareNet
  SaleOf <- OneShareSale
  Payouts = {p1}
  Reviews = {v1}
  MinThreshold = 0
  PayoutDelay = FALSE
  RlsSettings = {TRUE}
  PayoutLimits = {1}
  NoPayout = NoPayout
CHECK_DEADLOCK FALSE
PROPERTY RefusedForWant
