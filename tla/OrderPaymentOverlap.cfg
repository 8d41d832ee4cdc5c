SPECIFICATION Spec
CONSTANTS
  o1 = o1
  ebook = ebook
  print = print
  a1 = a1
  a2 = a2
  card = card
  momo = momo
  None = None
  Orders <- MCOrders
  Items <- MCItems
  Attempts <- MCAttempts
  Providers <- MCProviders
  OrderOf <- MCOrderOf
  ItemOrder <- MCItemOrder
  Digital <- MCDigital
  ProviderOf <- TwoProviders
  Events = {e1, e2}
  Edits = {x1}
  Refunds = {r1}
  Refundable = {card, momo}
  Simulated = {}
  Refusable = {a2}
  MaxInFlight = 2
  MaxRestarts = 1
SYMMETRY Interchangeable
CHECK_DEADLOCK FALSE
INVARIANT TypeOK
INVARIANT AtMostOneConfirmed
INVARIANT ConfirmedIsServed
INVARIANT AccessMatchesClaim
INVARIANT PaidIsGranted
INVARIANT RefundedIsRevoked
INVARIANT NoImaginaryClaim
PROPERTY ImplementsSale
