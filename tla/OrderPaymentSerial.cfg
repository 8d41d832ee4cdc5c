SPECIFICATION Spec
CONSTANTS
  o1 = o1
  ebook = ebook
  print = print
  a1 = a1
  a2 = a2
  card = card
  momo = momo
  None = None
  Orders <- MCOrders
  Items <- MCItems
  Attempts <- MCAttempts
  Providers <- MCProviders
  OrderOf <- MCOrderOf
  ItemOrder <- MCItemOrder
  Digital <- MCDigital
  ProviderOf <- OneProvider
  Events = {e1, e2}
  Edits = {x1}
  Refunds = {r1, r2}
  Refundable = {card, momo}
  Simulated = {card}
  Refusable = {}
  MaxInFlight = 1
  MaxRestarts = 1
SYMMETRY Interchangeable
CHECK_DEADLOCK FALSE
INVARIANT SoldIsSettled
INVARIANT OneAttemptInFlight
PROPERTY OnlyAllowedTransitions
PROPERTY RefundedIsNotRepaid
