SPECIFICATION FairSpec
CONSTANTS
  o1 = o1
  ebook = ebook
  print = print
  a1 = a1
  a2 = a2
  card = card
  momo = momo
  None = None
  Orders <- MCOrders
  Items <- MCItems
  Attempts <- MCAttempts
  Providers <- MCProviders
  OrderOf <- MCOrderOf
  ItemOrder <- MCItemOrder
  Digital <- MCDigital
  ProviderOf <- TwoProviders
  Events = {e1}
  Edits = {}
  Refunds = {}
  Refundable = {card, momo}
  Simulated = {}
  Refusable = {}
  MaxInFlight = 1
  MaxRestarts = 1
CHECK_DEADLOCK FALSE
PROPERTY AnsweredIsClosed
