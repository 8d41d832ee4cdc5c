SPECIFICATION Spec
CONSTANTS
  au1 = au1
  au2 = au2
  t1 = t1
  t2 = t2
  house = house
  solo = solo
  r1 = r1
  r2 = r2
  u1 = u1
  u2 = u2
  Keep = Keep
  None = None
  Authors <- MCAuthors
  Tenants <- MCTenants
  TenantTypes <- MCTenantTypes
  TypeOf <- MCTypeOf
  Rules = {r1}
  NewRules <- AmountRules
  Patches <- NothingToDo
  Updates = {}
  SoldLines <- AmountLines
  MaxLines = 3
  Fees = {0, 1, 2, 7}
  MaxDate = 0
CHECK_DEADLOCK FALSE
INVARIANT TypeOK
INVARIANT SaleIsBalanced
INVARIANT OnlyFeesAreRefused
INVARIANT FeesAreShared
PROPERTY CommissionIsDue
