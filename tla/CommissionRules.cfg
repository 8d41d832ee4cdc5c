SPECIFICATION Spec
CONSTANTS
  au1 = au1
  au2 = au2
  t1 = t1
  t2 = t2
  house = house
  solo = solo
  r1 = r1
  r2 = r2
  u1 = u1
  u2 = u2
  Keep = Keep
  None = None
  Authors <- MCAuthors
  Tenants <- MCTenants
  TenantTypes <- MCTenantTypes
  TypeOf <- MCTypeOf
  Rules = {r1, r2}
  NewRules <- ScopedRules
  Patches <- RulePatches
  Updates = {u1, u2}
  SoldLines <- OneLine
  MaxLines = 1
  Fees = {3}
  MaxDate = 1
SYMMETRY Interchangeable
CHECK_DEADLOCK FALSE
INVARIANT RulesAreLegal
PROPERTY NarrowestRuleApplies
PROPERTY SoldForGood
