------------------------------ MODULE Commission ------------------------------
(***************************************************************************)
(* The commission rules an administrator edits (AdminCommissionRules-      *)
(* Service) and the distribution of one sale frozen when its payment is    *)
(* confirmed (CommissionsService.freezeForOrder over the pure functions of *)
(* commission.ts).                                                         *)
(*                                                                         *)
(* Amounts are counted in hundredths, the scale of the columns; a          *)
(* commission value in ten-thousandths, of a percent or of a unit of       *)
(* currency.  Dates are natural numbers.                                   *)
(***************************************************************************)
EXTENDS Integers, Sequences, Functions

CONSTANTS
  Rules,         \* identifiers of commission_rules rows, never reused
  Authors,
  Tenants,
  TenantTypes,
  TypeOf,        \* tenants.type
  NewRules,      \* the rules an administrator may create
  Patches,       \* the partial updates of a rule
  Updates,       \* requests to update a rule that may overlap
  SoldLines,     \* order lines
  MaxLines,      \* lines of the sale
  Fees,          \* what a provider may charge for the whole order
  MaxDate,       \* last date of the clock
  Keep,          \* a field the update leaves out
  None           \* no author, no tenant, no end, no rule

VARIABLES
  rule,          \* commission_rules
  deleted,       \* rules removed since
  now,           \* the date
  update,        \* progress of AdminCommissionRulesService.update
  freeze,        \* progress of freezeForOrder for the sale
  sale,          \* the lines sold and the fee charged
  rows           \* sale_distributions: computed, then stored

vars == <<rule, deleted, now, update, freeze, sale, rows>>

-----------------------------------------------------------------------------
(* Shapes.                                                                 *)

Kinds == {"percentage", "fixed"}
Bases == {"gross_amount", "after_provider_fee"}

CommissionRule ==
  [author : Authors \cup {None}, tenant : Tenants \cup {None},
   tenantType : TenantTypes \cup {None}, kind : Kinds, value : Nat, base : Bases,
   from : Nat, to : Nat \cup {None}, active : BOOLEAN]

Patch ==
  [author : Authors \cup {None, Keep}, tenant : Tenants \cup {None, Keep},
   tenantType : TenantTypes \cup {None, Keep}, kind : Kinds \cup {Keep},
   value : Nat \cup {Keep}, base : Bases \cup {Keep}, from : Nat \cup {Keep},
   to : Nat \cup {None, Keep}, active : BOOLEAN \cup {Keep}]

Line == [author : Authors, tenant : Tenants, total : Nat, quantity : Nat]

\* A row the database accepts: chk_sale_distribution_amounts.
SaleDistribution ==
  [rule : Rules \cup {None}, gross : Nat, providerFee : Nat, net : Nat,
   commission : Nat, authorNet : Nat]

ASSUME CommissionAssumption ==
  /\ TypeOf \in [Tenants -> TenantTypes]
  /\ NewRules \subseteq CommissionRule
  /\ Patches \subseteq Patch
  /\ SoldLines \subseteq Line
  /\ MaxLines \in Nat
  /\ Fees \subseteq Nat
  /\ MaxDate \in Nat

ASSUME NoneIsNothing ==
  /\ None \notin Rules \cup CommissionRule
  /\ None \notin Authors \cup Tenants \cup TenantTypes

Idle == [step |-> "idle", rule |-> None, patch |-> None]
NoSale == [lines |-> <<>>, fee |-> 0]

UpdateRequests ==
  [step : {"idle", "writing"}, rule : Rules \cup {None}, patch : Patches \cup {None}]

Existing == {r \in Rules : rule[r] # None}

Init ==
  /\ rule = [r \in Rules |-> None]
  /\ deleted = {}
  /\ now = 0
  /\ update = [u \in Updates |-> Idle]
  /\ freeze = "idle"
  /\ sale = NoSale
  /\ rows = <<>>

-----------------------------------------------------------------------------
(* Plausible mistakes, one per property: each takes the place of the       *)
(* definition it names, and TLC must then refute the property.             *)

\* RollBack: the rows that could not be inserted are kept.
RollBackKeepsRows ==
  /\ freeze = "computed"
  /\ freeze' = "stored"
  /\ UNCHANGED <<rule, deleted, now, update, sale, rows>>

\* Smaller: the commission is not capped.
Uncapped(x, y) == x

\* Larger: what the line earns is the lesser of the two.
LargerSwapped(x, y) == IF x <= y THEN x ELSE y

\* Rounded: the fraction is dropped.
Truncated(n, d) == n \div d

\* Total: the lines are counted instead of added up.
TotalOfLines(lines) == Len(lines)

\* OfTenant: the rules of a tenant are forgotten.
OfTenantNone(rs, l) == {}

\* chk_commission_rules_*: the scope is left to the service.
ChecksValueOnly(c) == c.kind = "percentage" => c.value <= 100 * 10000

\* Forget: the rows go with their rule (ON DELETE CASCADE).
ForgetRows(r) == <<>>

-----------------------------------------------------------------------------
(* Editing the rules.                                                      *)

\* At most one of author, tenant and tenant type is named.
ScopeOK(c) ==
  \/ c.author = None /\ c.tenant = None
  \/ c.author = None /\ c.tenantType = None
  \/ c.tenant = None /\ c.tenantType = None

ValueOK(c) == c.kind = "percentage" => c.value <= 100 * 10000

PeriodOK(from, to) == to # None => from <= to

CreateRule(r, c) ==
  /\ rule[r] = None
  /\ r \notin deleted
  /\ ValueOK(c)
  /\ ScopeOK(c)
  /\ PeriodOK(c.from, c.to)
  /\ rule' = [rule EXCEPT ![r] = c]
  /\ UNCHANGED <<deleted, now, update, freeze, sale, rows>>

Given(new, old) == IF new = Keep THEN old ELSE new

Patched(c, p) ==
  [author |-> Given(p.author, c.author), tenant |-> Given(p.tenant, c.tenant),
   tenantType |-> Given(p.tenantType, c.tenantType), kind |-> Given(p.kind, c.kind),
   value |-> Given(p.value, c.value), base |-> Given(p.base, c.base),
   from |-> Given(p.from, c.from), to |-> Given(p.to, c.to),
   active |-> Given(p.active, c.active)]

\* The end of validity that update checks: an end set to null does not count
\* (dto.effectiveTo ?? existing.effectiveTo).
CheckedEnd(c, p) == IF p.to \in {Keep, None} THEN c.to ELSE p.to

\* The rule as it would become is checked against the row just read.
ReadForUpdate(u, r, p) ==
  /\ update[u].step = "idle"
  /\ r \in Existing
  /\ ValueOK(Patched(rule[r], p))
  /\ PeriodOK(Patched(rule[r], p).from, CheckedEnd(rule[r], p))
  /\ ScopeOK(Patched(rule[r], p))
  /\ update' = [update EXCEPT ![u] = [step |-> "writing", rule |-> r, patch |-> p]]
  /\ UNCHANGED <<rule, deleted, now, freeze, sale, rows>>

\* chk_commission_rules_value and chk_commission_rules_scope, which the
\* database checks again; nothing there compares the two dates.
ChecksOK(c) == ValueOK(c) /\ ScopeOK(c)

\* Only the given fields are written, over the row as it now is; a row that
\* is gone, or that a CHECK refuses, makes the request fail.
WriteUpdate(u) ==
  LET r == update[u].rule
      p == update[u].patch
  IN /\ update[u].step = "writing"
     /\ rule' = IF r \in Existing /\ ChecksOK(Patched(rule[r], p))
                THEN [rule EXCEPT ![r] = Patched(rule[r], p)] ELSE rule
     /\ update' = [update EXCEPT ![u] = Idle]
     /\ UNCHANGED <<deleted, now, freeze, sale, rows>>

\* ON DELETE SET NULL: the rows already stored lose the reference, nothing else.
Forget(r) == [i \in DOMAIN rows |->
                IF rows[i].rule = r THEN [rows[i] EXCEPT !.rule = None] ELSE rows[i]]

RemoveRule(r) ==
  /\ r \in Existing
  /\ rule' = [rule EXCEPT ![r] = None]
  /\ deleted' = deleted \cup {r}
  /\ rows' = IF freeze = "stored" THEN Forget(r) ELSE rows
  /\ UNCHANGED <<now, update, freeze, sale>>

Elapse ==
  /\ now < MaxDate
  /\ now' = now + 1
  /\ UNCHANGED <<rule, deleted, update, freeze, sale, rows>>

-----------------------------------------------------------------------------
(* selectRule: the narrowest scope that has a rule in effect; within it,   *)
(* the rule that came into effect last.  Rules that came together are in   *)
(* the order the database returns them, which is any.                      *)

InEffect(soldAt) ==
  {r \in Existing : /\ rule[r].active
                    /\ rule[r].to = None \/ rule[r].to >= soldAt
                    /\ rule[r].from <= soldAt}

MostRecent(candidates) ==
  {r \in candidates : \A s \in candidates : rule[r].from >= rule[s].from}

OfAuthor(rs, l) == {r \in rs : rule[r].author = l.author}
OfTenant(rs, l) == {r \in rs : rule[r].author = None /\ rule[r].tenant = l.tenant}
OfType(rs, l)   == {r \in rs : /\ rule[r].author = None
                               /\ rule[r].tenant = None
                               /\ rule[r].tenantType = TypeOf[l.tenant]}
General(rs)     == {r \in rs : /\ rule[r].author = None
                               /\ rule[r].tenant = None
                               /\ rule[r].tenantType = None}

SelectRule(l, soldAt) ==
  LET rs == InEffect(soldAt)
  IN IF OfAuthor(rs, l) # {} THEN MostRecent(OfAuthor(rs, l))
     ELSE IF OfTenant(rs, l) # {} THEN MostRecent(OfTenant(rs, l))
     ELSE IF OfType(rs, l) # {} THEN MostRecent(OfType(rs, l))
     ELSE IF General(rs) # {} THEN MostRecent(General(rs))
     ELSE {None}

-----------------------------------------------------------------------------
(* The formula.                                                            *)

\* Decimal division rounded half up, of natural numbers.
Rounded(n, d) == (2 * n + d) \div (2 * d)

Larger(x, y)  == IF x >= y THEN x ELSE y
Smaller(x, y) == IF x <= y THEN x ELSE y

Total(lines) == SumFunction([i \in DOMAIN lines |-> lines[i].total])

\* Each line's part of the fee is rounded; the last line takes what is left.
AllocateProviderFee(lines, fee) ==
  LET total == Total(lines)
      n == Len(lines)
      share == [i \in 1 .. n |-> Rounded(lines[i].total * fee, total)]
  IN IF fee = 0 \/ total = 0 THEN [i \in 1 .. n |-> 0]
     ELSE [share EXCEPT ![n] = fee - SumFunctionOnSet(share, 1 .. n - 1)]

RawCommission(c, l, net) ==
  IF c.kind = "percentage"
  THEN Rounded((IF c.base = "gross_amount" THEN l.total ELSE net) * c.value, 100 * 10000)
  ELSE Rounded(c.value * l.quantity, 100)

\* The commission is capped by what is left after the provider's fee.
Commission(r, l, net) ==
  IF r = None THEN 0 ELSE Smaller(RawCommission(rule[r], l, net), net)

ComputeDistribution(l, providerFee, r) ==
  LET net == Larger(l.total - providerFee, 0)
  IN [rule |-> r, gross |-> l.total, providerFee |-> providerFee, net |-> net,
      commission |-> Commission(r, l, net),
      authorNet |-> net - Commission(r, l, net)]

-----------------------------------------------------------------------------
(* freezeForOrder, in the transaction that confirms the payment: the rules *)
(* are read at once, the rows inserted later.                              *)

ReadRules(lines, fee) ==
  /\ freeze = "idle"
  /\ lines # <<>>
  /\ freeze' = "computed"
  /\ sale' = [lines |-> lines, fee |-> fee]
  /\ \E chosen \in [DOMAIN lines -> Rules \cup {None}] :
       /\ \A i \in DOMAIN lines : chosen[i] \in SelectRule(lines[i], now)
       /\ rows' = [i \in DOMAIN lines |->
            ComputeDistribution(lines[i], AllocateProviderFee(lines, fee)[i], chosen[i])]
  /\ UNCHANGED <<rule, deleted, now, update>>

\* The CHECK on the amounts and the foreign key on the rule.
Insertable == \A i \in DOMAIN rows : /\ rows[i] \in SaleDistribution
                                     /\ rows[i].rule \in Existing \cup {None}

InsertRows ==
  /\ freeze = "computed"
  /\ Insertable
  /\ freeze' = "stored"
  /\ UNCHANGED <<rule, deleted, now, update, sale, rows>>

\* The insertion fails and takes the confirmation of the payment with it.
RollBack ==
  /\ freeze = "computed"
  /\ ~Insertable
  /\ freeze' = "refused"
  /\ rows' = <<>>
  /\ UNCHANGED <<rule, deleted, now, update, sale>>

Orders == UNION {[1 .. n -> SoldLines] : n \in 1 .. MaxLines}

Next ==
  \/ \E r \in Rules : \/ \E c \in NewRules : CreateRule(r, c)
                      \/ RemoveRule(r)
                      \/ \E u \in Updates, p \in Patches : ReadForUpdate(u, r, p)
  \/ \E u \in Updates : WriteUpdate(u)
  \/ Elapse
  \/ \E lines \in Orders, fee \in Fees : ReadRules(lines, fee)
  \/ InsertRows
  \/ RollBack

Spec == Init /\ [][Next]_vars

-----------------------------------------------------------------------------
(* What holds whatever the rules, the lines and the fee.                   *)

\* Every variable has the shape of the columns or of the request it stands for.
TypeOK ==
  /\ rule \in [Rules -> CommissionRule \cup {None}]
  /\ deleted \subseteq Rules
  /\ now \in Nat
  /\ update \in [Updates -> UpdateRequests]
  /\ freeze \in {"idle", "computed", "stored", "refused"}
  /\ freeze = "stored" => \A i \in DOMAIN rows : rows[i] \in SaleDistribution

\* A rule names at most one scope and takes at most the whole sale, although two
\* updates may each check the row before the other writes it (update, and the
\* CHECK constraints that stop the second).
RulesAreLegal == \A r \in Existing : ScopeOK(rule[r]) /\ ValueOK(rule[r])

\* A line's amount is divided between the provider, GeBook and the author, to
\* the centime; a fee above the amount leaves both others nothing, never a debt
\* (computeDistribution).
SaleIsBalanced ==
  freeze = "stored" => \A i \in DOMAIN rows :
    LET row == rows[i]
    IN /\ row.commission <= row.net
       /\ IF row.providerFee <= row.gross
          THEN row.providerFee + row.commission + row.authorNet = row.gross
          ELSE row.commission = 0 /\ row.authorNet = 0

\* Of all a line may be refused for, only a negative part of the fee remains:
\* no rule, however high, makes the author's part negative (computeDistribution,
\* decision 2 of commission.ts).
OnlyFeesAreRefused ==
  freeze = "computed" => \A i \in DOMAIN rows :
    rows[i].providerFee \in Nat => rows[i] \in SaleDistribution

\* The parts of the fee add up to what the provider charged, and each is within
\* the roundings of the others of its exact proportion (allocateProviderFee).
FeesAreShared ==
  freeze = "stored" =>
    LET total == SumFunction([i \in DOMAIN rows |-> rows[i].gross])
        bound == Len(sale.lines) * total
    IN /\ SumFunction([i \in DOMAIN rows |-> rows[i].providerFee]) =
            IF total = 0 THEN 0 ELSE sale.fee
       /\ \A i \in DOMAIN rows :
            2 * (rows[i].providerFee * total - rows[i].gross * sale.fee) \in -bound .. bound

Freezing == freeze = "idle" /\ freeze' = "computed"

\* The formula of commission.ts in exact arithmetic: the commission of a rule,
\* in parts of a hundredth.
Parts(c) == IF c.kind = "fixed" THEN 100 ELSE 1000000
Due(c, l, net) ==
  c.value * (IF c.kind = "fixed" THEN l.quantity
             ELSE IF c.base = "gross_amount" THEN l.total ELSE net)

\* The commission is the formula's to half a centime, or all that is left when
\* the formula asks for more; without a rule there is none (computeDistribution).
CommissionIsDue ==
  [][Freezing => \A i \in DOMAIN rows' :
       LET row == rows'[i]
           parts == Parts(rule[row.rule])
           due == Due(rule[row.rule], sale'.lines[i], row.net)
       IN IF row.rule = None THEN row.commission = 0
          ELSE \/ row.commission = row.net /\ 2 * due >= (2 * row.net - 1) * parts
               \/ 2 * (row.commission * parts - due) \in -parts .. parts]_vars

\* The rules a sale of the line falls under, and how narrowly a rule aims.
Applicable(l) ==
  {r \in Existing : /\ rule[r].active
                    /\ now >= rule[r].from /\ (rule[r].to = None \/ now <= rule[r].to)
                    /\ rule[r].author \in {None, l.author}
                    /\ rule[r].tenant \in {None, l.tenant}
                    /\ rule[r].tenantType \in {None, TypeOf[l.tenant]}}

Narrowness(r) == IF rule[r].author # None THEN 3 ELSE IF rule[r].tenant # None THEN 2
                 ELSE IF rule[r].tenantType # None THEN 1 ELSE 0

\* The rule applied is in effect for the line, and none in effect is narrower,
\* or as narrow and more recent; no rule is applied only when none is in effect
\* (selectRule).
NarrowestRuleApplies ==
  [][Freezing => \A i \in DOMAIN rows' :
       LET chosen == rows'[i].rule
           candidates == Applicable(sale'.lines[i])
       IN IF chosen = None THEN candidates = {}
          ELSE /\ chosen \in candidates
               /\ \A r \in candidates :
                    \/ Narrowness(r) < Narrowness(chosen)
                    \/ /\ Narrowness(r) = Narrowness(chosen)
                       /\ rule[r].from <= rule[chosen].from]_vars

\* règles n° 13 and 14: no change or removal of a rule reaches a sale that is
\* stored, but for the reference to a rule that is gone (freezeForOrder).
SoldForGood ==
  [][freeze = "stored" =>
       /\ freeze' = "stored"
       /\ DOMAIN rows' = DOMAIN rows
       /\ \A i \in DOMAIN rows :
            \/ rows'[i] = rows[i]
            \/ /\ rows'[i] = [rows[i] EXCEPT !.rule = None]
               /\ rows[i].rule \notin Existing']_vars

-----------------------------------------------------------------------------
(* What the code says of itself and does not hold.                         *)

\* « refuser la vente après paiement le serait encore plus [indéfendable] »: the
\* distribution of a confirmed payment is never refused (commission.ts).
SaleIsNotRefused == freeze # "refused"
=============================================================================
