--------------------------- MODULE CommissionProofs ---------------------------
(***************************************************************************)
(* What holds of Commission for every set of rules, updates, lines and     *)
(* fees.  The invariant Inv says how a computed row is related to itself,  *)
(* which is all that the balance of a stored row needs, and that a pending *)
(* update names a row and a patch.                                         *)
(***************************************************************************)
EXTENDS Commission, Sums

\* A pending update has read a row and carries a patch.
UpdatesOK ==
  \A u \in Updates : update[u].step = "writing" =>
    update[u].rule \in Rules /\ update[u].patch \in Patches

\* What computeDistribution relates in a row, whatever the part of the fee.
Divided(row) ==
  /\ row.net = Larger(row.gross - row.providerFee, 0)
  /\ row.authorNet = row.net - row.commission

RowsDivided ==
  freeze \in {"computed", "stored"} => \A i \in DOMAIN rows : Divided(rows[i])

Inv == TypeOK /\ UpdatesOK /\ RulesAreLegal /\ RowsDivided /\ OnlyFeesAreRefused

-----------------------------------------------------------------------------

\* A quotient rounded half up is natural.
LEMMA RoundedNat ==
  ASSUME NEW n \in Nat
  PROVE  Rounded(n, 1000000) \in Nat /\ Rounded(n, 100) \in Nat
BY DEF Rounded

\* What the formula asks for is natural.
LEMMA RawCommissionNat ==
  ASSUME NEW c \in CommissionRule, NEW l \in Line, NEW net \in Nat
  PROVE  RawCommission(c, l, net) \in Nat
<1>1. c.value \in Nat /\ l.total \in Nat /\ l.quantity \in Nat
  BY DEF CommissionRule, Line
<1>2. c.value * l.quantity \in Nat
  BY <1>1
<1>3. (IF c.base = "gross_amount" THEN l.total ELSE net) * c.value \in Nat
  <2>1. (IF c.base = "gross_amount" THEN l.total ELSE net) \in Nat
    BY <1>1
  <2> HIDE DEF CommissionRule
  <2> QED BY <1>1, <2>1
<1>4. 100 * 10000 = 1000000
  OBVIOUS
<1> QED BY <1>2, <1>3, <1>4, RoundedNat DEF RawCommission

\* A line whose part of the fee is natural is distributed in natural amounts.
LEMMA DistributionLegal ==
  ASSUME TypeOK, NEW l \in Line, NEW fee \in Nat, NEW r \in Existing \cup {None}
  PROVE  ComputeDistribution(l, fee, r) \in SaleDistribution
<1> DEFINE net == Larger(l.total - fee, 0)
<1>1. l.total \in Nat
  BY DEF Line
<1>2. net \in Nat
  BY <1>1 DEF Larger
<1>3. Commission(r, l, net) \in Nat /\ net - Commission(r, l, net) \in Nat
  <2>1. CASE r = None
    BY <2>1, <1>2 DEF Commission
  <2>2. CASE r # None
    <3>1. rule[r] \in CommissionRule
      BY <2>2 DEF Existing, TypeOK
    <3>2. RawCommission(rule[r], l, net) \in Nat
      BY <1>2, <3>1, RawCommissionNat
    <3> HIDE DEF net
    <3> QED BY <1>2, <2>2, <3>2 DEF Commission, Smaller
  <2> QED BY <2>1, <2>2
<1>4. r \in Rules \cup {None}
  BY DEF Existing
<1> QED BY <1>1, <1>2, <1>3, <1>4 DEF ComputeDistribution, SaleDistribution

\* A patched rule has the shape of a rule.
LEMMA PatchedOK ==
  ASSUME NEW c \in CommissionRule, NEW p \in Patches
  PROVE  Patched(c, p) \in CommissionRule
<1>1. p \in Patch
  BY CommissionAssumption
<1> QED BY <1>1 DEF Patched, Given, CommissionRule, Patch

\* A selected rule exists.
LEMMA SelectedExists ==
  ASSUME NEW l, NEW soldAt, NEW r \in SelectRule(l, soldAt)
  PROVE  r \in Existing \cup {None}
BY DEF SelectRule, MostRecent, OfAuthor, OfTenant, OfType, General, InEffect

-----------------------------------------------------------------------------

LEMMA InitInv == Init => Inv
BY CommissionAssumption, NoneIsNothing
   DEF Init, Inv, TypeOK, UpdatesOK, RulesAreLegal, RowsDivided, OnlyFeesAreRefused,
       UpdateRequests, Idle, Existing

\* Creating a rule.
LEMMA CreateRuleInv ==
  ASSUME Inv, NEW r \in Rules, NEW c \in NewRules, CreateRule(r, c)
  PROVE  Inv'
<1> c \in CommissionRule
  BY CommissionAssumption
<1>1. TypeOK'
  BY DEF Inv, CreateRule, TypeOK
<1>2. RulesAreLegal'
  BY DEF Inv, CreateRule, TypeOK, RulesAreLegal, Existing
<1> QED BY <1>1, <1>2 DEF Inv, CreateRule, UpdatesOK, RowsDivided, OnlyFeesAreRefused

\* Removing a rule leaves the amounts of the rows.
LEMMA RemoveRuleInv ==
  ASSUME Inv, NEW r \in Rules, RemoveRule(r)
  PROVE  Inv'
<1>1. freeze = "stored" => \A i \in DOMAIN rows' :
        /\ i \in DOMAIN rows
        /\ rows'[i] \in SaleDistribution
        /\ rows'[i] = rows[i] \/ rows'[i] = [rows[i] EXCEPT !.rule = None]
  BY DEF Inv, RemoveRule, Forget, TypeOK, SaleDistribution
<1>2. freeze # "stored" => rows' = rows
  BY DEF RemoveRule
<1>3. TypeOK'
  BY <1>1, <1>2 DEF Inv, RemoveRule, TypeOK
<1>4. RulesAreLegal'
  BY DEF Inv, RemoveRule, TypeOK, RulesAreLegal, Existing
<1>5. RowsDivided'
  <2>1. CASE freeze = "stored"
    <3> SUFFICES ASSUME NEW i \in DOMAIN rows' PROVE Divided(rows'[i])
      BY DEF RowsDivided, Divided
    <3>1. i \in DOMAIN rows /\ rows[i] \in SaleDistribution /\ Divided(rows[i])
      BY <1>1, <2>1 DEF Inv, RowsDivided, TypeOK
    <3>2. CASE rows'[i] = rows[i]
      BY <3>1, <3>2
    <3>3. CASE rows'[i] = [rows[i] EXCEPT !.rule = None]
      BY <3>1, <3>3 DEF Divided, SaleDistribution
    <3> QED BY <1>1, <2>1, <3>2, <3>3
  <2>2. CASE freeze # "stored"
    BY <1>2, <2>2 DEF Inv, RemoveRule, RowsDivided, Divided
  <2> QED BY <2>1, <2>2
<1>6. OnlyFeesAreRefused'
  BY <1>2 DEF Inv, RemoveRule, OnlyFeesAreRefused
<1> QED BY <1>3, <1>4, <1>5, <1>6 DEF Inv, RemoveRule, UpdatesOK

LEMMA ReadForUpdateInv ==
  ASSUME Inv, NEW r \in Rules, NEW u \in Updates, NEW p \in Patches,
         ReadForUpdate(u, r, p)
  PROVE  Inv'
<1>1. TypeOK' /\ UpdatesOK'
  BY DEF Inv, ReadForUpdate, TypeOK, UpdatesOK, UpdateRequests
<1> QED BY <1>1 DEF Inv, ReadForUpdate, RulesAreLegal, Existing, RowsDivided, OnlyFeesAreRefused

\* The CHECK constraints keep a rule legal when updates overlap.
LEMMA WriteUpdateInv ==
  ASSUME Inv, NEW u \in Updates, WriteUpdate(u)
  PROVE  Inv'
<1> DEFINE r == update[u].rule
           c == Patched(rule[r], update[u].patch)
<1>1. r \in Rules /\ update[u].patch \in Patches
  BY DEF Inv, WriteUpdate, UpdatesOK
<1>2. CASE r \in Existing /\ ChecksOK(c)
  <2>1. c \in CommissionRule
    BY <1>1, <1>2, PatchedOK DEF Inv, TypeOK, Existing
  <2>2. rule' = [rule EXCEPT ![r] = c]
    BY <1>2 DEF WriteUpdate
  <2>3. ValueOK(c) /\ ScopeOK(c)
    BY <1>2 DEF ChecksOK
  <2> HIDE DEF c
  <2>4. rule' \in [Rules -> CommissionRule \cup {None}]
    BY <1>1, <2>1, <2>2 DEF Inv, TypeOK
  <2>5. RulesAreLegal'
    <3> SUFFICES ASSUME NEW s \in Existing' PROVE ScopeOK(rule'[s]) /\ ValueOK(rule'[s])
      BY DEF RulesAreLegal, ScopeOK, ValueOK
    <3>1. CASE s = r
      BY <1>1, <2>2, <2>3, <3>1 DEF Inv, TypeOK
    <3>2. CASE s # r
      BY <1>1, <2>2, <3>2 DEF Inv, TypeOK, RulesAreLegal, Existing
    <3> QED BY <3>1, <3>2
  <2> QED BY <2>4, <2>5, NoneIsNothing
          DEF Inv, WriteUpdate, TypeOK, UpdatesOK, UpdateRequests, Idle, RowsDivided,
              OnlyFeesAreRefused
<1>3. CASE ~(r \in Existing /\ ChecksOK(c))
  <2>1. rule' = rule
    BY <1>3 DEF WriteUpdate
  <2> QED BY <2>1, NoneIsNothing
          DEF Inv, WriteUpdate, TypeOK, RulesAreLegal, Existing, UpdatesOK, UpdateRequests,
              Idle, RowsDivided, OnlyFeesAreRefused
<1> QED BY <1>2, <1>3

LEMMA ElapseInv == ASSUME Inv, Elapse PROVE Inv'
BY DEF Inv, Elapse, TypeOK, RulesAreLegal, Existing, UpdatesOK, RowsDivided, OnlyFeesAreRefused

\* The rows computed for a sale.
LEMMA ReadRulesInv ==
  ASSUME Inv, NEW lines \in Orders, NEW fee \in Fees, ReadRules(lines, fee)
  PROVE  Inv'
<1> DEFINE share == AllocateProviderFee(lines, fee)
<1>1. PICK chosen \in [DOMAIN lines -> Rules \cup {None}] :
        /\ \A i \in DOMAIN lines : chosen[i] \in SelectRule(lines[i], now)
        /\ rows' = [i \in DOMAIN lines |-> ComputeDistribution(lines[i], share[i], chosen[i])]
  BY DEF ReadRules
<1>2. \A i \in DOMAIN lines : lines[i] \in Line
  BY CommissionAssumption DEF Orders
<1>3. \A i \in DOMAIN lines : chosen[i] \in Existing \cup {None}
  BY <1>1, SelectedExists
<1> HIDE DEF share
<1>4. RowsDivided'
  BY <1>1 DEF ReadRules, RowsDivided, Divided, ComputeDistribution
<1>5. OnlyFeesAreRefused'
  <2> SUFFICES ASSUME NEW i \in DOMAIN rows', rows'[i].providerFee \in Nat
               PROVE  rows'[i] \in SaleDistribution
    BY DEF OnlyFeesAreRefused, SaleDistribution
  <2>1. i \in DOMAIN lines /\ rows'[i] = ComputeDistribution(lines[i], share[i], chosen[i])
    BY <1>1
  <2>2. share[i] \in Nat
    BY <2>1 DEF ComputeDistribution
  <2> QED BY <1>2, <1>3, <2>1, <2>2, DistributionLegal DEF Inv
<1>6. TypeOK'
  BY DEF Inv, ReadRules, TypeOK
<1> QED BY <1>4, <1>5, <1>6 DEF Inv, ReadRules, UpdatesOK, RulesAreLegal, Existing

LEMMA InsertRowsInv == ASSUME Inv, InsertRows \/ RollBack PROVE Inv'
<1>1. CASE InsertRows
  BY <1>1 DEF Inv, InsertRows, Insertable, TypeOK, RulesAreLegal, Existing, UpdatesOK,
              RowsDivided, OnlyFeesAreRefused
<1>2. CASE RollBack
  BY <1>2 DEF Inv, RollBack, TypeOK, RulesAreLegal, Existing, UpdatesOK,
              RowsDivided, OnlyFeesAreRefused
<1> QED BY <1>1, <1>2

LEMMA StutterInv == ASSUME Inv, UNCHANGED vars PROVE Inv'
BY DEF Inv, vars, TypeOK, RulesAreLegal, Existing, UpdatesOK, RowsDivided, OnlyFeesAreRefused

LEMMA Invariance == Spec => []Inv
<1>1. Inv /\ [Next]_vars => Inv'
  BY CreateRuleInv, RemoveRuleInv, ReadForUpdateInv, WriteUpdateInv, ElapseInv,
     ReadRulesInv, InsertRowsInv, StutterInv DEF Next
<1> QED BY <1>1, InitInv, PTL DEF Spec

-----------------------------------------------------------------------------

\* Every variable keeps the shape of the columns and requests it stands for.
THEOREM CommissionTyped == Spec => []TypeOK
BY Invariance, PTL DEF Inv

\* However updates overlap, a rule names one scope and takes at most the sale.
THEOREM RulesStayLegal == Spec => []RulesAreLegal
BY Invariance, PTL DEF Inv

\* Whatever the rules, a line can only be refused for its part of the fee.
THEOREM CapHolds == Spec => []OnlyFeesAreRefused
BY Invariance, PTL DEF Inv

\* Every stored line is divided to the centime.
THEOREM SalesBalance == Spec => []SaleIsBalanced
<1>1. Inv => SaleIsBalanced
  <2> SUFFICES ASSUME Inv, freeze = "stored", NEW i \in DOMAIN rows
               PROVE  LET row == rows[i]
                      IN /\ row.commission <= row.net
                         /\ IF row.providerFee <= row.gross
                            THEN row.providerFee + row.commission + row.authorNet = row.gross
                            ELSE row.commission = 0 /\ row.authorNet = 0
    BY DEF SaleIsBalanced
  <2>1. rows[i] \in SaleDistribution /\ Divided(rows[i])
    BY DEF Inv, TypeOK, RowsDivided
  <2>2. /\ rows[i].gross \in Nat /\ rows[i].providerFee \in Nat /\ rows[i].net \in Nat
        /\ rows[i].commission \in Nat /\ rows[i].authorNet \in Nat
    BY <2>1 DEF SaleDistribution
  <2> QED BY <2>1, <2>2 DEF Divided, Larger
<1> QED BY <1>1, Invariance, PTL

\* règles n° 13 and 14: once stored, the amounts of a sale never change.
THEOREM SalesAreForGood == Spec => SoldForGood
<1> DEFINE A == freeze = "stored" =>
                  /\ freeze' = "stored"
                  /\ DOMAIN rows' = DOMAIN rows
                  /\ \A i \in DOMAIN rows :
                       \/ rows'[i] = rows[i]
                       \/ /\ rows'[i] = [rows[i] EXCEPT !.rule = None]
                          /\ rows[i].rule \notin Existing'
<1>1. Inv /\ [Next]_vars => [A]_vars
  <2> SUFFICES ASSUME Inv, Next, freeze = "stored" PROVE A
    OBVIOUS
  <2>1. ASSUME NEW r \in Rules, RemoveRule(r) PROVE A
    <3>1. r \notin Existing'
      BY <2>1 DEF Inv, TypeOK, RemoveRule, Existing
    <3>2. freeze' = "stored" /\ rows' = Forget(r)
      BY <2>1 DEF RemoveRule
    <3> QED BY <3>1, <3>2 DEF Forget
  <2>2. ASSUME ~ \E r \in Rules : RemoveRule(r) PROVE rows' = rows /\ freeze' = "stored"
    BY <2>2 DEF Next, CreateRule, ReadForUpdate, WriteUpdate, Elapse, ReadRules, InsertRows,
                RollBack
  <2> QED BY <2>1, <2>2
<1>2. [][A]_vars => SoldForGood
  BY PTL DEF SoldForGood
<1> QED BY <1>1, <1>2, Invariance, PTL DEF Spec

-----------------------------------------------------------------------------
(* The choice of a rule.  The four scopes selectRule looks through are all *)
(* the rules that apply to the line, each as narrow as its scope, because  *)
(* a rule names one scope at most.                                         *)

LEMMA ScopesOfLine ==
  ASSUME Inv, NEW l \in Line
  PROVE  /\ \A r \in OfAuthor(InEffect(now), l)  : r \in Applicable(l) /\ Narrowness(r) = 3
         /\ \A r \in OfTenant(InEffect(now), l)  : r \in Applicable(l) /\ Narrowness(r) = 2
         /\ \A r \in OfType(InEffect(now), l)    : r \in Applicable(l) /\ Narrowness(r) = 1
         /\ \A r \in General(InEffect(now))      : r \in Applicable(l) /\ Narrowness(r) = 0
         /\ Applicable(l) \subseteq OfAuthor(InEffect(now), l) \cup OfTenant(InEffect(now), l)
                                      \cup OfType(InEffect(now), l) \cup General(InEffect(now))
<1>1. /\ l.author \in Authors /\ l.tenant \in Tenants /\ TypeOf[l.tenant] \in TenantTypes
      /\ l.author # None /\ l.tenant # None /\ TypeOf[l.tenant] # None
  BY CommissionAssumption, NoneIsNothing DEF Line
<1>2. \A r \in Existing : ScopeOK(rule[r]) /\ rule[r] \in CommissionRule
  BY DEF Inv, RulesAreLegal, TypeOK, Existing
<1>3. InEffect(now) =
        {r \in Existing : /\ rule[r].active
                          /\ now >= rule[r].from /\ (rule[r].to = None \/ now <= rule[r].to)}
  <2>1. now \in Nat /\ \A r \in Existing : rule[r].from \in Nat /\ rule[r].to \in Nat \cup {None}
    BY <1>2 DEF Inv, TypeOK, CommissionRule
  <2> QED
    BY <2>1 DEF InEffect
<1>4. Applicable(l) =
        {r \in InEffect(now) : /\ rule[r].author \in {None, l.author}
                               /\ rule[r].tenant \in {None, l.tenant}
                               /\ rule[r].tenantType \in {None, TypeOf[l.tenant]}}
  BY <1>3 DEF Applicable
<1>5. InEffect(now) \subseteq Existing
  BY DEF InEffect
<1> HIDE DEF InEffect
<1> QED
  BY <1>1, <1>2, <1>4, <1>5 DEF ScopeOK, OfAuthor, OfTenant, OfType, General, Narrowness

\* What selectRule returns for a line, in the words of the property.
LEMMA NarrowestSelected ==
  ASSUME Inv, NEW l \in Line, NEW chosen \in SelectRule(l, now)
  PROVE  IF chosen = None THEN Applicable(l) = {}
         ELSE /\ chosen \in Applicable(l)
              /\ \A r \in Applicable(l) :
                   \/ Narrowness(r) < Narrowness(chosen)
                   \/ Narrowness(r) = Narrowness(chosen) /\ rule[r].from <= rule[chosen].from
<1> DEFINE A == OfAuthor(InEffect(now), l)
           T == OfTenant(InEffect(now), l)
           Y == OfType(InEffect(now), l)
           G == General(InEffect(now))
<1>1. /\ \A r \in A : r \in Applicable(l) /\ Narrowness(r) = 3
      /\ \A r \in T : r \in Applicable(l) /\ Narrowness(r) = 2
      /\ \A r \in Y : r \in Applicable(l) /\ Narrowness(r) = 1
      /\ \A r \in G : r \in Applicable(l) /\ Narrowness(r) = 0
      /\ Applicable(l) \subseteq A \cup T \cup Y \cup G
  BY ScopesOfLine
<1>2. \A r \in Applicable(l) : r # None /\ rule[r].from \in Nat
  BY NoneIsNothing DEF Applicable, Existing, Inv, TypeOK, CommissionRule
<1>3. \/ A # {} /\ chosen \in MostRecent(A)
      \/ A = {} /\ T # {} /\ chosen \in MostRecent(T)
      \/ A = {} /\ T = {} /\ Y # {} /\ chosen \in MostRecent(Y)
      \/ A = {} /\ T = {} /\ Y = {} /\ G # {} /\ chosen \in MostRecent(G)
      \/ A = {} /\ T = {} /\ Y = {} /\ G = {} /\ chosen = None
  BY DEF SelectRule
<1> HIDE DEF A, T, Y, G
<1>4. ASSUME NEW S, chosen \in MostRecent(S), S \subseteq Applicable(l),
             \A r \in Applicable(l) \ S : Narrowness(r) < Narrowness(chosen),
             \A r \in S : Narrowness(r) = Narrowness(chosen)
      PROVE  /\ chosen # None /\ chosen \in Applicable(l)
             /\ \A r \in Applicable(l) :
                  \/ Narrowness(r) < Narrowness(chosen)
                  \/ Narrowness(r) = Narrowness(chosen) /\ rule[r].from <= rule[chosen].from
  BY <1>2, <1>4 DEF MostRecent
<1>5. \A S : MostRecent(S) \subseteq S
  BY DEF MostRecent
<1>6. CASE A # {} /\ chosen \in MostRecent(A)
  BY <1>1, <1>4, <1>5, <1>6
<1>7. CASE A = {} /\ T # {} /\ chosen \in MostRecent(T)
  BY <1>1, <1>4, <1>5, <1>7
<1>8. CASE A = {} /\ T = {} /\ Y # {} /\ chosen \in MostRecent(Y)
  BY <1>1, <1>4, <1>5, <1>8
<1>9. CASE A = {} /\ T = {} /\ Y = {} /\ G # {} /\ chosen \in MostRecent(G)
  BY <1>1, <1>4, <1>5, <1>9
<1>10. CASE A = {} /\ T = {} /\ Y = {} /\ G = {} /\ chosen = None
  BY <1>1, <1>10
<1> QED
  BY <1>3, <1>6, <1>7, <1>8, <1>9, <1>10

\* Of the rules in effect for a line when its sale is frozen, a narrowest one is
\* applied and, among those, a most recent one (selectRule).
THEOREM NarrowestRuleIsApplied == Spec => NarrowestRuleApplies
<1> DEFINE Right(i) ==
      LET chosen == rows'[i].rule
          candidates == Applicable(sale'.lines[i])
      IN IF chosen = None THEN candidates = {}
         ELSE /\ chosen \in candidates
              /\ \A r \in candidates :
                   \/ Narrowness(r) < Narrowness(chosen)
                   \/ /\ Narrowness(r) = Narrowness(chosen)
                      /\ rule[r].from <= rule[chosen].from
           A == Freezing => \A i \in DOMAIN rows' : Right(i)
<1>1. Inv /\ [Next]_vars => [A]_vars
  <2> SUFFICES ASSUME Inv, Next, Freezing, NEW i \in DOMAIN rows' PROVE Right(i)
    OBVIOUS
  <2>1. PICK lines \in Orders, fee \in Fees : ReadRules(lines, fee)
    BY DEF Next, Freezing, CreateRule, RemoveRule, ReadForUpdate, WriteUpdate, Elapse, InsertRows,
           RollBack
  <2>2. PICK chosen \in [DOMAIN lines -> Rules \cup {None}] :
          /\ \A j \in DOMAIN lines : chosen[j] \in SelectRule(lines[j], now)
          /\ rows' = [j \in DOMAIN lines |->
               ComputeDistribution(lines[j], AllocateProviderFee(lines, fee)[j], chosen[j])]
    BY <2>1 DEF ReadRules
  <2>3. i \in DOMAIN lines /\ lines[i] \in Line
    BY <2>2, CommissionAssumption DEF Orders
  <2>4. rows'[i].rule = chosen[i] /\ sale'.lines[i] = lines[i]
    BY <2>1, <2>2, <2>3 DEF ReadRules, ComputeDistribution
  <2>5. chosen[i] \in SelectRule(lines[i], now)
    BY <2>2, <2>3
  <2> QED
    BY <2>3, <2>4, <2>5, NarrowestSelected
<1>2. [][A]_vars => NarrowestRuleApplies
  BY PTL DEF NarrowestRuleApplies
<1> QED
  BY <1>1, <1>2, Invariance, PTL DEF Spec

-----------------------------------------------------------------------------
(* The formula.                                                            *)

\* The quotient and its remainder.
LEMMA Division ==
  ASSUME NEW a \in Nat, NEW b \in Nat \ {0}
  PROVE  /\ a \div b \in Nat
         /\ b * (a \div b) <= a
         /\ a < b * (a \div b) + b
OBVIOUS

\* q is n / d to a half.
Near(q, n, d) == 2 * (q * d - n) \in -d .. d

\* A rounded quotient is the exact one to a half, whatever the divisor (Rounded).
LEMMA RoundedIsNearest ==
  ASSUME NEW n \in Nat, NEW d \in Nat \ {0}
  PROVE  /\ Rounded(n, d) \in Nat
         /\ Near(Rounded(n, d), n, d)
<1> DEFINE a == 2 * n + d
           b == 2 * d
           q == Rounded(n, d)
<1>1. a \in Nat /\ b \in Nat \ {0} /\ q = a \div b
  BY DEF Rounded
<1>2. q \in Nat /\ b * q <= a /\ a < b * q + b
  <2> HIDE DEF a, b, q
  <2> QED
    BY <1>1, Division
<1> HIDE DEF q
<1>3. b * q = 2 * (q * d) /\ q * d \in Int
  BY <1>2
<1> QED
  BY <1>2, <1>3 DEF q, Near

\* What the rule asks for is the exact amount to half a hundredth.
LEMMA RawCommissionIsDue ==
  ASSUME NEW c \in CommissionRule, NEW l \in Line, NEW net \in Nat
  PROVE  /\ Due(c, l, net) \in Nat /\ Parts(c) \in {100, 1000000}
         /\ Near(RawCommission(c, l, net), Due(c, l, net), Parts(c))
<1>1. c.value \in Nat /\ l.total \in Nat /\ l.quantity \in Nat /\ c.kind \in Kinds
  BY DEF CommissionRule, Line
<1> DEFINE base == IF c.base = "gross_amount" THEN l.total ELSE net
<1>2. base \in Nat /\ 100 * 10000 = 1000000
  BY <1>1, SMT
<1>3. Parts(c) \in {100, 1000000}
  BY SMT DEF Parts
<1>4. ASSUME NEW n \in Nat, Due(c, l, net) = n, RawCommission(c, l, net) = Rounded(n, Parts(c))
      PROVE  Due(c, l, net) \in Nat /\ Near(RawCommission(c, l, net), Due(c, l, net), Parts(c))
  <2>1. Parts(c) \in Nat \ {0}
    BY <1>3
  <2> QED
    BY <1>4, <2>1, RoundedIsNearest
<1>5. CASE c.kind = "fixed"
  <2>1. c.value * l.quantity \in Nat
    BY <1>1
  <2>2. /\ Due(c, l, net) = c.value * l.quantity
        /\ RawCommission(c, l, net) = Rounded(c.value * l.quantity, Parts(c))
    BY <1>5, SMT DEF Due, RawCommission, Parts
  <2> QED
    BY <1>3, <1>4, <2>1, <2>2, SMT
<1>6. CASE c.kind = "percentage"
  <2>1. /\ Due(c, l, net) = c.value * base
        /\ RawCommission(c, l, net) = Rounded(base * c.value, Parts(c))
    BY <1>2, <1>6, SMT DEF Due, RawCommission, Parts
  <2> HIDE DEF base
  <2> DEFINE n == base * c.value
  <2>2. c.value * base = n /\ n \in Nat
    BY <1>1, <1>2, SMT
  <2>3. Due(c, l, net) = n /\ RawCommission(c, l, net) = Rounded(n, Parts(c))
    BY <2>1, <2>2, SMT
  <2> HIDE DEF n
  <2> QED
    BY <1>3, <1>4, <2>2, <2>3, SMT
<1> QED
  BY <1>1, <1>3, <1>5, <1>6, SMT DEF Kinds

\* The commission of a line follows the formula of commission.ts to half a
\* centime, or takes all that is left when the formula asks for more, whatever
\* the line's part of the fee, above its amount included (computeDistribution).
THEOREM FormulaIsFollowed ==
  ASSUME TypeOK, NEW l \in Line, NEW providerFee \in Int, NEW r \in Existing \cup {None}
  PROVE  LET row == ComputeDistribution(l, providerFee, r)
             parts == Parts(rule[r])
             due == Due(rule[r], l, row.net)
         IN IF r = None THEN row.commission = 0
            ELSE \/ row.commission = row.net /\ 2 * due >= (2 * row.net - 1) * parts
                 \/ 2 * (row.commission * parts - due) \in -parts .. parts
<1> DEFINE net == Larger(l.total - providerFee, 0)
           row == ComputeDistribution(l, providerFee, r)
<1>1. net \in Nat
  BY DEF Larger, Line
<1>2. row.net = net /\ row.commission = Commission(r, l, net)
  BY DEF ComputeDistribution
<1> HIDE DEF net, row
<1>3. CASE r = None
  BY <1>2, <1>3 DEF Commission, row
<1>4. CASE r # None
  <2> DEFINE raw == RawCommission(rule[r], l, net)
             due == Due(rule[r], l, net)
             parts == Parts(rule[r])
  <2>1. rule[r] \in CommissionRule
    BY <1>4 DEF Existing, TypeOK
  <2>2. /\ raw \in Nat /\ due \in Nat /\ parts \in {100, 1000000}
        /\ 2 * (raw * parts - due) \in -parts .. parts
    BY <1>1, <2>1, RawCommissionNat, RawCommissionIsDue, SMT DEF Near
  <2>3. row.commission = IF raw <= net THEN raw ELSE net
    BY <1>2, <1>4 DEF Commission, Smaller
  <2> HIDE DEF raw, due, parts
  \* Capped: the formula asked for a hundredth more at least.
  <2>4. CASE ~(raw <= net)
    <3>1. row.commission = net /\ raw >= net + 1
      BY <1>1, <2>2, <2>3, <2>4
    <3>2. parts \in Nat /\ 2 * (raw * parts) - 2 * due <= parts
      BY <2>2, SMT
    <3>3. raw * parts >= (net + 1) * parts
      BY <1>1, <2>2, <3>1, <3>2, SMT
    <3>4. 2 * due >= (2 * net - 1) * parts
      BY <1>1, <2>2, <3>2, <3>3, SMT
    <3> QED
      BY <1>2, <1>4, <3>1, <3>4 DEF row, due, parts
  <2>5. CASE raw <= net
    <3>1. 2 * (row.commission * parts - due) \in -parts .. parts
      BY <2>2, <2>3, <2>5
    <3> QED
      BY <1>2, <1>4, <3>1 DEF row, due, parts
  <2> QED
    BY <2>4, <2>5
<1> QED
  BY <1>3, <1>4

-----------------------------------------------------------------------------
(* The parts of the provider's fee.                                        *)

\* Products of a sum and of a difference.
LEMMA Distribute ==
  ASSUME NEW x \in Int, NEW y \in Int, NEW z \in Int
  PROVE  /\ (x + y) * z = x * z + y * z
         /\ (x - y) * z = x * z - y * z
         /\ x * z \in Int /\ y * z \in Int
OBVIOUS

\* Roundings add up: if each f[x] is near its proportion of the fee, the sum of f is
\* as near as there are terms to the proportion of the sum.
LEMMA SumNear ==
  ASSUME NEW f, NEW g, NEW S, IsFiniteSet(S), NEW total \in Nat, NEW fee \in Nat,
         \A x \in S : f[x] \in Int /\ g[x] \in Int /\ Near(f[x], g[x] * fee, total)
  PROVE  2 * (SumFunctionOnSet(f, S) * total - SumFunctionOnSet(g, S) * fee)
           \in -(Cardinality(S) * total) .. Cardinality(S) * total
<1> DEFINE Off(s) == 2 * (SumFunctionOnSet(f, s) * total - SumFunctionOnSet(g, s) * fee)
           Good == {s \in SUBSET S : Off(s) \in -(Cardinality(s) * total) .. Cardinality(s) * total}
<1>1. {} \in Good
  BY SumEmpty, FS_EmptySet
<1>2. ASSUME NEW s \in SUBSET S, s # {}, \A x \in s : s \ {x} \in Good PROVE s \in Good
  <2>1. IsFiniteSet(s)
    BY FS_Subset
  <2>2. PICK x \in s : TRUE
    BY <1>2
  <2> DEFINE a == SumFunctionOnSet(f, s \ {x})
             b == SumFunctionOnSet(g, s \ {x})
             k == Cardinality(s \ {x})
  <2>3. SumFunctionOnSet(f, s) = f[x] + a /\ SumFunctionOnSet(g, s) = g[x] + b
    BY <2>1, SumTakes
  <2>4. a \in Int /\ b \in Int
    BY <2>1, FS_RemoveElement, SumInt
  <2>5. k \in Nat /\ Cardinality(s) = k + 1
    <3>1. IsFiniteSet(s \ {x}) /\ Cardinality(s \ {x}) = Cardinality(s) - 1
      BY <2>1, FS_RemoveElement
    <3>2. Cardinality(s) \in Nat /\ Cardinality(s \ {x}) \in Nat
      BY <2>1, <3>1, FS_CardinalityType
    <3> QED
      BY <3>1, <3>2
  <2>6. 2 * (a * total - b * fee) \in -(k * total) .. k * total
    BY <1>2
  <2>7. f[x] \in Int /\ g[x] \in Int /\ 2 * (f[x] * total - g[x] * fee) \in -total .. total
    BY DEF Near
  <2> HIDE DEF a, b, k
  <2>8. /\ (f[x] + a) * total = f[x] * total + a * total
        /\ f[x] * total \in Int /\ a * total \in Int
    BY <2>4, <2>7, Distribute
  <2>9. /\ (g[x] + b) * fee = g[x] * fee + b * fee
        /\ g[x] * fee \in Int /\ b * fee \in Int
    BY <2>4, <2>7, Distribute
  <2>10. (k + 1) * total = k * total + total /\ k * total \in Int
    BY <2>5
  <2> QED
    BY <2>3, <2>5, <2>6, <2>7, <2>8, <2>9, <2>10
<1>3. SUBSET S \subseteq Good
  <2> HIDE DEF Good
  <2> QED
    BY <1>1, <1>2, SubsetInduction
<1> QED
  BY <1>3

\* Each share is near its proportion of the fee, and the last part takes what
\* the others leave.
LastTakesTheRest(parts, share, gross, fee, S, last) ==
  /\ IsFiniteSet(S) /\ last \in S
  /\ fee \in Nat /\ SumFunctionOnSet(gross, S) \in Nat
  /\ \A i \in S : /\ gross[i] \in Int /\ share[i] \in Int
                  /\ Near(share[i], gross[i] * fee, SumFunctionOnSet(gross, S))
  /\ parts[last] = fee - SumFunctionOnSet(share, S \ {last})
  /\ \A i \in S \ {last} : parts[i] = share[i]

\* The parts then add up to the fee, and the last is as far from its proportion
\* as all the others together.
LEMMA PartsAddUp ==
  ASSUME NEW S, NEW last, NEW gross, NEW share, NEW parts, NEW fee,
         LastTakesTheRest(parts, share, gross, fee, S, last)
  PROVE  LET total == SumFunctionOnSet(gross, S)
         IN /\ \A i \in S : parts[i] \in Int
            /\ SumFunctionOnSet(parts, S) = fee
            /\ \A i \in S : 2 * (parts[i] * total - gross[i] * fee)
                              \in -((Cardinality(S) - 1) * total) .. (Cardinality(S) - 1) * total
<1> SUFFICES
      ASSUME IsFiniteSet(S), last \in S, fee \in Nat,
             NEW total \in Nat, total = SumFunctionOnSet(gross, S),
             \A i \in S : gross[i] \in Int /\ share[i] \in Int /\ Near(share[i], gross[i] * fee, total),
             parts[last] = fee - SumFunctionOnSet(share, S \ {last}),
             \A i \in S \ {last} : parts[i] = share[i]
      PROVE  /\ \A i \in S : parts[i] \in Int
             /\ SumFunctionOnSet(parts, S) = fee
             /\ \A i \in S : 2 * (parts[i] * total - gross[i] * fee)
                               \in -((Cardinality(S) - 1) * total) .. (Cardinality(S) - 1) * total
  BY DEF LastTakesTheRest
<1> DEFINE rest == S \ {last}
           n == Cardinality(S)
           a == SumFunctionOnSet(share, rest)
           b == SumFunctionOnSet(gross, rest)
<1>1. IsFiniteSet(rest) /\ Cardinality(rest) = n - 1 /\ n \in Nat /\ n # 0
  BY FS_RemoveElement, FS_CardinalityType, FS_EmptySet
<1>2. a \in Int
  BY <1>1, SumInt
<1>3. b \in Int
  BY <1>1, SumInt
<1>4. total = gross[last] + b
  BY SumTakes
<1>5. SumFunctionOnSet(parts, rest) = a
  BY <1>1, SumSame
<1>6. \A i \in S : parts[i] \in Int
  BY <1>2
<1>7. SumFunctionOnSet(parts, S) = parts[last] + SumFunctionOnSet(parts, rest)
  BY <1>6, SumTakes
<1>8. SumFunctionOnSet(parts, S) = fee
  <2> HIDE DEF rest
  <2>1. SumFunctionOnSet(parts, S) = (fee - a) + a
    BY <1>5, <1>7 DEF rest
  <2> HIDE DEF a
  <2> QED
    BY <1>2, <2>1
<1>9. 2 * (a * total - b * fee) \in -((n - 1) * total) .. (n - 1) * total
  BY <1>1, SumNear
<1>10. parts[last] = fee - a /\ gross[last] \in Int
  OBVIOUS
<1>11. ASSUME NEW i \in rest
       PROVE  2 * (parts[i] * total - gross[i] * fee) \in -((n - 1) * total) .. (n - 1) * total
  <2>1. n - 1 \in Nat \ {0}
    <3>1. n - 1 # 0
      BY <1>1, FS_EmptySet
    <3> QED
      BY <1>1, <3>1
  <2>2. 2 * (parts[i] * total - gross[i] * fee) \in -total .. total /\ parts[i] \in Int /\ gross[i] \in Int
    BY DEF Near
  <2> DEFINE others == n - 1
  <2>3. others \in Nat /\ others >= 1
    <3> HIDE DEF n
    <3> QED
      BY <1>1, <2>1
  <2> HIDE DEF n, rest, others
  <2>4. others * total \in Nat /\ total <= others * total
    BY <2>3
  <2>5. parts[i] * total \in Int /\ gross[i] * fee \in Int
    BY <2>2
  <2> QED
    BY <2>2, <2>4, <2>5 DEF others
<1>12. 2 * (parts[last] * total - gross[last] * fee) \in -((n - 1) * total) .. (n - 1) * total
  <2> HIDE DEF a, b, n, rest
  <2>1. (fee - a) * total = fee * total - a * total /\ fee * total \in Int /\ a * total \in Int
    BY <1>2, Distribute
  <2>2. /\ (gross[last] + b) * fee = gross[last] * fee + b * fee
        /\ gross[last] * fee \in Int /\ b * fee \in Int
    BY <1>3, <1>10, Distribute
  <2>3. (n - 1) * total \in Int
    BY <1>1
  <2>4. fee * total = gross[last] * fee + b * fee
    BY <1>3, <1>4, <1>10, <2>2
  <2>5. parts[last] * total = fee * total - a * total
    BY <1>10, <2>1
  <2> QED
    BY <1>9, <2>1, <2>2, <2>3, <2>4, <2>5
<1> QED
  BY <1>6, <1>8, <1>11, <1>12

\* A sale has a line or more, each of a natural amount.
LEMMA SaleSize ==
  ASSUME NEW lines \in Orders
  PROVE  /\ Len(lines) \in Nat \ {0} /\ DOMAIN lines = 1 .. Len(lines)
         /\ IsFiniteSet(DOMAIN lines) /\ Cardinality(DOMAIN lines) = Len(lines)
         /\ \A i \in DOMAIN lines : lines[i].total \in Nat /\ lines[i].total <= Total(lines)
         /\ Total(lines) \in Nat
<1> DEFINE n == Len(lines)
           gross == [i \in 1 .. n |-> lines[i].total]
<1>1. /\ n \in Nat \ {0} /\ DOMAIN lines = 1 .. n
      /\ \A i \in 1 .. n : lines[i].total \in Nat
  BY CommissionAssumption DEF Orders, Line
<1>2. IsFiniteSet(1 .. n) /\ Cardinality(1 .. n) = n
  BY <1>1, FS_Interval
<1>3. Total(lines) = SumFunctionOnSet(gross, 1 .. n)
  BY <1>1 DEF Total, SumFunction
<1>4. \A i \in 1 .. n : gross[i] \in Nat
  BY <1>1
<1>5. Total(lines) \in Nat /\ \A i \in 1 .. n : gross[i] <= Total(lines)
  <2> HIDE DEF gross
  <2> QED
    BY <1>2, <1>3, <1>4, SumGrows
<1> QED
  BY <1>1, <1>2, <1>5

\* The parts of the fee are integers that add up to it, each within the roundings
\* of the other lines of its exact proportion (allocateProviderFee).
LEMMA FeeIsAllocated ==
  ASSUME NEW lines \in Orders, NEW fee \in Fees
  PROVE  LET parts == AllocateProviderFee(lines, fee)
             total == Total(lines)
             bound == (Len(lines) - 1) * total
         IN /\ DOMAIN parts = DOMAIN lines
            /\ \A i \in DOMAIN lines : parts[i] \in Int
            /\ SumFunction(parts) = IF total = 0 THEN 0 ELSE fee
            /\ \A i \in DOMAIN lines :
                 2 * (parts[i] * total - lines[i].total * fee) \in -bound .. bound
<1> DEFINE n == Len(lines)
           S == 1 .. n
           total == Total(lines)
           parts == AllocateProviderFee(lines, fee)
           gross == [i \in S |-> lines[i].total]
           share == [i \in S |-> Rounded(lines[i].total * fee, total)]
<1>1. /\ n \in Nat \ {0} /\ DOMAIN lines = S /\ n \in S
      /\ fee \in Nat
      /\ \A i \in S : lines[i].total \in Nat
  BY CommissionAssumption DEF Orders, Line
<1>2. IsFiniteSet(S) /\ Cardinality(S) = n
  BY <1>1, FS_Interval
<1>3. total = SumFunctionOnSet(gross, S)
  BY <1>1 DEF Total, SumFunction
<1>4. total \in Nat /\ \A i \in S : gross[i] \in Nat /\ gross[i] <= total
  BY <1>1, <1>2, <1>3, SumGrows
<1>5. CASE fee = 0 \/ total = 0
  <2>1. parts = [i \in S |-> 0]
    BY <1>5 DEF AllocateProviderFee
  <2>2. SumFunctionOnSet(parts, S) = 0
    <3> DEFINE Good == {s \in SUBSET S : SumFunctionOnSet(parts, s) = 0}
    <3>1. {} \in Good
      BY SumEmpty
    <3>2. ASSUME NEW s \in SUBSET S, s # {}, \A x \in s : s \ {x} \in Good PROVE s \in Good
      <4>1. IsFiniteSet(s)
        BY <1>2, FS_Subset
      <4>2. PICK x \in s : SumFunctionOnSet(parts, s) = parts[x] + SumFunctionOnSet(parts, s \ {x})
        BY <3>2, <4>1, SumSplits
      <4> QED
        BY <2>1, <3>2, <4>2
    <3>3. SUBSET S \subseteq Good
      <4> HIDE DEF Good, S
      <4> QED
        BY <1>2, <3>1, <3>2, SubsetInduction
    <3> QED
      BY <3>3
  <2>3. ASSUME NEW i \in S
        PROVE  2 * (parts[i] * total - lines[i].total * fee) \in -((n - 1) * total) .. (n - 1) * total
    <3>1. lines[i].total * fee = 0 /\ parts[i] * total = 0
      <4>1. CASE fee = 0
        BY <1>1, <1>4, <2>1, <4>1
      <4>2. CASE total = 0
        <5>1. lines[i].total = 0
          BY <1>1, <1>4, <4>2
        <5> QED
          BY <1>1, <2>1, <4>2, <5>1
      <4> QED
        BY <1>5, <4>1, <4>2
    <3>2. (n - 1) * total \in Nat
      BY <1>1, <1>4
    <3> HIDE DEF n, total
    <3> QED
      BY <3>1, <3>2
  <2> QED
    BY <1>1, <1>5, <2>1, <2>2, <2>3 DEF SumFunction
<1>6. CASE fee # 0 /\ total # 0
  <2>1. parts = [share EXCEPT ![n] = fee - SumFunctionOnSet(share, 1 .. n - 1)]
    BY <1>6 DEF AllocateProviderFee
  <2>2. ASSUME NEW i \in S
        PROVE  share[i] \in Int /\ Near(share[i], gross[i] * fee, total)
    <3>1. lines[i].total * fee \in Nat
      BY <1>1
    <3>2. share[i] = Rounded(lines[i].total * fee, total) /\ gross[i] = lines[i].total
      OBVIOUS
    <3> HIDE DEF total, share, gross
    <3> QED
      BY <1>4, <1>6, <3>1, <3>2, RoundedIsNearest
  <2>3. 1 .. n - 1 = S \ {n}
    BY <1>1
  <2>4. /\ DOMAIN parts = S
        /\ parts[n] = fee - SumFunctionOnSet(share, S \ {n})
        /\ \A i \in S \ {n} : parts[i] = share[i]
    <3> HIDE DEF parts
    <3>1. DOMAIN share = S
      OBVIOUS
    <3> HIDE DEF share
    <3> QED
      BY <1>1, <2>1, <2>3, <3>1
  <2>5. /\ \A i \in S : parts[i] \in Int
        /\ SumFunctionOnSet(parts, S) = fee
        /\ \A i \in S : 2 * (parts[i] * total - gross[i] * fee)
                          \in -((Cardinality(S) - 1) * total) .. (Cardinality(S) - 1) * total
    <3>1. \A i \in S : gross[i] \in Int /\ share[i] \in Int /\ Near(share[i], gross[i] * fee, total)
      BY <1>4, <2>2
    <3>2. n \in S /\ fee \in Nat /\ total \in Nat
      BY <1>1, <1>4
    <3> HIDE DEF parts, share, gross, total, S, n
    <3>3. LastTakesTheRest(parts, share, gross, fee, S, n)
      BY <1>2, <1>3, <2>4, <3>1, <3>2 DEF LastTakesTheRest
    <3> QED
      BY <1>3, <3>3, PartsAddUp
  <2>6. \A i \in S : gross[i] = lines[i].total
    OBVIOUS
  <2>7. SumFunction(parts) = fee
    BY <2>4, <2>5 DEF SumFunction
  <2> HIDE DEF parts, gross, total, S, n
  <2> QED
    BY <1>1, <1>2, <1>6, <2>4, <2>5, <2>6, <2>7 DEF parts, total, n
<1> QED
  BY <1>5, <1>6, <1>1, <1>4

-----------------------------------------------------------------------------
(* The sale being frozen.  Between the computation of its rows and their   *)
(* end, and after, the rows are those of the lines sold: SaleAllocated.    *)

\* The rows are one per line, with its amount and its part of the fee.
SaleAllocated ==
  freeze \in {"computed", "stored"} =>
    /\ sale.lines \in Orders /\ sale.fee \in Fees
    /\ DOMAIN rows = DOMAIN sale.lines
    /\ \A i \in DOMAIN rows :
         /\ rows[i].gross = sale.lines[i].total
         /\ rows[i].providerFee = AllocateProviderFee(sale.lines, sale.fee)[i]

\* Only freezing a sale changes what is sold and what it was charged.
LEMMA SaleIsKept ==
  ASSUME Inv, SaleAllocated, Next,
         ~ \E lines \in Orders, fee \in Fees : ReadRules(lines, fee)
  PROVE  SaleAllocated'
<1>1. \/ freeze' = "refused"
      \/ /\ freeze \in {"computed", "stored"} <=> freeze' \in {"computed", "stored"}
         /\ sale' = sale
         /\ rows' = rows \/ \E r \in Rules : freeze = "stored" /\ rows' = Forget(r)
  BY DEF Next, CreateRule, RemoveRule, ReadForUpdate, WriteUpdate, Elapse, InsertRows, RollBack
<1>2. ASSUME NEW r \in Rules, freeze = "stored", rows' = Forget(r)
      PROVE  /\ DOMAIN rows' = DOMAIN rows
             /\ \A i \in DOMAIN rows : /\ rows'[i].gross = rows[i].gross
                                     /\ rows'[i].providerFee = rows[i].providerFee
  BY <1>2 DEF Inv, TypeOK, Forget, SaleDistribution
<1>3. CASE freeze' = "refused"
  BY <1>3 DEF SaleAllocated
<1>4. CASE /\ freeze \in {"computed", "stored"} /\ sale' = sale
           /\ DOMAIN rows' = DOMAIN rows
           /\ \A i \in DOMAIN rows : /\ rows'[i].gross = rows[i].gross
                                   /\ rows'[i].providerFee = rows[i].providerFee
  <2>1. Orders' = Orders /\ Fees' = Fees
    BY DEF Orders
  <2> SUFFICES ASSUME NEW i \in DOMAIN rows'
               PROVE  /\ rows'[i].gross = sale'.lines[i].total
                      /\ rows'[i].providerFee = AllocateProviderFee(sale'.lines, sale'.fee)[i]
    BY <1>4, <2>1 DEF SaleAllocated
  <2> QED
    BY <1>4 DEF SaleAllocated
<1>5. CASE ~(freeze' \in {"computed", "stored"})
  BY <1>5 DEF SaleAllocated
<1> QED
  BY <1>1, <1>2, <1>3, <1>4, <1>5

\* What freezing a sale computes for its lines.
LEMMA RowsOfSale ==
  ASSUME NEW lines \in Orders, NEW fee \in Fees, ReadRules(lines, fee)
  PROVE  /\ sale' = [lines |-> lines, fee |-> fee] /\ freeze' = "computed"
         /\ DOMAIN rows' = DOMAIN lines
         /\ \A i \in DOMAIN lines :
              /\ lines[i] \in Line
              /\ \E r \in Existing \cup {None} :
                   rows'[i] = ComputeDistribution(lines[i], AllocateProviderFee(lines, fee)[i], r)
<1> DEFINE share == AllocateProviderFee(lines, fee)
<1>1. PICK chosen \in [DOMAIN lines -> Rules \cup {None}] :
        /\ \A i \in DOMAIN lines : chosen[i] \in SelectRule(lines[i], now)
        /\ rows' = [i \in DOMAIN lines |-> ComputeDistribution(lines[i], share[i], chosen[i])]
  BY DEF ReadRules
<1>2. \A i \in DOMAIN lines : chosen[i] \in Existing \cup {None}
  BY <1>1, SelectedExists
<1>3. \A i \in DOMAIN lines : lines[i] \in Line
  BY CommissionAssumption DEF Orders
<1> HIDE DEF share
<1>4. sale' = [lines |-> lines, fee |-> fee] /\ freeze' = "computed"
  BY DEF ReadRules
<1> QED
  BY <1>1, <1>2, <1>3, <1>4 DEF share

LEMMA SaleIsAllocated ==
  ASSUME NEW lines \in Orders, NEW fee \in Fees, ReadRules(lines, fee)
  PROVE  SaleAllocated'
<1> DEFINE share == AllocateProviderFee(lines, fee)
<1>1. /\ sale' = [lines |-> lines, fee |-> fee]
      /\ DOMAIN rows' = DOMAIN lines
      /\ \A i \in DOMAIN lines : rows'[i].gross = lines[i].total /\ rows'[i].providerFee = share[i]
  <2>1. \A l, f, r : /\ ComputeDistribution(l, f, r).gross = l.total
                     /\ ComputeDistribution(l, f, r).providerFee = f
    BY DEF ComputeDistribution
  <2>2. /\ sale' = [lines |-> lines, fee |-> fee]
        /\ DOMAIN rows' = DOMAIN lines
        /\ \A i \in DOMAIN lines : \E r : rows'[i] = ComputeDistribution(lines[i], share[i], r)
    BY RowsOfSale
  <2> HIDE DEF share
  <2> QED
    BY <2>1, <2>2
<1>2. sale'.lines = lines /\ sale'.fee = fee
  BY <1>1
<1> HIDE DEF share
<1> QED
  BY <1>1, <1>2 DEF SaleAllocated, share

LEMMA SaleStaysAllocated == Spec => []SaleAllocated
<1>1. Init => SaleAllocated
  BY DEF Init, SaleAllocated
<1>2. Inv /\ SaleAllocated /\ [Next]_vars => SaleAllocated'
  <2>1. ASSUME SaleAllocated, UNCHANGED vars PROVE SaleAllocated'
    BY <2>1 DEF SaleAllocated, vars
  <2> QED
    BY <2>1, SaleIsKept, SaleIsAllocated
<1> QED
  BY <1>1, <1>2, Invariance, PTL DEF Spec

\* The parts of the fee stored with a sale add up to what the provider charged, and
\* each is within the roundings of the others of its exact proportion, whatever the
\* number of lines (allocateProviderFee).
THEOREM FeesAreSharedOut == Spec => []FeesAreShared
<1>1. Inv /\ SaleAllocated => FeesAreShared
  <2> SUFFICES ASSUME Inv, SaleAllocated, freeze = "stored" PROVE FeesAreShared
    BY DEF FeesAreShared
  <2> DEFINE lines == sale.lines
             fee == sale.fee
             parts == AllocateProviderFee(lines, fee)
             total == Total(lines)
             n == Len(lines)
  <2>1. /\ lines \in Orders /\ fee \in Fees /\ DOMAIN rows = DOMAIN lines
        /\ \A i \in DOMAIN rows : rows[i].gross = lines[i].total /\ rows[i].providerFee = parts[i]
    BY DEF SaleAllocated
  <2>2. /\ DOMAIN parts = DOMAIN lines
        /\ \A i \in DOMAIN lines : parts[i] \in Int
        /\ SumFunction(parts) = IF total = 0 THEN 0 ELSE fee
        /\ \A i \in DOMAIN lines : 2 * (parts[i] * total - lines[i].total * fee)
                                     \in -((n - 1) * total) .. (n - 1) * total
    BY <2>1, FeeIsAllocated
  <2>3. [i \in DOMAIN rows |-> rows[i].gross] = [i \in DOMAIN lines |-> lines[i].total]
    BY <2>1
  <2>4. SumFunction([i \in DOMAIN rows |-> rows[i].gross]) = total
    BY <2>3 DEF Total
  <2>5. SumFunction([i \in DOMAIN rows |-> rows[i].providerFee]) = SumFunction(parts)
    <3> DEFINE charged == [i \in DOMAIN rows |-> rows[i].providerFee]
    <3>1. \A i \in DOMAIN rows : charged[i] = parts[i]
      BY <2>1
    <3>2. IsFiniteSet(DOMAIN lines)
      BY <2>1, SaleSize
    <3> HIDE DEF parts
    <3>3. SumFunctionOnSet(charged, DOMAIN lines) = SumFunctionOnSet(parts, DOMAIN lines)
      BY <2>1, <3>1, <3>2, SumSame
    <3>4. DOMAIN charged = DOMAIN lines
      BY <2>1
    <3> HIDE DEF charged
    <3>5. SumFunction(charged) = SumFunction(parts)
      BY <2>2, <3>3, <3>4 DEF SumFunction
    <3> QED
      BY <3>5 DEF charged
  <2>6. total \in Nat /\ n \in Nat
    BY <2>1, SaleSize
  <2>7. ASSUME NEW i \in DOMAIN rows
        PROVE  2 * (rows[i].providerFee * total - rows[i].gross * fee)
                 \in -(n * total) .. n * total
    <3>1. rows[i].providerFee = parts[i] /\ rows[i].gross = lines[i].total
      BY <2>1
    <3>2. 2 * (parts[i] * total - lines[i].total * fee) \in -((n - 1) * total) .. (n - 1) * total
      BY <2>1, <2>2
    <3> HIDE DEF n, total, parts, lines, fee
    <3>3. /\ (n - 1) * total = n * total - total
          /\ n * total \in Nat
      BY <2>6
    <3> QED
      BY <2>6, <3>1, <3>2, <3>3
  <2> HIDE DEF parts
  <2> QED
    BY <2>2, <2>4, <2>5, <2>7 DEF FeesAreShared
<1> QED
  BY <1>1, Invariance, SaleStaysAllocated, PTL

\* The commission frozen with a sale is the formula's to half a centime, or all
\* that is left of the line, whatever the rule, the quantity and the fee
\* (computeDistribution).
THEOREM CommissionsAreDue == Spec => CommissionIsDue
<1> DEFINE Right(i) ==
      LET row == rows'[i]
          parts == Parts(rule[row.rule])
          due == Due(rule[row.rule], sale'.lines[i], row.net)
      IN IF row.rule = None THEN row.commission = 0
         ELSE \/ row.commission = row.net /\ 2 * due >= (2 * row.net - 1) * parts
              \/ 2 * (row.commission * parts - due) \in -parts .. parts
           A == Freezing => \A i \in DOMAIN rows' : Right(i)
<1>1. Inv /\ [Next]_vars => [A]_vars
  <2> SUFFICES ASSUME Inv, Next, Freezing, NEW i \in DOMAIN rows' PROVE Right(i)
    OBVIOUS
  <2>1. PICK lines \in Orders, fee \in Fees : ReadRules(lines, fee)
    BY DEF Next, Freezing, CreateRule, RemoveRule, ReadForUpdate, WriteUpdate, Elapse, InsertRows,
           RollBack
  <2> DEFINE part == AllocateProviderFee(lines, fee)[i]
  <2>2. /\ i \in DOMAIN lines /\ lines[i] \in Line /\ sale'.lines[i] = lines[i]
        /\ \E r \in Existing \cup {None} : rows'[i] = ComputeDistribution(lines[i], part, r)
    BY <2>1, RowsOfSale
  <2>3. PICK r \in Existing \cup {None} : rows'[i] = ComputeDistribution(lines[i], part, r)
    BY <2>2
  <2>4. part \in Int
    BY <2>2, FeeIsAllocated
  <2>5. rows'[i].rule = r
    BY <2>3 DEF ComputeDistribution
  <2>6. TypeOK
    BY DEF Inv
  <2> HIDE DEF part
  <2>7. LET row == ComputeDistribution(lines[i], part, r)
            parts == Parts(rule[r])
            due == Due(rule[r], lines[i], row.net)
        IN IF r = None THEN row.commission = 0
           ELSE \/ row.commission = row.net /\ 2 * due >= (2 * row.net - 1) * parts
                \/ 2 * (row.commission * parts - due) \in -parts .. parts
    BY <2>2, <2>4, <2>6, FormulaIsFollowed
  <2> QED
    BY <2>2, <2>3, <2>5, <2>7
<1>2. [][A]_vars => CommissionIsDue
  BY PTL DEF CommissionIsDue
<1> QED
  BY <1>1, <1>2, Invariance, PTL DEF Spec

\* How far below zero a part of the fee can fall: by half a centime for each of the
\* other lines (allocateProviderFee).
LEMMA PartIsBounded ==
  ASSUME NEW lines \in Orders, NEW fee \in Fees, NEW i \in DOMAIN lines
  PROVE  /\ AllocateProviderFee(lines, fee)[i] \in Int
         /\ 2 * AllocateProviderFee(lines, fee)[i] >= 1 - Len(lines)
<1> DEFINE part == AllocateProviderFee(lines, fee)[i]
           gross == lines[i].total
           total == Total(lines)
           n == Len(lines)
<1>1. /\ part \in Int
      /\ 2 * (part * total - gross * fee) \in -((n - 1) * total) .. (n - 1) * total
  BY FeeIsAllocated
<1>2. total \in Nat /\ gross \in Nat /\ n \in Nat \ {0}
  BY SaleSize
<1>3. fee \in Nat
  BY CommissionAssumption
<1>4. CASE total = 0
  <2>1. part = 0
    BY <1>4, SaleSize DEF AllocateProviderFee
  <2> HIDE DEF n, part
  <2> QED
    BY <1>2, <2>1 DEF n, part
<1>5. CASE total # 0
  <2> SUFFICES 2 * part >= 1 - n
    BY <1>1
  <2> HIDE DEF part, gross, total, n
  <2>1. gross * fee \in Nat /\ part * total \in Int /\ (n - 1) * total \in Int
    BY <1>1, <1>2, <1>3
  <2>2. 2 * (part * total) >= -((n - 1) * total)
    BY <1>1, <2>1
  <2>3. (2 * part + (n - 1)) * total = 2 * (part * total) + (n - 1) * total
    BY <1>1, <1>2
  <2>4. (2 * part + (n - 1)) * total >= 0
    BY <2>1, <2>2, <2>3
  <2> DEFINE x == 2 * part + (n - 1)
  <2>5. x \in Int
    BY <1>1, <1>2
  <2>6. x >= 0
    <3> HIDE DEF x
    <3>1. x * total >= 0
      BY <2>4 DEF x
    <3> QED
      BY <1>2, <1>5, <2>5, <3>1
  <2> QED
    BY <1>1, <1>2, <2>6
<1> QED
  BY <1>4, <1>5

\* A confirmed payment takes its distribution with it, or the other way round, only
\* because a rule that was read has been removed since, or because the order has
\* three lines or more and the last one's part of the fee came out negative: the
\* roundings of two lines never cost a sale (allocateProviderFee, freezeForOrder).
THEOREM ShortSalesAreNotRefused ==
  Spec => [][freeze # "refused" /\ freeze' = "refused" =>
               \E i \in DOMAIN rows :
                 \/ rows[i].rule \notin Existing \cup {None}
                 \/ /\ rows[i].providerFee < 0
                    /\ 2 * rows[i].providerFee >= 1 - Len(sale.lines)
                    /\ Len(sale.lines) >= 3]_vars
<1> DEFINE A == freeze # "refused" /\ freeze' = "refused" =>
                  \E i \in DOMAIN rows :
                    \/ rows[i].rule \notin Existing \cup {None}
                    \/ /\ rows[i].providerFee < 0
                       /\ 2 * rows[i].providerFee >= 1 - Len(sale.lines)
                       /\ Len(sale.lines) >= 3
<1>1. Inv /\ SaleAllocated /\ [Next]_vars => [A]_vars
  <2> SUFFICES ASSUME Inv, SaleAllocated, Next, freeze # "refused", freeze' = "refused"
               PROVE  A
    OBVIOUS
  <2>1. freeze = "computed" /\ ~Insertable
    BY DEF Next, CreateRule, RemoveRule, ReadForUpdate, WriteUpdate, Elapse, ReadRules, InsertRows,
           RollBack
  <2>2. PICK i \in DOMAIN rows :
          rows[i] \notin SaleDistribution \/ rows[i].rule \notin Existing \cup {None}
    BY <2>1 DEF Insertable
  <2>3. CASE rows[i].rule \notin Existing \cup {None}
    BY <2>3
  <2>4. CASE rows[i] \notin SaleDistribution
    <3>1. rows[i].providerFee \notin Nat
      BY <2>1, <2>4 DEF Inv, OnlyFeesAreRefused
    <3>2. /\ sale.lines \in Orders /\ sale.fee \in Fees /\ i \in DOMAIN sale.lines
          /\ rows[i].providerFee = AllocateProviderFee(sale.lines, sale.fee)[i]
      BY <2>1 DEF SaleAllocated
    <3>3. rows[i].providerFee \in Int /\ 2 * rows[i].providerFee >= 1 - Len(sale.lines)
      BY <3>2, PartIsBounded
    <3>4. Len(sale.lines) \in Nat
      BY <3>2, SaleSize
    <3> QED
      BY <3>1, <3>3, <3>4
  <2> QED
    BY <2>2, <2>3, <2>4
<1> QED
  BY <1>1, Invariance, SaleStaysAllocated, PTL DEF Spec

=============================================================================
