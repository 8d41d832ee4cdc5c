----------------------------- MODULE MCCommission -----------------------------
(* Instances of Commission: every formula on small amounts, and the choice of *)
(* a rule among rules that are edited meanwhile.                              *)
EXTENDS Commission, TLC

CONSTANTS au1, au2, t1, t2, house, solo, r1, r2, u1, u2

MCAuthors == {au1, au2}
MCTenants == {t1, t2}
MCTenantTypes == {house, solo}
MCTypeOf == t1 :> house @@ t2 :> solo

RuleFor(author, tenant, tenantType, from, to) ==
  [author |-> author, tenant |-> tenant, tenantType |-> tenantType,
   kind |-> "percentage", value |-> 300000, base |-> "gross_amount",
   from |-> from, to |-> to, active |-> TRUE]

General0 == RuleFor(None, None, None, 0, None)

NoPatch ==
  [author |-> Keep, tenant |-> Keep, tenantType |-> Keep, kind |-> Keep, value |-> Keep,
   base |-> Keep, from |-> Keep, to |-> Keep, active |-> Keep]

\* One general rule of every kind, base and a value below, at and above the price.
AmountRules ==
  {[General0 EXCEPT !.kind = k, !.value = v, !.base = b] :
     k \in Kinds, v \in {0, 125000, 333333, 1000000}, b \in Bases}
AmountLines ==
  {[author |-> au1, tenant |-> t1, total |-> p * q, quantity |-> q] :
     p \in {0, 1, 2, 5}, q \in {1, 3}}

\* Rules of every scope: for ever, from the second date, or for the first only.
ScopedRules ==
  {RuleFor(s[1], s[2], s[3], d[1], d[2]) :
     s \in {<<au1, None, None>>, <<None, t1, None>>, <<None, None, house>>,
            <<None, None, None>>},
     d \in {<<0, None>>, <<1, None>>, <<0, 0>>}}
OneLine == {[author |-> au1, tenant |-> t1, total |-> 100, quantity |-> 1],
            [author |-> au2, tenant |-> t2, total |-> 100, quantity |-> 1]}
RulePatches ==
  {[NoPatch EXCEPT !.active = FALSE],
   [NoPatch EXCEPT !.author = au1], [NoPatch EXCEPT !.author = None, !.tenant = t1],
   [NoPatch EXCEPT !.kind = "fixed", !.value = 1500000], [NoPatch EXCEPT !.kind = "percentage"]}

NothingToDo == {}
Interchangeable == Permutations(Rules) \cup Permutations(Updates)
=============================================================================
