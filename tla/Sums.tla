---------------------------------- MODULE Sums ----------------------------------
(***************************************************************************)
(* Sums over a finite set of any size, for the amounts of Commission and   *)
(* Payouts.  The recursion of SumFunctionOnSet is unfolded once, by        *)
(* induction over the subsets of the set; the rest cites only that a sum   *)
(* is any one of its terms and the sum of the others.                      *)
(***************************************************************************)
EXTENDS Integers, Functions, FiniteSetTheorems, WellFoundedInduction, TLAPS

-----------------------------------------------------------------------------
(* Induction, told by the set of what it holds of.                         *)

\* The order of the natural numbers, as a set of pairs.
Below == {pair \in Nat \X Nat : pair[1] < pair[2]}

\* A set of natural numbers that has an element has a least one.
LEMMA LeastNumber ==
  ASSUME NEW T \in SUBSET Nat, T # {}
  PROVE  \E m \in T : \A n \in T : m <= n
<1>1. IsWellFoundedOn(Below, Nat)
  BY NatLessThanWellFounded DEF OpToRel, Below
<1>2. \E m \in T : \A n \in T : <<n, m>> \notin Below
  BY <1>1, WFMin
<1>3. \A m, n \in Nat : <<n, m>> \notin Below => m <= n
  BY DEF Below
<1> QED
  BY <1>2, <1>3

\* Induction, over a set instead of an operator.
LEMMA CountUp ==
  ASSUME NEW T \in SUBSET Nat, 0 \in T, \A n \in T : n + 1 \in T
  PROVE  T = Nat
<1> SUFFICES ASSUME Nat \ T # {} PROVE FALSE
  OBVIOUS
<1>1. PICK m \in Nat \ T : \A n \in Nat \ T : m <= n
  BY LeastNumber
<1>2. m - 1 \in T
  BY <1>1
<1> QED
  BY <1>1, <1>2

\* Induction over the subsets of a finite set by their size: Good holds the empty
\* set, and a set as soon as it holds each of those with one element less.
LEMMA SubsetInduction ==
  ASSUME NEW S, IsFiniteSet(S), NEW Good, {} \in Good,
         \A s \in SUBSET S : s # {} /\ (\A x \in s : s \ {x} \in Good) => s \in Good
  PROVE  SUBSET S \subseteq Good
<1> DEFINE T == {n \in Nat : \A s \in SUBSET S : Cardinality(s) = n => s \in Good}
<1>1. \A s \in SUBSET S : IsFiniteSet(s) /\ Cardinality(s) \in Nat
  BY FS_Subset, FS_CardinalityType
<1>2. 0 \in T
  BY <1>1, FS_EmptySet
<1>3. ASSUME NEW n \in T PROVE n + 1 \in T
  <2> SUFFICES ASSUME NEW s \in SUBSET S, Cardinality(s) = n + 1 PROVE s \in Good
    OBVIOUS
  <2>1. s # {}
    <3>1. n + 1 # 0
      OBVIOUS
    <3> QED
      BY <3>1, FS_EmptySet
  <2>2. ASSUME NEW x \in s PROVE s \ {x} \in Good
    <3>1. IsFiniteSet(s) /\ Cardinality(s \ {x}) = n
      BY <1>1, FS_RemoveElement
    <3> QED
      BY <3>1
  <2> QED
    BY <2>1, <2>2
<1>4. T = Nat
  <2> HIDE DEF T
  <2>1. T \in SUBSET Nat
    BY DEF T
  <2> QED
    BY <1>2, <1>3, <2>1, CountUp
<1> QED
  BY <1>1, <1>4

-----------------------------------------------------------------------------
(* The recursion of a sum.                                                 *)

\* SumFunctionOnSet takes out one element after another, as CHOOSE has it; its
\* recursion is that of a function over the subsets.
SumStep(fun, f, s) ==
  IF s = {} THEN 0 ELSE LET x == CHOOSE x \in s : TRUE IN fun[x] + f[s \ {x}]

Summing(fun, S) == CHOOSE f : f = [s \in SUBSET S |-> SumStep(fun, f, s)]

\* The sum of the library is that function at the whole set.
LEMMA SumIs ==
  ASSUME NEW fun, NEW S
  PROVE  SumFunctionOnSet(fun, S) = Summing(fun, S)[S]
BY DEF SumFunctionOnSet, FoldFunctionOnSet, MapThenFoldSet, Summing, SumStep

\* The recursion has a solution over the subsets of a finite set.
LEMMA SummingIs ==
  ASSUME NEW fun, NEW S, IsFiniteSet(S)
  PROVE  Summing(fun, S) = [s \in SUBSET S |-> SumStep(fun, Summing(fun, S), s)]
<1> DEFINE Small(n) == {s \in SUBSET S : Cardinality(s) <= n}
           Sums(n, f) == f = [s \in Small(n) |-> SumStep(fun, f, s)]
           T == {n \in Nat : \E f : Sums(n, f)}
<1>1. \A s \in SUBSET S : IsFiniteSet(s) /\ Cardinality(s) \in Nat
  BY FS_Subset, FS_CardinalityType
<1>2. 0 \in T
  <2>1. Sums(0, [s \in Small(0) |-> 0])
    <3>1. \A s \in Small(0) : s = {}
      BY <1>1, FS_EmptySet
    <3> QED
      BY <3>1 DEF SumStep
  <2> QED
    BY <2>1
<1>3. ASSUME NEW n \in T PROVE n + 1 \in T
  <2>1. PICK f : Sums(n, f)
    OBVIOUS
  <2> DEFINE g == [s \in Small(n + 1) |-> SumStep(fun, f, s)]
  <2>2. ASSUME NEW s \in Small(n + 1) PROVE SumStep(fun, g, s) = SumStep(fun, f, s)
    <3>1. CASE s = {}
      BY <3>1 DEF SumStep
    <3>2. CASE s # {}
      <4> DEFINE x == CHOOSE x \in s : TRUE
      <4>1. x \in s
        BY <3>2
      <4>2. s \ {x} \in Small(n) /\ s \ {x} \in Small(n + 1)
        <5>1. Cardinality(s \ {x}) = Cardinality(s) - 1 /\ Cardinality(s) \in Nat
          BY <1>1, <4>1, FS_RemoveElement
        <5>2. n \in Nat /\ Cardinality(s) <= n + 1 /\ s \ {x} \in SUBSET S
          OBVIOUS
        <5> HIDE DEF x
        <5> QED
          BY <5>1, <5>2
      <4>3. g[s \ {x}] = SumStep(fun, f, s \ {x}) /\ f[s \ {x}] = SumStep(fun, f, s \ {x})
        BY <2>1, <4>2
      <4> QED
        BY <3>2, <4>3 DEF SumStep
    <3> QED
      BY <3>1, <3>2
  <2>3. Sums(n + 1, g)
    BY <2>2
  <2>4. n + 1 \in Nat
    OBVIOUS
  <2> HIDE DEF g
  <2> QED
    BY <2>3, <2>4
<1>4. Cardinality(S) \in T
  <2> HIDE DEF T
  <2>1. T \in SUBSET Nat
    BY DEF T
  <2> QED
    BY <1>1, <1>2, <1>3, <2>1, CountUp
<1>5. Small(Cardinality(S)) = SUBSET S
  BY <1>1, FS_Subset
<1>6. PICK f : f = [s \in SUBSET S |-> SumStep(fun, f, s)]
  BY <1>4, <1>5
<1> QED
  BY <1>6 DEF Summing

\* At each subset it takes its step.
LEMMA SummingSteps ==
  ASSUME NEW fun, NEW S, IsFiniteSet(S), NEW s \in SUBSET S
  PROVE  Summing(fun, S)[s] = SumStep(fun, Summing(fun, S), s)
<1> DEFINE F == Summing(fun, S)
<1>1. F = [t \in SUBSET S |-> SumStep(fun, F, t)]
  BY SummingIs
<1> HIDE DEF F
<1>2. F[s] = SumStep(fun, F, s)
  BY <1>1
<1> QED
  BY <1>2 DEF F

\* The sums of two functions agree where the functions do, whatever larger set the
\* recursion of the first ranges over.
LEMMA SummingAgrees ==
  ASSUME NEW fun, NEW gun, NEW S, IsFiniteSet(S), NEW T \in SUBSET S,
         \A x \in T : fun[x] = gun[x]
  PROVE  \A s \in SUBSET T : Summing(fun, S)[s] = Summing(gun, T)[s]
<1> DEFINE F == Summing(fun, S)
           G == Summing(gun, T)
           Good == {s \in SUBSET T : F[s] = G[s]}
<1>1. IsFiniteSet(T)
  BY FS_Subset
<1>2. /\ \A s \in SUBSET S : F[s] = SumStep(fun, F, s)
      /\ \A s \in SUBSET T : G[s] = SumStep(gun, G, s)
  BY <1>1, SummingSteps
<1> HIDE DEF F, G
<1>3. {} \in Good
  BY <1>2 DEF SumStep
<1>4. ASSUME NEW s \in SUBSET T, s # {}, \A x \in s : s \ {x} \in Good PROVE s \in Good
  BY <1>2, <1>4 DEF SumStep
<1>5. SUBSET T \subseteq Good
  <2> HIDE DEF Good
  <2> QED
    BY <1>1, <1>3, <1>4, SubsetInduction
<1> QED
  BY <1>5 DEF F, G

\* Functions equal on a set have the same sum over it.
LEMMA SumSame ==
  ASSUME NEW fun, NEW gun, NEW S, IsFiniteSet(S), \A x \in S : fun[x] = gun[x]
  PROVE  SumFunctionOnSet(fun, S) = SumFunctionOnSet(gun, S)
<1>1. Summing(fun, S)[S] = Summing(gun, S)[S]
  BY SummingAgrees
<1> QED
  BY <1>1, SumIs

\* Nothing adds up to zero.
LEMMA SumEmpty == ASSUME NEW fun PROVE SumFunctionOnSet(fun, {}) = 0
<1>1. Summing(fun, {})[{}] = SumStep(fun, Summing(fun, {}), {})
  BY SummingSteps, FS_EmptySet
<1> QED
  BY <1>1, SumIs DEF SumStep

\* A sum is one of its terms and the sum of the others.
LEMMA SumSplits ==
  ASSUME NEW fun, NEW S, IsFiniteSet(S), S # {}
  PROVE  \E x \in S : SumFunctionOnSet(fun, S) = fun[x] + SumFunctionOnSet(fun, S \ {x})
<1> DEFINE x == CHOOSE x \in S : TRUE
<1>1. x \in S
  OBVIOUS
<1>2. Summing(fun, S)[S] = fun[x] + Summing(fun, S)[S \ {x}]
  <2>1. Summing(fun, S)[S] = SumStep(fun, Summing(fun, S), S)
    BY SummingSteps
  <2> QED
    BY <2>1 DEF SumStep
<1>3. Summing(fun, S)[S \ {x}] = Summing(fun, S \ {x})[S \ {x}]
  <2>1. S \ {x} \in SUBSET S
    OBVIOUS
  <2> HIDE DEF x
  <2> QED
    BY <2>1, SummingAgrees
<1> HIDE DEF x
<1> QED
  BY <1>1, <1>2, <1>3, SumIs

\* Integers add up to an integer.
LEMMA SumInt ==
  ASSUME NEW fun, NEW S, IsFiniteSet(S), \A x \in S : fun[x] \in Int
  PROVE  SumFunctionOnSet(fun, S) \in Int
<1> DEFINE Good == {s \in SUBSET S : SumFunctionOnSet(fun, s) \in Int}
<1>1. {} \in Good
  BY SumEmpty
<1>2. ASSUME NEW s \in SUBSET S, s # {}, \A x \in s : s \ {x} \in Good PROVE s \in Good
  <2>1. IsFiniteSet(s)
    BY FS_Subset
  <2>2. PICK x \in s : SumFunctionOnSet(fun, s) = fun[x] + SumFunctionOnSet(fun, s \ {x})
    BY <1>2, <2>1, SumSplits
  <2> QED
    BY <1>2, <2>2
<1>3. SUBSET S \subseteq Good
  <2> HIDE DEF Good
  <2> QED
    BY <1>1, <1>2, SubsetInduction
<1> QED
  BY <1>3

\* The elements may be taken in any order.
LEMMA SumTakes ==
  ASSUME NEW fun, NEW S, IsFiniteSet(S), \A x \in S : fun[x] \in Int
  PROVE  \A x \in S : SumFunctionOnSet(fun, S) = fun[x] + SumFunctionOnSet(fun, S \ {x})
<1> DEFINE Sum(s) == SumFunctionOnSet(fun, s)
           Good == {s \in SUBSET S : \A x \in s : Sum(s) = fun[x] + Sum(s \ {x})}
<1>1. {} \in Good
  OBVIOUS
<1>2. ASSUME NEW s \in SUBSET S, s # {}, \A x \in s : s \ {x} \in Good PROVE s \in Good
  <2>1. IsFiniteSet(s)
    BY FS_Subset
  <2>2. PICK y \in s : Sum(s) = fun[y] + Sum(s \ {y})
    BY <1>2, <2>1, SumSplits
  <2>3. ASSUME NEW x \in s, x # y PROVE Sum(s) = fun[x] + Sum(s \ {x})
    <3> DEFINE rest == (s \ {x}) \ {y}
    <3>1. (s \ {y}) \ {x} = rest
      OBVIOUS
    <3>2. Sum(s \ {y}) = fun[x] + Sum(rest)
      BY <1>2, <2>3, <3>1
    <3>3. Sum(s \ {x}) = fun[y] + Sum(rest)
      BY <1>2, <2>3
    <3>4. Sum(rest) \in Int /\ fun[x] \in Int /\ fun[y] \in Int
      <4>1. IsFiniteSet(rest)
        BY <2>1, FS_Subset
      <4> QED
        BY <4>1, SumInt
    <3> HIDE DEF Sum, rest
    <3> QED
      BY <2>2, <3>2, <3>3, <3>4
  <2> QED
    BY <2>2, <2>3
<1>3. SUBSET S \subseteq Good
  <2> HIDE DEF Good
  <2> QED
    BY <1>1, <1>2, SubsetInduction
<1> QED
  BY <1>3

\* A sum of natural numbers is at least each of them.
LEMMA SumGrows ==
  ASSUME NEW fun, NEW S, IsFiniteSet(S), \A x \in S : fun[x] \in Nat
  PROVE  /\ SumFunctionOnSet(fun, S) \in Nat
         /\ \A x \in S : fun[x] <= SumFunctionOnSet(fun, S)
<1> DEFINE Good == {s \in SUBSET S : SumFunctionOnSet(fun, s) \in Nat}
<1>1. {} \in Good
  BY SumEmpty
<1>2. ASSUME NEW s \in SUBSET S, s # {}, \A x \in s : s \ {x} \in Good PROVE s \in Good
  <2>1. IsFiniteSet(s)
    BY FS_Subset
  <2>2. PICK x \in s : SumFunctionOnSet(fun, s) = fun[x] + SumFunctionOnSet(fun, s \ {x})
    BY <1>2, <2>1, SumSplits
  <2> QED
    BY <1>2, <2>2
<1>3. SUBSET S \subseteq Good
  <2> HIDE DEF Good
  <2> QED
    BY <1>1, <1>2, SubsetInduction
<1>4. ASSUME NEW x \in S PROVE fun[x] <= SumFunctionOnSet(fun, S)
  <2>1. SumFunctionOnSet(fun, S) = fun[x] + SumFunctionOnSet(fun, S \ {x})
    BY SumTakes
  <2>2. SumFunctionOnSet(fun, S \ {x}) \in Nat
    BY <1>3
  <2> QED
    BY <2>1, <2>2
<1> QED
  BY <1>3, <1>4

-----------------------------------------------------------------------------
(* Sums over unions.                                                       *)

\* The sum over a union of two sets without a common element.
LEMMA SumUnion ==
  ASSUME NEW fun, NEW S, NEW T, IsFiniteSet(S), IsFiniteSet(T), S \cap T = {},
         \A x \in S \cup T : fun[x] \in Int
  PROVE  SumFunctionOnSet(fun, S \cup T) = SumFunctionOnSet(fun, S) + SumFunctionOnSet(fun, T)
<1> DEFINE Sum(s) == SumFunctionOnSet(fun, s)
           Good == {t \in SUBSET T : Sum(S \cup t) = Sum(S) + Sum(t)}
<1>1. Sum(S) \in Int
  BY SumInt
<1>2. {} \in Good
  <2>1. Sum({}) = 0 /\ S \cup {} = S
    BY SumEmpty
  <2> QED
    BY <1>1, <2>1
<1>3. ASSUME NEW t \in SUBSET T, t # {}, \A x \in t : t \ {x} \in Good PROVE t \in Good
  <2>1. PICK x \in t : TRUE
    BY <1>3
  <2> DEFINE rest == t \ {x}
  <2>2. /\ IsFiniteSet(t) /\ IsFiniteSet(rest)
        /\ IsFiniteSet(S \cup t)
    BY FS_Subset, FS_Union
  <2>3. (S \cup t) \ {x} = S \cup rest
    OBVIOUS
  <2>4. Sum(S \cup t) = fun[x] + Sum(S \cup rest)
    BY <2>2, <2>3, SumTakes
  <2>5. Sum(t) = fun[x] + Sum(rest)
    BY <2>2, SumTakes
  <2>6. Sum(S \cup rest) = Sum(S) + Sum(rest)
    BY <1>3
  <2>7. Sum(rest) \in Int /\ fun[x] \in Int
    BY <2>2, SumInt
  <2> HIDE DEF Sum, rest
  <2> QED
    BY <1>1, <2>4, <2>5, <2>6, <2>7
<1>4. SUBSET T \subseteq Good
  <2> HIDE DEF Good
  <2> QED
    BY <1>2, <1>3, SubsetInduction
<1> QED
  BY <1>4

\* What part of a set adds up to no more than the whole.
LEMMA SumPart ==
  ASSUME NEW fun, NEW S, IsFiniteSet(S), \A x \in S : fun[x] \in Nat, NEW T \in SUBSET S
  PROVE  SumFunctionOnSet(fun, T) <= SumFunctionOnSet(fun, S)
<1>1. IsFiniteSet(T) /\ IsFiniteSet(S \ T) /\ T \cup (S \ T) = S
  BY FS_Subset
<1>2. SumFunctionOnSet(fun, S) = SumFunctionOnSet(fun, T) + SumFunctionOnSet(fun, S \ T)
  BY <1>1, SumUnion
<1>3. SumFunctionOnSet(fun, T) \in Nat /\ SumFunctionOnSet(fun, S \ T) \in Nat
  BY <1>1, SumGrows
<1> QED
  BY <1>2, <1>3

\* The sets part[q] together hold no more than their sums add up to; exactly that
\* when no two of them have an element in common.
LEMMA SumOfParts ==
  ASSUME NEW fun, NEW D, IsFiniteSet(D), \A x \in D : fun[x] \in Nat,
         NEW Q, IsFiniteSet(Q), NEW part, \A q \in Q : part[q] \subseteq D,
         NEW amount, \A q \in Q : amount[q] = SumFunctionOnSet(fun, part[q])
  PROVE  LET all == UNION {part[q] : q \in Q}
         IN /\ SumFunctionOnSet(fun, all) <= SumFunctionOnSet(amount, Q)
            /\ (\A p, q \in Q : p # q => part[p] \cap part[q] = {})
                 => SumFunctionOnSet(fun, all) = SumFunctionOnSet(amount, Q)
<1> DEFINE All(s) == UNION {part[q] : q \in s}
           Sum(s) == SumFunctionOnSet(fun, s)
           Amounts(s) == SumFunctionOnSet(amount, s)
           Apart == \A p, q \in Q : p # q => part[p] \cap part[q] = {}
           Good == {s \in SUBSET Q : Sum(All(s)) <= Amounts(s)
                                        /\ (Apart => Sum(All(s)) = Amounts(s))}
<1>1. \A s \in SUBSET D : IsFiniteSet(s) /\ Sum(s) \in Nat
  BY FS_Subset, SumGrows
<1>2. \A q \in Q : amount[q] \in Nat
  BY <1>1
<1>3. \A s \in SUBSET Q : IsFiniteSet(s) /\ Amounts(s) \in Nat /\ All(s) \in SUBSET D
  BY <1>2, FS_Subset, SumGrows
<1>4. {} \in Good
  <2>1. All({}) = {} /\ Sum({}) = 0 /\ Amounts({}) = 0
    BY SumEmpty
  <2> QED
    BY <2>1
<1>5. ASSUME NEW s \in SUBSET Q, s # {}, \A x \in s : s \ {x} \in Good PROVE s \in Good
  <2>1. PICK x \in s : TRUE
    BY <1>5
  <2> DEFINE rest == s \ {x}
             others == All(rest)
             new == part[x] \ others
  <2>2. rest \in SUBSET Q /\ others \in SUBSET D /\ new \in SUBSET D /\ part[x] \in SUBSET D
    BY <1>3
  <2>3. All(s) = others \cup new /\ others \cap new = {}
    OBVIOUS
  <2>4. \A y \in others \cup new : fun[y] \in Int
    <3> HIDE DEF others, new
    <3> QED
      BY <2>2
  <2>5. Sum(All(s)) = Sum(others) + Sum(new)
    <3> HIDE DEF others, new, All
    <3> QED
      BY <1>1, <2>2, <2>3, <2>4, SumUnion
  <2>6. Amounts(s) = amount[x] + Amounts(rest)
    BY <1>2, <1>3, SumTakes
  <2>7. Sum(new) <= amount[x]
    <3>1. amount[x] = Sum(part[x]) /\ new \in SUBSET part[x]
      OBVIOUS
    <3> HIDE DEF new
    <3> QED
      BY <1>1, <2>2, <3>1, SumPart
  <2>8. Apart => Sum(new) = amount[x]
    <3>1. Apart => new = part[x]
      OBVIOUS
    <3> QED
      BY <3>1
  <2>9. Sum(others) <= Amounts(rest) /\ (Apart => Sum(others) = Amounts(rest))
    BY <1>5
  <2>10. /\ Sum(others) \in Nat /\ Sum(new) \in Nat /\ Amounts(rest) \in Nat
         /\ amount[x] \in Nat
    BY <1>1, <1>2, <1>3, <2>2
  <2> HIDE DEF Sum, Amounts, All, Apart, others, new, rest
  <2>11. Sum(All(s)) <= Amounts(s) /\ (Apart => Sum(All(s)) = Amounts(s))
    BY <2>5, <2>6, <2>7, <2>8, <2>9, <2>10
  <2> QED
    BY <2>11 DEF Good
<1>6. SUBSET Q \subseteq Good
  <2> HIDE DEF Good
  <2> QED
    BY <1>4, <1>5, SubsetInduction
<1> QED
  BY <1>6
=============================================================================
