---------------------------- MODULE AfterSaleProofs ----------------------------
(***************************************************************************)
(* What follows a sale: theorems of Payouts, for any number of shares,     *)
(* requests and judgements, and of Library, for any number of downloads,   *)
(* any limit and any number of downloads in progress at once.              *)
(***************************************************************************)
EXTENDS Payouts, Library, Sums

-----------------------------------------------------------------------------
(* Payouts: type correctness.                                              *)

\* A judgement in progress is about a payout that was created.
ReviewsKnow ==
  \A v \in Reviews :
    review[v].step = "read" => /\ review[v].of \in Payouts
                               /\ payout[review[v].of].status # "none"

LEMMA InitPayoutTypeOK == PayoutInit => PayoutTypeOK /\ ReviewsKnow
BY DEF PayoutInit, PayoutTypeOK, ReviewsKnow, PayoutStatus, PayoutRequestStatus, Judgements,
       NoReview

LEMMA EligibleOK == ripe \subseteq Distributions => EligibleSaleDistributions \subseteq Distributions
BY DEF EligibleSaleDistributions, Withdrawable

LEMMA NextPayoutTypeOK ==
  PayoutTypeOK /\ ReviewsKnow /\ [PayoutNext]_payoutVars => PayoutTypeOK' /\ ReviewsKnow'
<1> SUFFICES ASSUME PayoutTypeOK, ReviewsKnow, [PayoutNext]_payoutVars
             PROVE  PayoutTypeOK' /\ ReviewsKnow'
  OBVIOUS
<1> USE PayoutsAssumption DEF PayoutTypeOK, ReviewsKnow, PayoutStatus, PayoutRequestStatus,
        Judgements, NoReview
<1>1. ASSUME NEW o, SellOrder(o) PROVE PayoutTypeOK' /\ ReviewsKnow'
  BY <1>1 DEF SellOrder
<1>2. ASSUME NEW o, Ripen(o) PROVE PayoutTypeOK' /\ ReviewsKnow'
  BY <1>2 DEF Ripen
<1>3. ASSUME NEW o, RefundOrder(o) PROVE PayoutTypeOK' /\ ReviewsKnow'
  BY <1>3 DEF RefundOrder
<1>4. ASSUME NEW p \in Payouts, ReadEligible(p) PROVE PayoutTypeOK' /\ ReviewsKnow'
  BY <1>4, EligibleOK DEF ReadEligible
<1>5. ASSUME NEW p \in Payouts, RefuseRequest(p) PROVE PayoutTypeOK' /\ ReviewsKnow'
  BY <1>5 DEF RefuseRequest
<1>6. ASSUME NEW p \in Payouts, CommitRequest(p) PROVE PayoutTypeOK' /\ ReviewsKnow'
  BY <1>6 DEF CommitRequest
<1>7. ASSUME NEW v \in Reviews, NEW j \in Judgements, NEW p \in Payouts, ReadForReview(v, j, p)
      PROVE  PayoutTypeOK' /\ ReviewsKnow'
  BY <1>7 DEF ReadForReview, Accepted
<1>8. ASSUME NEW v \in Reviews, Approve(v) PROVE PayoutTypeOK' /\ ReviewsKnow'
  <2>1. PayoutTypeOK'
    BY <1>8 DEF Approve, Judging
  <2>2. \A p \in Payouts : payout'[p].status # payout[p].status => payout'[p].status = "approved"
    BY <1>8 DEF Approve, Judging
  <2> QED
    BY <1>8, <2>1, <2>2 DEF Approve
<1>9. ASSUME NEW v \in Reviews, Reject(v) PROVE PayoutTypeOK' /\ ReviewsKnow'
  <2>1. PayoutTypeOK'
    BY <1>9 DEF Reject, Judging, Released
  <2>2. \A p \in Payouts : payout'[p].status # payout[p].status => payout'[p].status = "cancelled"
    BY <1>9 DEF Reject, Judging
  <2> QED
    BY <1>9, <2>1, <2>2 DEF Reject
<1>10. ASSUME NEW v \in Reviews, MarkPaid(v) PROVE PayoutTypeOK' /\ ReviewsKnow'
  <2>1. PayoutTypeOK'
    BY <1>10 DEF MarkPaid, Judging, Settle
  <2>2. \A p \in Payouts : payout'[p].status # payout[p].status => payout'[p].status = "paid"
    BY <1>10 DEF MarkPaid, Judging
  <2> QED
    BY <1>10, <2>1, <2>2 DEF MarkPaid
<1>11. CASE UNCHANGED payoutVars
  BY <1>11 DEF payoutVars
<1> QED
  BY <1>1, <1>2, <1>3, <1>4, <1>5, <1>6, <1>7, <1>8, <1>9, <1>10, <1>11 DEF PayoutNext

\* Every reachable state is typed.
THEOREM PayoutsTyped == PayoutSpec => []PayoutTypeOK
BY InitPayoutTypeOK, NextPayoutTypeOK, PTL DEF PayoutSpec

-----------------------------------------------------------------------------
(* What holds however requests overlap.                                    *)

\* What a payout claims is in its amount, and it stands; a payout exists from
\* the commit of its request on.
ClaimsStand ==
  /\ \A p \in Payouts : request[p].step # "done" => payout[p].status = "none"
  /\ \A p \in transferred : payout[p].status # "none"
  /\ \A d \in Distributions : claim[d] # NoPayout => d \in payout[claim[d]].lines

PayoutInv == PaidIsTransferred /\ NothingIsLost /\ ClaimsStand

LEMMA InitPayoutInv == PayoutInit => PayoutInv
BY DEF PayoutInit, PayoutInv, PaidIsTransferred, NothingIsLost, ClaimsStand

LEMMA NextPayoutInv ==
  PayoutTypeOK /\ ReviewsKnow /\ PayoutInv /\ [PayoutNext]_payoutVars => PayoutInv'
<1> SUFFICES ASSUME PayoutTypeOK, ReviewsKnow, PayoutInv, [PayoutNext]_payoutVars
             PROVE  PayoutInv'
  OBVIOUS
<1> USE PayoutsAssumption DEF PayoutTypeOK, ReviewsKnow, PayoutInv, PaidIsTransferred,
        NothingIsLost, ClaimsStand
<1>1. ASSUME NEW o, SellOrder(o) PROVE PayoutInv'
  BY <1>1 DEF SellOrder
<1>2. ASSUME NEW o, Ripen(o) PROVE PayoutInv'
  BY <1>2 DEF Ripen
<1>3. ASSUME NEW o, RefundOrder(o) PROVE PayoutInv'
  BY <1>3 DEF RefundOrder
<1>4. ASSUME NEW p \in Payouts, ReadEligible(p) PROVE PayoutInv'
  BY <1>4 DEF ReadEligible
<1>5. ASSUME NEW p \in Payouts, RefuseRequest(p) PROVE PayoutInv'
  BY <1>5 DEF RefuseRequest
<1>6. ASSUME NEW p \in Payouts, CommitRequest(p) PROVE PayoutInv'
  <2> USE <1>6 DEF CommitRequest
  <2>1. payout[p].status = "none" /\ p \notin transferred
    OBVIOUS
  <2>2. \A q \in Payouts \ {p} : payout'[q] = payout[q]
    OBVIOUS
  <2>3. payout'[p].status = "pending" /\ payout'[p].lines = request[p].lines
    OBVIOUS
  <2>4. PaidIsTransferred'
    BY <2>1, <2>2
  <2>5. \A d \in Distributions : claim[d] # p
    BY <2>1
  <2>6. NothingIsLost'
    BY <2>2, <2>3, <2>5
  <2>7. ClaimsStand'
    BY <2>1, <2>2, <2>3, <2>5
  <2> QED
    BY <2>4, <2>6, <2>7
<1>7. ASSUME NEW v \in Reviews, NEW j \in Judgements, NEW p \in Payouts, ReadForReview(v, j, p)
      PROVE  PayoutInv'
  BY <1>7 DEF ReadForReview
<1>8. ASSUME NEW v \in Reviews, Approve(v) PROVE PayoutInv'
  BY <1>8 DEF Approve, Judging
<1>9. ASSUME NEW v \in Reviews, Reject(v) PROVE PayoutInv'
  BY <1>9 DEF Reject, Judging, Released
<1>10. ASSUME NEW v \in Reviews, MarkPaid(v) PROVE PayoutInv'
  <2> USE <1>10 DEF MarkPaid, Judging, Settle
  <2>1. \A p \in Payouts : payout'[p].lines = payout[p].lines
    OBVIOUS
  <2>2. PaidIsTransferred'
    <3> SUFFICES ASSUME NEW d \in Distributions, share'[d] = "paid"
                 PROVE  \E p \in transferred' : d \in payout'[p].lines
      OBVIOUS
    <3>1. CASE claim[d] = review[v].of
      BY <2>1, <3>1
    <3>2. CASE share[d] = "paid"
      BY <2>1, <3>2
    <3> QED
      BY <3>1, <3>2
  <2>3. NothingIsLost'
    OBVIOUS
  <2>4. ClaimsStand'
    BY <2>1
  <2> QED
    BY <2>2, <2>3, <2>4
<1>11. CASE UNCHANGED payoutVars
  BY <1>11 DEF payoutVars
<1> QED
  BY <1>1, <1>2, <1>3, <1>4, <1>5, <1>6, <1>7, <1>8, <1>9, <1>10, <1>11 DEF PayoutNext

LEMMA PayoutInvariant == PayoutSpec => [](PayoutTypeOK /\ ReviewsKnow /\ PayoutInv)
<1>1. PayoutInit => PayoutTypeOK /\ ReviewsKnow /\ PayoutInv
  BY InitPayoutTypeOK, InitPayoutInv
<1>2. PayoutTypeOK /\ ReviewsKnow /\ PayoutInv /\ [PayoutNext]_payoutVars
        => (PayoutTypeOK /\ ReviewsKnow /\ PayoutInv)'
  BY NextPayoutTypeOK, NextPayoutInv
<1> QED
  BY <1>1, <1>2, PTL DEF PayoutSpec

\* A share is settled only with money that counted it, whatever requests took it
\* over and whatever refunds cancelled it (PayoutsService.request, markPaid).
THEOREM SettledIsCounted == PayoutSpec => []PaidIsTransferred
BY PayoutInvariant, PTL DEF PayoutInv

\* No share stays claimed by a payout that was rejected (reject, request).
THEOREM RejectionReleases == PayoutSpec => []NothingIsLost
BY PayoutInvariant, PTL DEF PayoutInv

\* A paid share is paid for good: no refund, rejection or request reopens it
\* (refund, reject, eligibleSaleDistributions).
THEOREM SharesArePaidForGood == PayoutSpec => PaidForGood
<1> DEFINE Kept == \A d \in Distributions :
                     share[d] = "paid" => share'[d] = "paid" /\ d \notin Withdrawable'
<1>1. PayoutTypeOK /\ [PayoutNext]_payoutVars => [Kept]_payoutVars
  <2> SUFFICES ASSUME PayoutTypeOK, PayoutNext, NEW d \in Distributions, share[d] = "paid"
               PROVE  share'[d] = "paid" /\ d \notin Withdrawable'
    OBVIOUS
  <2>1. share'[d] = "paid"
    BY DEF PayoutTypeOK, PayoutNext, SellOrder, Ripen, RefundOrder, ReadEligible,
           RefuseRequest, CommitRequest, ReadForReview, Approve, Reject, MarkPaid, Settle
  <2> QED
    BY <2>1 DEF Withdrawable
<1> QED
  BY <1>1, PayoutsTyped, PTL DEF PayoutSpec, PaidForGood

-----------------------------------------------------------------------------
(* What holds one request at a time.                                       *)

LEMMA StartsAlone ==
  ASSUME payoutLimit = 1, MayStart
  PROVE  /\ \A p \in Payouts : request[p].step # "read"
         /\ \A v \in Reviews : review[v].step # "read"
<1> DEFINE Asking  == {p \in Payouts : request[p].step = "read"}
           Judged  == {v \in Reviews : review[v].step = "read"}
<1>1. IsFiniteSet(Asking) /\ IsFiniteSet(Judged)
  BY PayoutsAssumption, FS_Subset DEF PayoutsAssumption
<1>2. Cardinality(Asking) \in Nat /\ Cardinality(Judged) \in Nat
  BY <1>1, FS_CardinalityType
<1>3. Cardinality(Asking) + Cardinality(Judged) < 1
  BY DEF MayStart
<1>4. Cardinality(Asking) = 0 /\ Cardinality(Judged) = 0
  BY <1>2, <1>3
<1>5. Asking = {} /\ Judged = {}
  BY <1>1, <1>4, FS_EmptySet
<1> QED
  BY <1>5

\* A request in progress is alone and what it read still holds; what a standing
\* payout sums, it claims.
OneAtATime ==
  /\ \A p, q \in Payouts : request[p].step = "read" /\ request[q].step = "read" => p = q
  /\ \A v, w \in Reviews : review[v].step = "read" /\ review[w].step = "read" => v = w
  /\ \A p \in Payouts, v \in Reviews : ~(request[p].step = "read" /\ review[v].step = "read")
  /\ \A p \in Payouts : request[p].step = "read" =>
       \A d \in request[p].lines : claim[d] = NoPayout
  /\ \A v \in Reviews : review[v].step = "read" =>
       payout[review[v].of].status \in Accepted(review[v].judgement)
  /\ \A p \in Payouts : payout[p].status \in {"pending", "approved", "paid"} =>
       \A d \in payout[p].lines : claim[d] = p
  /\ \A p \in transferred : payout[p].status = "paid"

SerialInv == payoutLimit = 1 => OneAtATime

LEMMA NextSerialInv ==
  PayoutTypeOK /\ ReviewsKnow /\ PayoutInv /\ SerialInv /\ [PayoutNext]_payoutVars => SerialInv'
<1> SUFFICES ASSUME PayoutTypeOK, ReviewsKnow, PayoutInv, SerialInv,
                    [PayoutNext]_payoutVars, payoutLimit' = 1
             PROVE  OneAtATime'
  BY DEF SerialInv
<1>0. payoutLimit = 1 /\ OneAtATime
  BY DEF SerialInv, PayoutNext, payoutVars, SellOrder, Ripen, RefundOrder, ReadEligible,
         RefuseRequest, CommitRequest, ReadForReview, Approve, Reject, MarkPaid
<1> USE <1>0, PayoutsAssumption DEF PayoutTypeOK, ReviewsKnow, OneAtATime
<1>1. ASSUME NEW o, SellOrder(o) PROVE OneAtATime'
  BY <1>1 DEF SellOrder
<1>2. ASSUME NEW o, Ripen(o) PROVE OneAtATime'
  BY <1>2 DEF Ripen
<1>3. ASSUME NEW o, RefundOrder(o) PROVE OneAtATime'
  BY <1>3 DEF RefundOrder
<1>4. ASSUME NEW p \in Payouts, ReadEligible(p) PROVE OneAtATime'
  BY <1>4, StartsAlone, EligibleOK DEF ReadEligible, EligibleSaleDistributions, Withdrawable
<1>5. ASSUME NEW p \in Payouts, RefuseRequest(p) PROVE OneAtATime'
  BY <1>5, StartsAlone DEF RefuseRequest
<1>6. ASSUME NEW p \in Payouts, CommitRequest(p) PROVE OneAtATime'
  <2> USE <1>6 DEF CommitRequest
  <2>1. payout[p].status = "none" /\ p \notin transferred
    BY DEF PayoutInv, ClaimsStand
  <2>2. \A q \in Payouts \ {p} : payout'[q] = payout[q]
    OBVIOUS
  <2>3. payout'[p].lines = request[p].lines
    OBVIOUS
  <2>4. \A d \in Distributions : d \in request[p].lines => claim[d] = NoPayout /\ claim'[d] = p
    OBVIOUS
  <2>5. \A q \in Payouts : request'[q].step # "read"
    OBVIOUS
  <2>6. \A q \in Payouts : payout'[q].status \in {"pending", "approved", "paid"} =>
          \A d \in payout'[q].lines : claim'[d] = q
    BY <2>2, <2>3, <2>4
  <2> QED
    BY <2>1, <2>2, <2>5, <2>6
<1>7. ASSUME NEW v \in Reviews, NEW j \in Judgements, NEW p \in Payouts, ReadForReview(v, j, p)
      PROVE  OneAtATime'
  BY <1>7, StartsAlone DEF ReadForReview, Judgements
<1>8. ASSUME NEW v \in Reviews, Approve(v) PROVE OneAtATime'
  <2> USE <1>8 DEF Approve, Judging, NoReview
  <2>1. payout[review[v].of].status = "pending"
    BY DEF Accepted
  <2>2. \A p \in Payouts : /\ payout'[p].lines = payout[p].lines
                           /\ p # review[v].of => payout'[p].status = payout[p].status
    OBVIOUS
  <2>3. \A w \in Reviews : review'[w].step # "read"
    OBVIOUS
  <2> QED
    BY <2>1, <2>2, <2>3
<1>9. ASSUME NEW v \in Reviews, Reject(v) PROVE OneAtATime'
  <2> USE <1>9 DEF Reject, Judging, Released, NoReview
  <2>1. payout[review[v].of].status \in {"pending", "approved"}
    BY DEF Accepted
  <2>2. \A p \in Payouts : /\ payout'[p].lines = payout[p].lines
                           /\ p # review[v].of => payout'[p].status = payout[p].status
                           /\ p = review[v].of => payout'[p].status = "cancelled"
    OBVIOUS
  <2>3. /\ \A w \in Reviews : review'[w].step # "read"
        /\ \A p \in Payouts : request[p].step # "read"
    OBVIOUS
  <2> QED
    BY <2>1, <2>2, <2>3
<1>10. ASSUME NEW v \in Reviews, MarkPaid(v) PROVE OneAtATime'
  <2> USE <1>10 DEF MarkPaid, Judging, NoReview
  <2>1. payout[review[v].of].status = "approved"
    BY DEF Accepted
  <2>2. \A p \in Payouts : /\ payout'[p].lines = payout[p].lines
                           /\ p # review[v].of => payout'[p].status = payout[p].status
                           /\ p = review[v].of => payout'[p].status = "paid"
    OBVIOUS
  <2>3. \A w \in Reviews : review'[w].step # "read"
    OBVIOUS
  <2> QED
    BY <2>1, <2>2, <2>3
<1>11. CASE UNCHANGED payoutVars
  BY <1>11 DEF payoutVars
<1> QED
  BY <1>1, <1>2, <1>3, <1>4, <1>5, <1>6, <1>7, <1>8, <1>9, <1>10, <1>11 DEF PayoutNext

\* As long as requests do not overlap, the money of a share leaves once (request,
\* markPaid).
THEOREM MoneyLeavesOnce == PayoutSpec => []TransferredOnce
<1> DEFINE Inv == PayoutTypeOK /\ ReviewsKnow /\ PayoutInv /\ SerialInv
<1>1. PayoutInit => Inv
  BY InitPayoutTypeOK, InitPayoutInv DEF PayoutInit, NoReview, SerialInv, OneAtATime
<1>2. Inv /\ [PayoutNext]_payoutVars => Inv'
  BY NextPayoutTypeOK, NextPayoutInv, NextSerialInv
<1>3. Inv => TransferredOnce
  <2> SUFFICES ASSUME Inv, payoutLimit = 1, NEW p \in transferred, NEW q \in transferred, p # q,
                      NEW d \in payout[p].lines \cap payout[q].lines
               PROVE  FALSE
    BY DEF TransferredOnce
  <2>1. claim[d] = p /\ claim[d] = q
    BY DEF SerialInv, OneAtATime, PayoutTypeOK
  <2> QED
    BY <2>1
<1> HIDE DEF Inv
<1> QED
  BY <1>1, <1>2, <1>3, PTL DEF PayoutSpec

-----------------------------------------------------------------------------
(* The money.                                                              *)

\* The amount of a set of shares is a sum of the library.
LEMMA AmountIsSum == ASSUME NEW lines PROVE AmountOf(lines) = SumFunctionOnSet(NetOf, lines)
BY DEF AmountOf, MapThenSumSet, SumFunctionOnSet, FoldFunctionOnSet

\* One at a time, what a payout that has left counted is marked as paid.
LeftIsPaid ==
  payoutLimit = 1 =>
    \A p \in transferred : \A d \in payout[p].lines : share[d] = "paid"

LEMMA NextLeftIsPaid ==
  ASSUME PayoutTypeOK, ReviewsKnow, PayoutInv, SerialInv, LeftIsPaid, [PayoutNext]_payoutVars
  PROVE  LeftIsPaid'
<1> SUFFICES ASSUME payoutLimit' = 1, NEW p \in transferred', NEW d \in payout'[p].lines
             PROVE  share'[d] = "paid"
  BY DEF LeftIsPaid
<1>1. payoutLimit = 1 /\ OneAtATime
  BY DEF SerialInv, PayoutNext, payoutVars, SellOrder, Ripen, RefundOrder, ReadEligible,
         RefuseRequest, CommitRequest, ReadForReview, Approve, Reject, MarkPaid
<1>2. ASSUME share[d] = "paid", d \in Distributions PROVE share'[d] = "paid"
  BY <1>2 DEF PayoutTypeOK, PayoutNext, payoutVars, SellOrder, Ripen, RefundOrder, ReadEligible,
              RefuseRequest, CommitRequest, ReadForReview, Approve, Reject, MarkPaid, Settle
<1>3. ASSUME p \in transferred, payout'[p].lines = payout[p].lines PROVE share'[d] = "paid"
  BY <1>1, <1>2, <1>3 DEF LeftIsPaid, PayoutTypeOK
<1>4. ASSUME NEW v \in Reviews, MarkPaid(v) PROVE share'[d] = "paid"
  <2> USE <1>4 DEF MarkPaid, Judging, PayoutTypeOK, ReviewsKnow
  <2>1. payout'[p].lines = payout[p].lines
    OBVIOUS
  <2>2. CASE p \in transferred
    BY <1>3, <2>1, <2>2
  <2>3. CASE p = review[v].of
    <3>1. payout[p].status = "approved"
      BY <1>1, <2>3 DEF OneAtATime, Accepted
    <3>2. d \in payout[p].lines /\ d \in Distributions
      BY <2>1, <2>3
    <3>3. claim[d] = p
      BY <1>1, <2>3, <3>1, <3>2 DEF OneAtATime
    <3> QED
      BY <2>3, <3>2, <3>3 DEF Settle
  <2> QED
    BY <2>2, <2>3
<1>5. ASSUME NEW q \in Payouts, CommitRequest(q) PROVE share'[d] = "paid"
  <2> USE <1>5 DEF CommitRequest, PayoutTypeOK
  <2>1. p \in transferred /\ p # q
    BY DEF PayoutInv, ClaimsStand
  <2>2. payout'[p].lines = payout[p].lines
    BY <2>1
  <2> QED
    BY <1>3, <2>1, <2>2
<1>6. ASSUME ~ \E v \in Reviews : MarkPaid(v), ~ \E q \in Payouts : CommitRequest(q)
      PROVE  share'[d] = "paid"
  <2>1. transferred' = transferred /\ \A q \in Payouts : payout'[q].lines = payout[q].lines
    <3>1. ASSUME NEW v \in Reviews, Approve(v) \/ Reject(v)
          PROVE  transferred' = transferred /\ \A q \in Payouts : payout'[q].lines = payout[q].lines
      BY <3>1 DEF PayoutTypeOK, Approve, Reject
    <3>2. ASSUME ~ \E v \in Reviews : Approve(v) \/ Reject(v)
          PROVE  transferred' = transferred /\ payout' = payout
      BY <1>6, <3>2 DEF PayoutNext, payoutVars, SellOrder, Ripen, RefundOrder, ReadEligible,
                        RefuseRequest, ReadForReview
    <3> QED
      BY <3>1, <3>2
  <2> QED
    BY <1>3, <2>1 DEF PayoutTypeOK
<1> QED
  BY <1>4, <1>5, <1>6

LEMMA BalanceInvariant ==
  PayoutSpec => [](PayoutTypeOK /\ ReviewsKnow /\ PayoutInv /\ SerialInv /\ LeftIsPaid)
<1> DEFINE Inv == PayoutTypeOK /\ ReviewsKnow /\ PayoutInv /\ SerialInv /\ LeftIsPaid
<1>1. PayoutInit => Inv
  BY InitPayoutTypeOK, InitPayoutInv DEF PayoutInit, NoReview, SerialInv, OneAtATime, LeftIsPaid
<1>2. Inv /\ [PayoutNext]_payoutVars => Inv'
  BY NextPayoutTypeOK, NextPayoutInv, NextSerialInv, NextLeftIsPaid
<1> QED
  BY <1>1, <1>2, PTL DEF PayoutSpec

\* What is marked as paid never exceeds what has left, although shares are taken over,
\* released and cancelled after an amount was summed; as long as requests do not
\* overlap the two are equal, to the centime (request, markPaid).
THEOREM MoneyIsAccountedFor == PayoutSpec => []MoneyBalances
<1>1. ASSUME PayoutTypeOK, ReviewsKnow, PayoutInv, SerialInv, LeftIsPaid
      PROVE  MoneyBalances
  <2> DEFINE part == [p \in Payouts |-> payout[p].lines]
             amount == [p \in Payouts |-> AmountOf(payout[p].lines)]
             all == UNION {part[p] : p \in transferred}
             paid == {d \in Distributions : share[d] = "paid"}
  <2>1. /\ IsFiniteSet(Distributions) /\ \A d \in Distributions : NetOf[d] \in Nat
        /\ IsFiniteSet(transferred) /\ transferred \subseteq Payouts
        /\ \A p \in transferred : part[p] \subseteq Distributions
    BY <1>1, PayoutsAssumption, FS_Subset DEF PayoutTypeOK
  <2>2. \A p \in transferred : amount[p] = SumFunctionOnSet(NetOf, part[p])
    BY <2>1, AmountIsSum
  <2>3. paid \subseteq all /\ all \subseteq Distributions
    BY <1>1, <2>1 DEF PayoutInv, PaidIsTransferred
  <2>4. ASSUME payoutLimit = 1
        PROVE  /\ paid = all
               /\ \A p, q \in transferred : p # q => part[p] \cap part[q] = {}
    <3>1. all \subseteq paid
      BY <1>1, <2>1, <2>4 DEF LeftIsPaid
    <3>2. ASSUME NEW p \in transferred, NEW q \in transferred, NEW d \in part[p] \cap part[q]
          PROVE  p = q
      <4>1. claim[d] = p /\ claim[d] = q
        BY <1>1, <2>1, <2>4, <3>2 DEF SerialInv, OneAtATime
      <4> QED
        BY <4>1
    <3> QED
      BY <2>3, <3>1, <3>2
  <2>5. Settled = SumFunctionOnSet(NetOf, paid) /\ Sent = SumFunctionOnSet(amount, transferred)
    BY AmountIsSum DEF Settled, Sent
  <2> HIDE DEF part, amount
  <2>6. /\ SumFunctionOnSet(NetOf, all) <= SumFunctionOnSet(amount, transferred)
        /\ (\A p, q \in transferred : p # q => part[p] \cap part[q] = {})
             => SumFunctionOnSet(NetOf, all) = SumFunctionOnSet(amount, transferred)
    BY <2>1, <2>2, SumOfParts
  <2>7. /\ SumFunctionOnSet(NetOf, paid) <= SumFunctionOnSet(NetOf, all)
        /\ SumFunctionOnSet(NetOf, paid) \in Nat /\ SumFunctionOnSet(NetOf, all) \in Nat
    <3>1. IsFiniteSet(all) /\ IsFiniteSet(paid)
      BY <2>1, <2>3, FS_Subset
    <3> HIDE DEF all, paid
    <3> QED
      BY <2>1, <2>3, <3>1, SumPart, SumGrows
  <2>8. SumFunctionOnSet(amount, transferred) \in Nat
    <3>1. \A p \in transferred : amount[p] \in Nat
      BY <2>1, <2>2, FS_Subset, SumGrows
    <3> QED
      BY <2>1, <3>1, SumGrows
  <2> HIDE DEF all, paid
  <2> QED
    BY <2>4, <2>5, <2>6, <2>7, <2>8 DEF MoneyBalances
<1> QED
  BY <1>1, BalanceInvariant, PTL

\* A share that a refund cancelled becomes paid in one way only: a payout that claimed
\* it, had counted it in its amount and was not rejected, is marked as paid (refund,
\* reject, markPaid).
THEOREM OnlyCountedIsPaid == PayoutSpec => CancelledIsPaidIfCounted
<1> DEFINE A == \A d \in Distributions : share[d] = "cancelled" /\ share'[d] = "paid" =>
                  /\ claim[d] # NoPayout /\ d \in payout[claim[d]].lines
                  /\ payout[claim[d]].status \in {"pending", "approved", "paid"}
                  /\ payout'[claim[d]].status = "paid"
<1>1. PayoutTypeOK /\ ReviewsKnow /\ PayoutInv /\ [PayoutNext]_payoutVars => [A]_payoutVars
  <2> SUFFICES ASSUME PayoutTypeOK, ReviewsKnow, PayoutInv, PayoutNext, NEW d \in Distributions,
                      share[d] = "cancelled", share'[d] = "paid"
               PROVE  /\ claim[d] # NoPayout /\ d \in payout[claim[d]].lines
                      /\ payout[claim[d]].status \in {"pending", "approved", "paid"}
                      /\ payout'[claim[d]].status = "paid"
    OBVIOUS
  <2>1. PICK v \in Reviews : MarkPaid(v)
    BY DEF PayoutNext, PayoutTypeOK, SellOrder, Ripen, RefundOrder, ReadEligible,
           RefuseRequest, CommitRequest, ReadForReview, Approve, Reject
  <2>2. claim[d] = review[v].of /\ claim[d] \in Payouts
    BY <2>1 DEF MarkPaid, Judging, Settle, PayoutTypeOK, ReviewsKnow
  <2> QED
    BY <2>1, <2>2, PayoutsAssumption
       DEF MarkPaid, Judging, PayoutInv, ClaimsStand, NothingIsLost, PayoutTypeOK
<1> QED
  BY <1>1, PayoutInvariant, PTL DEF PayoutSpec, CancelledIsPaidIfCounted

-----------------------------------------------------------------------------
(* The role that is deployed.                                              *)

\* Nothing has been asked for, claimed or paid.
NothingWithdrawn ==
  /\ \A p \in Payouts : request[p].step # "read" /\ payout[p].status = "none"
  /\ \A v \in Reviews : review[v].step # "read"
  /\ \A d \in Distributions : claim[d] = NoPayout /\ share[d] # "paid"
  /\ transferred = {}

\* No share is worth no amount, whatever the threshold.
LEMMA NothingDoesNotSuffice == ~Suffices({})
BY AmountIsSum, SumEmpty DEF Suffices

LEMMA NextNothingWithdrawn ==
  ASSUME PayoutTypeOK, rlsEnforced => NothingWithdrawn, [PayoutNext]_payoutVars
  PROVE  (rlsEnforced => NothingWithdrawn)'
<1> SUFFICES ASSUME rlsEnforced'
             PROVE  NothingWithdrawn'
  OBVIOUS
<1>1. rlsEnforced /\ NothingWithdrawn
  BY DEF PayoutNext, payoutVars, SellOrder, Ripen, RefundOrder, ReadEligible,
         RefuseRequest, CommitRequest, ReadForReview, Approve, Reject, MarkPaid
<1>2. \A p \in Payouts : ~ReadEligible(p)
  BY <1>1, NothingDoesNotSuffice DEF ReadEligible, EligibleSaleDistributions
<1>3. \A p \in Payouts : ~CommitRequest(p)
  BY <1>1 DEF CommitRequest, NothingWithdrawn
<1>4. \A v \in Reviews : ~Approve(v) /\ ~Reject(v) /\ ~MarkPaid(v)
  BY <1>1 DEF Approve, Reject, MarkPaid, Judging, NothingWithdrawn
<1>5. \A v \in Reviews, j \in Judgements, p \in Payouts : ~ReadForReview(v, j, p)
  BY <1>1 DEF ReadForReview, Accepted, Judgements, NothingWithdrawn
<1>6. ASSUME NEW o, SellOrder(o) \/ Ripen(o) \/ RefundOrder(o) PROVE NothingWithdrawn'
  BY <1>1, <1>6 DEF NothingWithdrawn, SellOrder, Ripen, RefundOrder
<1>7. ASSUME NEW p \in Payouts, RefuseRequest(p) PROVE NothingWithdrawn'
  <2>1. \A q \in Payouts : request'[q].step # "read"
    BY <1>1, <1>7 DEF NothingWithdrawn, RefuseRequest, PayoutTypeOK
  <2> QED
    BY <1>1, <1>7, <2>1 DEF NothingWithdrawn, RefuseRequest
<1>8. CASE UNCHANGED payoutVars
  BY <1>1, <1>8 DEF payoutVars, NothingWithdrawn
<1> QED
  BY <1>2, <1>3, <1>4, <1>5, <1>6, <1>7, <1>8 DEF PayoutNext

\* For a role subject to the policies, the one the repository deploys, no request is
\* ever accepted: no payout is created and no share is claimed or paid, whatever was
\* sold (eligibleSaleDistributions, 01-app-role.sh).
THEOREM NothingIsWithdrawnUnderPolicies == PayoutSpec => [](rlsEnforced => NothingWithdrawn)
<1>1. PayoutInit => (rlsEnforced => NothingWithdrawn)
  BY DEF PayoutInit, NothingWithdrawn, NoReview
<1> QED
  BY <1>1, NextNothingWithdrawn, PayoutsTyped, PTL DEF PayoutSpec

-----------------------------------------------------------------------------
(* Downloads: type correctness.                                            *)

LEMMA InitLibraryTypeOK == LibraryInit => LibraryTypeOK
BY DEF LibraryInit, LibraryTypeOK, DownloadSteps

LEMMA NextLibraryTypeOK == LibraryTypeOK /\ [LibraryNext]_libraryVars => LibraryTypeOK'
<1> SUFFICES ASSUME LibraryTypeOK, [LibraryNext]_libraryVars
             PROVE  LibraryTypeOK'
  OBVIOUS
<1> USE DEF LibraryTypeOK, DownloadSteps
<1>1. CASE GrantAccess \/ RevokeAccess \/ UploadFullFile
  BY <1>1 DEF GrantAccess, RevokeAccess, UploadFullFile
<1>2. CASE LoseDownloads
  BY <1>2 DEF LoseDownloads
<1>3. ASSUME NEW r \in Downloads,
             \/ CheckAccess(r) \/ FindFile(r) \/ CountDownloads(r)
             \/ FailToRead(r) \/ RecordDownload(r) \/ SendFile(r)
      PROVE  LibraryTypeOK'
  BY <1>3 DEF CheckAccess, FindFile, CountDownloads, FailToRead, RecordDownload, SendFile, Proceed
<1>4. CASE UNCHANGED libraryVars
  BY <1>4 DEF libraryVars
<1> QED
  BY <1>1, <1>2, <1>3, <1>4 DEF LibraryNext

\* Every reachable state is typed.
THEOREM LibraryTyped == LibrarySpec => []LibraryTypeOK
BY InitLibraryTypeOK, NextLibraryTypeOK, PTL DEF LibrarySpec

-----------------------------------------------------------------------------
(* The limit.                                                              *)

UnderWay == {r \in Downloads : download[r] \in InProgress}
Tallied  == {r \in Downloads : download[r] = "read"}

\* The downloads counted and not yet recorded are in progress, and no more than
\* the reader may have at once; with the recorded ones they stay within the limit
\* but for those that passed the count together with the last one it admitted.
LimitInv ==
  /\ Cardinality(UnderWay) <= readership
  /\ Unlimited \/ Cardinality(recorded) + Cardinality(Tallied) <= downloadLimit - 1 + readership

LEMMA SetsAreFinite ==
  ASSUME LibraryTypeOK
  PROVE  /\ IsFiniteSet(UnderWay) /\ Cardinality(UnderWay) \in Nat
         /\ IsFiniteSet(Tallied) /\ Cardinality(Tallied) \in Nat
         /\ IsFiniteSet(recorded) /\ Cardinality(recorded) \in Nat
         /\ Cardinality(Tallied) <= Cardinality(UnderWay)
<1>1. /\ UnderWay \in SUBSET Downloads /\ Tallied \in SUBSET UnderWay /\ recorded \in SUBSET Downloads
      /\ IsFiniteSet(Downloads)
  BY LibraryAssumption DEF LibraryAssumption, LibraryTypeOK, UnderWay, Tallied, InProgress
<1>2. IsFiniteSet(UnderWay) /\ IsFiniteSet(recorded)
  BY <1>1, FS_Subset
<1>3. IsFiniteSet(Tallied) /\ Cardinality(Tallied) <= Cardinality(UnderWay)
  BY <1>1, <1>2, FS_Subset
<1> QED
  BY <1>2, <1>3, FS_CardinalityType

LEMMA BoundsAreNumbers ==
  ASSUME LibraryTypeOK
  PROVE  downloadLimit \in Nat /\ readership \in Nat \ {0}
BY LibraryAssumption DEF LibraryAssumption, LibraryTypeOK

LEMMA InitLimitInv == LibraryInit => LimitInv
<1> SUFFICES ASSUME LibraryInit PROVE LimitInv
  OBVIOUS
<1>1. UnderWay = {} /\ Tallied = {} /\ recorded = {}
  BY DEF LibraryInit, UnderWay, Tallied, InProgress
<1>2. downloadLimit \in Nat /\ readership \in Nat \ {0}
  BY InitLibraryTypeOK, BoundsAreNumbers
<1> QED
  BY <1>1, <1>2, FS_EmptySet DEF LimitInv, Unlimited

\* A step that starts no download, counts none and records none.
LEMMA OthersKeepLimit ==
  ASSUME LibraryTypeOK, LibraryTypeOK', LimitInv,
         UnderWay' \subseteq UnderWay, Tallied' \subseteq Tallied,
         UNCHANGED <<recorded, downloadLimit, readership>>
  PROVE  LimitInv'
<1>1. Cardinality(UnderWay') <= Cardinality(UnderWay) /\ Cardinality(Tallied') <= Cardinality(Tallied)
  BY SetsAreFinite, FS_Subset
<1>2. /\ Cardinality(UnderWay') \in Nat /\ Cardinality(Tallied') \in Nat
      /\ Cardinality(UnderWay) \in Nat /\ Cardinality(Tallied) \in Nat /\ Cardinality(recorded) \in Nat
      /\ downloadLimit \in Nat /\ readership \in Nat
  BY <1>1, SetsAreFinite, BoundsAreNumbers, FS_Subset, FS_CardinalityType
<1> QED
  BY <1>1, <1>2 DEF LimitInv, Unlimited

LEMMA NextLimitInv ==
  LibraryTypeOK /\ LimitInv /\ [LibraryNext]_libraryVars => LimitInv'
<1> SUFFICES ASSUME LibraryTypeOK, LimitInv, [LibraryNext]_libraryVars
             PROVE  LimitInv'
  OBVIOUS
<1>0. LibraryTypeOK'
  BY NextLibraryTypeOK
<1> USE DEF LibraryTypeOK
<1>1. CASE GrantAccess \/ RevokeAccess \/ UploadFullFile \/ UNCHANGED libraryVars
  <2>1. UNCHANGED <<download, recorded, downloadLimit, readership>>
    BY <1>1 DEF GrantAccess, RevokeAccess, UploadFullFile, libraryVars
  <2> QED
    BY <2>1, <1>0, OthersKeepLimit DEF UnderWay, Tallied
<1>2. CASE LoseDownloads
  <2>1. UnderWay' \subseteq UnderWay /\ Tallied' \subseteq Tallied
    BY <1>2 DEF LoseDownloads, UnderWay, Tallied, InProgress
  <2> QED
    BY <2>1, <1>0, <1>2, OthersKeepLimit DEF LoseDownloads
<1>3. ASSUME NEW r \in Downloads, FindFile(r) \/ FailToRead(r) \/ SendFile(r)
      PROVE  LimitInv'
  <2>1. UnderWay' \subseteq UnderWay /\ Tallied' \subseteq Tallied
    BY <1>3 DEF FindFile, FailToRead, SendFile, Proceed, UnderWay, Tallied, InProgress
  <2>2. UNCHANGED <<recorded, downloadLimit, readership>>
    BY <1>3 DEF FindFile, FailToRead, SendFile, Proceed
  <2> QED
    BY <2>1, <2>2, <1>0, OthersKeepLimit
<1>4. ASSUME NEW r \in Downloads, CheckAccess(r)
      PROVE  LimitInv'
  <2>1. UnderWay' \subseteq UnderWay \cup {r} /\ r \notin UnderWay /\ Tallied' = Tallied
    BY <1>4 DEF CheckAccess, Proceed, UnderWay, Tallied, InProgress
  <2>2. Cardinality(UnderWay) < readership
    BY <1>4 DEF CheckAccess, UnderWay
  <2>3. Cardinality(UnderWay \cup {r}) = Cardinality(UnderWay) + 1 /\ IsFiniteSet(UnderWay \cup {r})
    BY <2>1, SetsAreFinite, FS_AddElement
  <2>4. Cardinality(UnderWay') <= Cardinality(UnderWay) + 1 /\ Cardinality(UnderWay') \in Nat
    BY <2>1, <2>3, FS_Subset, FS_CardinalityType
  <2>5. Cardinality(UnderWay') <= readership
    BY <2>2, <2>4, SetsAreFinite, BoundsAreNumbers
  <2> QED
    BY <2>1, <2>5, <1>4 DEF CheckAccess, Proceed, LimitInv, Unlimited
<1>5. ASSUME NEW r \in Downloads, CountDownloads(r)
      PROVE  LimitInv'
  <2>1. UnderWay' \subseteq UnderWay /\ UNCHANGED <<recorded, downloadLimit, readership>>
    BY <1>5 DEF CountDownloads, Proceed, UnderWay, InProgress
  <2>2. /\ IsFiniteSet(UnderWay') /\ Cardinality(UnderWay') \in Nat
        /\ Cardinality(UnderWay') <= Cardinality(UnderWay)
    BY <2>1, SetsAreFinite, FS_Subset, FS_CardinalityType
  <2>3. Tallied' \subseteq UnderWay'
    BY DEF Tallied, UnderWay, InProgress
  <2>4. Cardinality(Tallied') <= Cardinality(UnderWay') /\ Cardinality(Tallied') \in Nat
    BY <2>2, <2>3, FS_Subset, FS_CardinalityType
  <2>5. Cardinality(Tallied') <= readership /\ Cardinality(UnderWay') <= readership
    BY <2>2, <2>4, SetsAreFinite, BoundsAreNumbers DEF LimitInv
  <2>6. CASE BelowLimit
    BY <2>1, <2>4, <2>5, <2>6, SetsAreFinite, BoundsAreNumbers DEF LimitInv, BelowLimit, Unlimited
  <2>7. CASE ~BelowLimit
    <3>1. Tallied' \subseteq Tallied
      BY <1>5, <2>7 DEF CountDownloads, Proceed, Tallied
    <3> QED
      BY <2>1, <3>1, <1>0, OthersKeepLimit
  <2> QED
    BY <2>6, <2>7
<1>6. ASSUME NEW r \in Downloads, RecordDownload(r)
      PROVE  LimitInv'
  <2>1. UnderWay' = UnderWay /\ Tallied' = Tallied \ {r} /\ r \in Tallied /\ recorded' = recorded \cup {r}
    BY <1>6 DEF RecordDownload, Proceed, UnderWay, Tallied, InProgress
  <2>2. Cardinality(Tallied') = Cardinality(Tallied) - 1
    BY <2>1, SetsAreFinite, FS_RemoveElement
  <2>3. Cardinality(recorded') <= Cardinality(recorded) + 1 /\ Cardinality(recorded') \in Nat
    <3>1. IsFiniteSet(recorded) /\ Cardinality(recorded) \in Nat
      BY SetsAreFinite
    <3>2. /\ IsFiniteSet(recorded \cup {r})
          /\ Cardinality(recorded \cup {r}) \in {Cardinality(recorded), Cardinality(recorded) + 1}
      BY <3>1, FS_AddElement
    <3> QED
      BY <2>1, <3>1, <3>2
  <2>4. UNCHANGED <<downloadLimit, readership>>
    BY <1>6 DEF RecordDownload, Proceed
  <2> QED
    BY <2>1, <2>2, <2>3, <2>4, SetsAreFinite, BoundsAreNumbers DEF LimitInv, Unlimited
<1> QED
  BY <1>1, <1>2, <1>3, <1>4, <1>5, <1>6 DEF LibraryNext

\* The downloads recorded exceed the limit by less than the number of downloads
\* in progress at once (LibraryService.download).
THEOREM DownloadsAreLimited == LibrarySpec => []LimitHolds
<1>1. LibraryInit => LibraryTypeOK /\ LimitInv
  BY InitLibraryTypeOK, InitLimitInv
<1>2. LibraryTypeOK /\ LimitInv /\ [LibraryNext]_libraryVars => LibraryTypeOK' /\ LimitInv'
  BY NextLibraryTypeOK, NextLimitInv
<1>3. LibraryTypeOK /\ LimitInv => LimitHolds
  BY SetsAreFinite, BoundsAreNumbers DEF LimitInv, LimitHolds, Unlimited
<1> QED
  BY <1>1, <1>2, <1>3, PTL DEF LibrarySpec
=============================================================================
