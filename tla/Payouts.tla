-------------------------------- MODULE Payouts --------------------------------
(***************************************************************************)
(* The withdrawal of what a publisher's sales have earned: a finance role  *)
(* of the publisher asks for all that is available (PayoutsService), the   *)
(* platform approves, rejects or marks as paid (AdminPayoutsService), and  *)
(* a refund cancels shares meanwhile (PaymentsService.refund).             *)
(*                                                                         *)
(* Every handler judges what it read in one transaction and writes in      *)
(* another.  One publisher is enough: no handler relates two of them.  The *)
(* amount of a payout is kept as the set of the shares it sums.            *)
(*                                                                         *)
(* The role the repository deploys is subject to the policies of the       *)
(* tables (01-app-role.sh, rlsEnforced); a superuser, or a role with       *)
(* BYPASSRLS, is not, and only such a role goes past ReadEligible.         *)
(***************************************************************************)
EXTENDS Integers, FiniteSetsExt

CONSTANTS
  Distributions,    \* rows of sale_distributions of the publisher
  NetOf,            \* their author_net_amount
  SaleOf,           \* the order each was sold in
  Payouts,          \* requests, and the payouts they create
  Reviews,          \* requests of the administration
  MinThreshold,     \* payoutMinThreshold, 0 when there is none
  PayoutDelay,      \* whether payoutDelayDays is set
  RlsSettings,      \* whether the role that connects is subject to the policies
  PayoutLimits,     \* how many requests may be in progress at once
  NoPayout          \* payout_id is null

VARIABLES
  share,            \* sale_distributions.payout_status
  claim,            \* sale_distributions.payout_id
  ripe,             \* shares frozen for longer than the delay
  payout,           \* payouts: status, and the shares its amount sums
  request,          \* progress of PayoutsService.request
  review,           \* progress of approve, reject and markPaid
  transferred,      \* payouts whose money has left, outside the platform
  payoutLimit,      \* the bound of this behaviour, one of PayoutLimits
  rlsEnforced       \* the role of this behaviour, one of RlsSettings

payoutVars ==
  <<share, claim, ripe, payout, request, review, transferred, payoutLimit, rlsEnforced>>

ASSUME PayoutsAssumption ==
  /\ IsFiniteSet(Distributions)
  /\ NetOf \in [Distributions -> Nat]
  /\ MinThreshold \in Nat
  /\ PayoutDelay \in BOOLEAN
  /\ RlsSettings \subseteq BOOLEAN
  /\ PayoutLimits \subseteq Nat
  /\ IsFiniteSet(Payouts) /\ IsFiniteSet(Reviews)
  /\ NoPayout \notin Payouts

-----------------------------------------------------------------------------
(* Shapes.                                                                 *)

PayoutStatus == {"unsold", "available", "paid", "cancelled"}
PayoutRequestStatus == {"none", "pending", "approved", "paid", "cancelled"}
Judgements == {"approve", "reject", "markPaid"}

PayoutTypeOK ==
  /\ share \in [Distributions -> PayoutStatus]
  /\ claim \in [Distributions -> Payouts \cup {NoPayout}]
  /\ ripe \subseteq Distributions
  /\ payout \in [Payouts -> [status : PayoutRequestStatus, lines : SUBSET Distributions]]
  /\ request \in [Payouts -> [step : {"idle", "read", "done", "refused"},
                              lines : SUBSET Distributions]]
  /\ review \in [Reviews -> [step : {"idle", "read"},
                             judgement : Judgements, of : Payouts \cup {NoPayout}]]
  /\ transferred \subseteq Payouts
  /\ payoutLimit \in PayoutLimits
  /\ rlsEnforced \in RlsSettings

NoReview == [step |-> "idle", judgement |-> "approve", of |-> NoPayout]

PayoutInit ==
  /\ share = [d \in Distributions |-> "unsold"]
  /\ claim = [d \in Distributions |-> NoPayout]
  /\ ripe = {}
  /\ payout = [p \in Payouts |-> [status |-> "none", lines |-> {}]]
  /\ request = [p \in Payouts |-> [step |-> "idle", lines |-> {}]]
  /\ review = [v \in Reviews |-> NoReview]
  /\ transferred = {}
  /\ payoutLimit \in PayoutLimits
  /\ rlsEnforced \in RlsSettings

\* Whether one more request may start.
MayStart ==
  Cardinality({p \in Payouts : request[p].step = "read"})
    + Cardinality({v \in Reviews : review[v].step = "read"}) < payoutLimit

-----------------------------------------------------------------------------
(* Sales and refunds, as OrderPayment makes them.                          *)

\* freezeForOrder stores the shares of an order, available at once.
SellOrder(o) ==
  /\ \A d \in Distributions : SaleOf[d] = o => share[d] = "unsold"
  /\ share' = [d \in Distributions |-> IF SaleOf[d] = o THEN "available" ELSE share[d]]
  /\ ripe' = IF PayoutDelay THEN ripe ELSE ripe \cup {d \in Distributions : SaleOf[d] = o}
  /\ UNCHANGED <<claim, payout, request, review, transferred, payoutLimit, rlsEnforced>>

\* The delay of an order's shares has passed.
Ripen(o) ==
  /\ \A d \in Distributions : SaleOf[d] = o => share[d] # "unsold" /\ d \notin ripe
  /\ ripe' = ripe \cup {d \in Distributions : SaleOf[d] = o}
  /\ UNCHANGED <<share, claim, payout, request, review, transferred, payoutLimit, rlsEnforced>>

\* RefundOrder: shares already paid are cancelled too.
RefundOrderPaid(o) ==
  /\ \E d \in Distributions : SaleOf[d] = o /\ share[d] \in {"available", "paid"}
  /\ share' = [d \in Distributions |->
                 IF SaleOf[d] = o /\ share[d] # "unsold" THEN "cancelled" ELSE share[d]]
  /\ UNCHANGED <<claim, ripe, payout, request, review, transferred, payoutLimit, rlsEnforced>>

\* refund cancels the shares still available, whoever claims them.
RefundOrder(o) ==
  /\ \E d \in Distributions : SaleOf[d] = o /\ share[d] = "available"
  /\ share' = [d \in Distributions |->
                 IF SaleOf[d] = o /\ share[d] = "available" THEN "cancelled" ELSE share[d]]
  /\ UNCHANGED <<claim, ripe, payout, request, review, transferred, payoutLimit, rlsEnforced>>

-----------------------------------------------------------------------------
(* PayoutsService.request.                                                 *)

\* Withdrawable: shares already claimed are offered again.
WithdrawableEvenClaimed == {d \in ripe : share[d] = "available"}

\* The shares that may be withdrawn.
Withdrawable == {d \in ripe : share[d] = "available" /\ claim[d] = NoPayout}

\* The read opens no context: sale_distributions_select shows it no row, unless
\* the role bypasses the policies.
EligibleSaleDistributions == IF rlsEnforced THEN {} ELSE Withdrawable

AmountOf(lines) == MapThenSumSet(LAMBDA d : NetOf[d], lines)

\* An amount above zero and not below the threshold.
Suffices(lines) == AmountOf(lines) > 0 /\ AmountOf(lines) >= MinThreshold

ReadEligible(p) ==
  /\ MayStart
  /\ request[p].step = "idle"
  /\ Suffices(EligibleSaleDistributions)
  /\ request' = [request EXCEPT ![p] = [step |-> "read", lines |-> EligibleSaleDistributions]]
  /\ UNCHANGED <<share, claim, ripe, payout, review, transferred, payoutLimit, rlsEnforced>>

RefuseRequest(p) ==
  /\ MayStart
  /\ request[p].step = "idle"
  /\ ~Suffices(EligibleSaleDistributions)
  /\ request' = [request EXCEPT ![p].step = "refused"]
  /\ UNCHANGED <<share, claim, ripe, payout, review, transferred, payoutLimit, rlsEnforced>>

\* The shares read are claimed by their identifiers, whatever they have become.
\* sale_distributions_update would hide them from the requester, but only a role
\* that bypasses the policies gets here.
CommitRequest(p) ==
  /\ request[p].step = "read"
  /\ payout' = [payout EXCEPT ![p] = [status |-> "pending", lines |-> request[p].lines]]
  /\ claim' = [d \in Distributions |-> IF d \in request[p].lines THEN p ELSE claim[d]]
  /\ request' = [request EXCEPT ![p].step = "done"]
  /\ UNCHANGED <<share, ripe, review, transferred, payoutLimit, rlsEnforced>>

-----------------------------------------------------------------------------
(* AdminPayoutsService: each judgement checks the status, then writes.     *)

\* The statuses a judgement accepts.
Accepted(judgement) ==
  IF judgement = "approve" THEN {"pending"}
  ELSE IF judgement = "reject" THEN {"pending", "approved"}
  ELSE {"approved"}

ReadForReview(v, judgement, p) ==
  /\ MayStart
  /\ review[v].step = "idle"
  /\ payout[p].status \in Accepted(judgement)
  /\ review' = [review EXCEPT ![v] = [step |-> "read", judgement |-> judgement, of |-> p]]
  /\ UNCHANGED <<share, claim, ripe, payout, request, transferred, payoutLimit, rlsEnforced>>

Judging(v, judgement) == review[v].step = "read" /\ review[v].judgement = judgement

Approve(v) ==
  /\ Judging(v, "approve")
  /\ payout' = [payout EXCEPT ![review[v].of].status = "approved"]
  /\ review' = [review EXCEPT ![v] = NoReview]
  /\ UNCHANGED <<share, claim, ripe, request, transferred, payoutLimit, rlsEnforced>>

\* Released: the shares a refund cancelled stay claimed.
ReleasedAvailable(p) ==
  [d \in Distributions |-> IF claim[d] = p /\ share[d] = "available" THEN NoPayout ELSE claim[d]]

\* What a rejected payout claimed can be claimed again.
Released(p) == [d \in Distributions |-> IF claim[d] = p THEN NoPayout ELSE claim[d]]

Reject(v) ==
  /\ Judging(v, "reject")
  /\ claim' = Released(review[v].of)
  /\ payout' = [payout EXCEPT ![review[v].of].status = "cancelled"]
  /\ review' = [review EXCEPT ![v] = NoReview]
  /\ UNCHANGED <<share, ripe, request, transferred, payoutLimit, rlsEnforced>>

\* Settle: the filter on the payout is missing.
SettleAllClaimed(p) ==
  [d \in Distributions |-> IF claim[d] # NoPayout THEN "paid" ELSE share[d]]

\* Whatever the payout claims becomes paid, a share cancelled meanwhile included.
Settle(p) == [d \in Distributions |-> IF claim[d] = p THEN "paid" ELSE share[d]]

MarkPaid(v) ==
  /\ Judging(v, "markPaid")
  /\ share' = Settle(review[v].of)
  /\ payout' = [payout EXCEPT ![review[v].of].status = "paid"]
  /\ transferred' = transferred \cup {review[v].of}
  /\ review' = [review EXCEPT ![v] = NoReview]
  /\ UNCHANGED <<claim, ripe, request, payoutLimit, rlsEnforced>>

-----------------------------------------------------------------------------

PayoutNext ==
  \/ \E d \in Distributions :
       SellOrder(SaleOf[d]) \/ Ripen(SaleOf[d]) \/ RefundOrder(SaleOf[d])
  \/ \E p \in Payouts : ReadEligible(p) \/ RefuseRequest(p) \/ CommitRequest(p)
  \/ \E v \in Reviews, j \in Judgements, p \in Payouts : ReadForReview(v, j, p)
  \/ \E v \in Reviews : Approve(v) \/ Reject(v) \/ MarkPaid(v)

PayoutSpec == PayoutInit /\ [][PayoutNext]_payoutVars

-----------------------------------------------------------------------------
(* What requests guarantee, however they overlap.                          *)

\* A share is marked as paid only when money that counts it has left: a payout
\* never settles shares beyond its amount, although the shares it claims may
\* be taken over, released or cancelled after the amount was computed.
PaidIsTransferred ==
  \A d \in Distributions :
    share[d] = "paid" => \E p \in transferred : d \in payout[p].lines

\* No share is lost to a payout that will never be paid: what is claimed is
\* claimed by a payout that stands (reject: "jamais perdues").
NothingIsLost ==
  \A d \in Distributions :
    claim[d] # NoPayout => payout[claim[d]].status \in {"pending", "approved", "paid"}

\* A share paid stays paid: no refund, rejection or later request offers it again.
PaidForGood ==
  [][\A d \in Distributions :
       share[d] = "paid" => share'[d] = "paid" /\ d \notin Withdrawable']_payoutVars

\* What the shares marked as paid are worth, and the money that has left.
Settled == AmountOf({d \in Distributions : share[d] = "paid"})
Sent == SumFunctionOnSet([p \in Payouts |-> AmountOf(payout[p].lines)], transferred)

\* No more is marked as paid than has left, however requests and refunds overlap;
\* one request at a time, exactly what has left is marked (request, markPaid).
MoneyBalances == Settled <= Sent /\ (payoutLimit = 1 => Sent = Settled)

\* A share that a refund cancelled is paid in one way only: with the payout that
\* claimed it before, counted it, was not rejected since, and whose money leaves now
\* (refund, reject, markPaid).
CancelledIsPaidIfCounted ==
  [][\A d \in Distributions : share[d] = "cancelled" /\ share'[d] = "paid" =>
       /\ claim[d] # NoPayout /\ d \in payout[claim[d]].lines
       /\ payout[claim[d]].status \in {"pending", "approved", "paid"}
       /\ payout'[claim[d]].status = "paid"]_payoutVars

(* What they guarantee one at a time.                                      *)

\* The money of a share leaves once: two payouts that were paid sum no share
\* in common.
TransferredOnce ==
  payoutLimit = 1 =>
    \A p, q \in transferred : p # q => payout[p].lines \cap payout[q].lines = {}

(* What the code says of itself and does not hold.                         *)

\* "une demande retire toujours l'intégralité du solde disponible" (PayoutsService):
\* a request is refused only when what may be withdrawn does not suffice.
RefusedForWant ==
  [][\A p \in Payouts :
       request[p].step # "refused" /\ request'[p].step = "refused" => ~Suffices(Withdrawable)
    ]_payoutVars
=============================================================================
