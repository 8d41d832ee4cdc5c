-------------------------- MODULE OrderPaymentProofs --------------------------
(***************************************************************************)
(* Theorems of OrderPayment, for any number of orders, lines, attempts,    *)
(* events, edits, refunds, restarts and overlapping requests.              *)
(***************************************************************************)
EXTENDS OrderPayment, FiniteSetTheorems, TLAPS

(***************************************************************************)
(* Type correctness.                                                       *)
(***************************************************************************)

\* The statuses a step writes are statuses of their columns.
LEMMA StatusesOK ==
  /\ \A out \in Outcomes : /\ out \in PaymentStatus
                           /\ OutcomeToOrderStatus[out] \in OrderStatus
  /\ \A c \in Settled : OutcomeOfCharge[c] \in Outcomes
  /\ EditTargets \subseteq OrderStatus
BY DEF Outcomes, PaymentStatus, OutcomeToOrderStatus, OrderStatus, Settled,
       OutcomeOfCharge, EditTargets

LEMMA RefundOverOK == RefundOver \in RefundRequests /\ RefundOver.step = "done"
BY DEF RefundOver, NewRefund, RefundRequests, RefundSteps

\* A refund that found the payment to give back, and one that was paid.
LEMMA FindPaymentEffect ==
  ASSUME refund \in [Refunds -> RefundRequests], NEW r \in Refunds, FindPayment(r)
  PROVE  \E q \in RefundRequests :
           /\ refund' = [refund EXCEPT ![r] = q]
           /\ \/ q.step = "done"
              \/ /\ q.step = "calling"
                 /\ q.order = refund[r].order
                 /\ q.attempt \in Confirmed(refund[r].order)
<1>1. CASE Confirmed(refund[r].order) = {}
  BY <1>1, RefundOverOK DEF FindPayment
<1>2. ASSUME NEW a \in Confirmed(refund[r].order),
             refund' = [refund EXCEPT ![r] =
                          IF CanRepay(a)
                          THEN [@ EXCEPT !.step = "calling", !.attempt = a]
                          ELSE RefundOver]
      PROVE  \E q \in RefundRequests :
               /\ refund' = [refund EXCEPT ![r] = q]
               /\ \/ q.step = "done"
                  \/ /\ q.step = "calling"
                     /\ q.order = refund[r].order
                     /\ q.attempt \in Confirmed(refund[r].order)
  <2>1. CASE ~CanRepay(a)
    BY <1>2, <2>1, RefundOverOK
  <2>2. CASE CanRepay(a)
    <3> DEFINE q == [refund[r] EXCEPT !.step = "calling", !.attempt = a]
    <3>1. /\ q \in RefundRequests
          /\ q.step = "calling" /\ q.order = refund[r].order /\ q.attempt = a
      BY DEF Confirmed, AttemptsOf, RefundRequests, RefundSteps
    <3>2. refund' = [refund EXCEPT ![r] = q]
      BY <1>2, <2>2
    <3> HIDE DEF q
    <3> QED
      BY <3>1, <3>2
  <2> QED
    BY <2>1, <2>2
<1> QED
  BY <1>1, <1>2 DEF FindPayment

LEMMA CallRefundEffect ==
  ASSUME refund \in [Refunds -> RefundRequests], NEW r \in Refunds, CallRefund(r)
  PROVE  \E q \in RefundRequests :
           /\ refund' = [refund EXCEPT ![r] = q]
           /\ q.step = "repaid"
           /\ q.order = refund[r].order
           /\ q.attempt = refund[r].attempt
<1> DEFINE q == [refund[r] EXCEPT !.step = "repaid"]
<1>1. /\ q \in RefundRequests
      /\ q.step = "repaid" /\ q.order = refund[r].order /\ q.attempt = refund[r].attempt
  BY DEF RefundRequests, RefundSteps
<1>2. refund' = [refund EXCEPT ![r] = q]
  BY DEF CallRefund
<1> HIDE DEF q
<1> QED
  BY <1>1, <1>2

LEMMA InitTypeOK == Init => TypeOK
BY DEF Init, TypeOK, OrderStatus, PaymentStatus, Settled, OutcomeOfCharge,
       InitializeSteps, WebhookSteps, EditRequests, EditSteps, RefundRequests,
   RefundSteps, NewEdit, NewRefund

\* The request of a notification names an attempt and an outcome.
HandledIsNotified ==
  \A e \in Events : webhook[e] # "idle" => notice[e] \in Notices

LEMMA NextTypeOK ==
  TypeOK /\ HandledIsNotified /\ [Next]_vars => TypeOK' /\ HandledIsNotified'
<1> SUFFICES ASSUME TypeOK, HandledIsNotified, [Next]_vars
             PROVE  TypeOK' /\ HandledIsNotified'
  OBVIOUS
<1> USE OrderPaymentAssumption DEF TypeOK, HandledIsNotified,
        rows, external, requests
<1>1. ASSUME NEW a \in Attempts, ReadPayableOrder(a)
     PROVE  TypeOK' /\ HandledIsNotified'
  BY <1>1 DEF ReadPayableOrder, InitializeSteps
<1>2. ASSUME NEW a \in Attempts, OpenCharge(a)
     PROVE  TypeOK' /\ HandledIsNotified'
  BY <1>2 DEF OpenCharge
<1>3. ASSUME NEW a \in Attempts, FindInFlight(a)
     PROVE  TypeOK' /\ HandledIsNotified'
  BY <1>3 DEF FindInFlight, InitializeSteps
<1>4. ASSUME NEW a \in Attempts, CreatePayment(a)
     PROVE  TypeOK' /\ HandledIsNotified'
  BY <1>4 DEF CreatePayment, InitializeSteps, PaymentStatus
<1>5. ASSUME NEW a \in Attempts, DriverAnswers(a)
     PROVE  TypeOK' /\ HandledIsNotified'
  BY <1>5 DEF DriverAnswers, InitializeSteps
<1>6. ASSUME NEW a \in Attempts, DriverFails(a)
     PROVE  TypeOK' /\ HandledIsNotified'
  BY <1>6 DEF DriverFails, InitializeSteps, PaymentStatus
<1>7. ASSUME NEW a \in Attempts, CommitInitialize(a)
     PROVE  TypeOK' /\ HandledIsNotified'
  BY <1>7 DEF CommitInitialize, InitializeSteps, PaymentStatus, OrderStatus
<1>8. ASSUME NEW e \in Events, RecordEvent(e)
     PROVE  TypeOK' /\ HandledIsNotified'
  BY <1>8 DEF RecordEvent, WebhookSteps
<1>9. ASSUME NEW e \in Events, RecordRejected(e)
     PROVE  TypeOK' /\ HandledIsNotified'
  BY <1>9 DEF RecordRejected, WebhookSteps
<1>10. ASSUME NEW e \in Events, ReadPayment(e)
     PROVE  TypeOK' /\ HandledIsNotified'
  BY <1>10 DEF ReadPayment, Verdict, WebhookSteps
<1>11. ASSUME NEW e \in Events, CloseEvent(e)
     PROVE  TypeOK' /\ HandledIsNotified'
  BY <1>11 DEF CloseEvent, WebhookSteps
<1>12. ASSUME NEW e \in Events, ApplyOutcome(e)
     PROVE  TypeOK' /\ HandledIsNotified'
  BY <1>12, StatusesOK DEF ApplyOutcome, Grant, Notices, WebhookSteps
<1>13. ASSUME NEW e \in Events, AbortOutcome(e)
     PROVE  TypeOK' /\ HandledIsNotified'
  BY <1>13 DEF AbortOutcome, WebhookSteps
<1>14. ASSUME NEW e \in Events, Acknowledge(e)
     PROVE  TypeOK' /\ HandledIsNotified'
  BY <1>14 DEF Acknowledge
<1>15. ASSUME NEW e \in Events, NEW a \in Attempts, Notify(e, a)
     PROVE  TypeOK' /\ HandledIsNotified'
  BY <1>15, StatusesOK DEF Notify, Notices
<1>16. ASSUME NEW e \in Events, NEW a \in Attempts, NEW out \in Outcomes, Simulate(e, a, out)
     PROVE  TypeOK' /\ HandledIsNotified'
  BY <1>16 DEF Simulate, Notices, Settled, OutcomeOfCharge
<1>17. ASSUME NEW x \in Edits, NEW o \in Orders, NEW to \in OrderStatus, ReadForEdit(x, o, to)
     PROVE  TypeOK' /\ HandledIsNotified'
  BY <1>17 DEF ReadForEdit, EditRequests, EditSteps
<1>18. ASSUME NEW x \in Edits, WriteEdit(x)
     PROVE  TypeOK' /\ HandledIsNotified'
  BY <1>18, StatusesOK DEF WriteEdit, EditRequests, EditSteps, NewEdit, OrderStatus
<1>19. ASSUME NEW r \in Refunds, NEW o \in Orders, ReadForRefund(r, o)
     PROVE  TypeOK' /\ HandledIsNotified'
  BY <1>19 DEF ReadForRefund, RefundRequests, RefundSteps
<1>20. ASSUME NEW r \in Refunds, FindPayment(r)
       PROVE  TypeOK' /\ HandledIsNotified'
  <2>1. PICK q \in RefundRequests : refund' = [refund EXCEPT ![r] = q]
    BY <1>20, FindPaymentEffect
  <2>2. refund' \in [Refunds -> RefundRequests]
    BY <2>1
  <2> QED
    BY <1>20, <2>2 DEF FindPayment
<1>21. ASSUME NEW r \in Refunds, CallRefund(r)
       PROVE  TypeOK' /\ HandledIsNotified'
  <2>1. PICK q \in RefundRequests : refund' = [refund EXCEPT ![r] = q]
    BY <1>21, CallRefundEffect
  <2>2. refund' \in [Refunds -> RefundRequests]
    BY <2>1
  <2>3. repaid' = [repaid EXCEPT ![refund[r].attempt] = repaid[refund[r].attempt] + 1]
    BY <1>21 DEF CallRefund
  <2>4. repaid' \in [Attempts -> Nat]
    <3>1. CASE refund[r].attempt \in Attempts
      <4>1. repaid[refund[r].attempt] + 1 \in Nat
        BY <3>1
      <4> QED
        BY <2>3, <4>1
    <3>2. CASE refund[r].attempt \notin Attempts
      BY <2>3, <3>2
    <3> QED
      BY <3>1, <3>2
  <2> QED
    BY <1>21, <2>2, <2>4 DEF CallRefund
<1>22. ASSUME NEW r \in Refunds, RefundFails(r)
     PROVE  TypeOK' /\ HandledIsNotified'
  BY <1>22 DEF RefundFails, RefundOver, NewRefund, RefundRequests, RefundSteps
<1>23. ASSUME NEW r \in Refunds, CommitRefund(r)
     PROVE  TypeOK' /\ HandledIsNotified'
  BY <1>23 DEF CommitRefund, Revoke, RefundOver, NewRefund, RefundRequests, RefundSteps, OrderStatus, PaymentStatus
<1>24. CASE Restart
  BY <1>24 DEF Restart, NewEdit, NewRefund, Over, InitializeSteps, WebhookSteps, EditRequests, EditSteps, RefundRequests, RefundSteps, OrderStatus
<1>25. CASE UNCHANGED vars
  BY <1>25 DEF vars
<1> QED
  BY <1>1, <1>2, <1>3, <1>4, <1>5, <1>6, <1>7, <1>8, <1>9, <1>10, <1>11, <1>12, <1>13, <1>14, <1>15, <1>16, <1>17, <1>18, <1>19, <1>20, <1>21, <1>22, <1>23, <1>24, <1>25
     DEF Next, InitializeStep, WebhookStep, RefundStep

\* Every variable keeps the shape of the column or request it stands for.
THEOREM TypeCorrect == Spec => []TypeOK
<1>1. Init => TypeOK /\ HandledIsNotified
  BY InitTypeOK DEF Init, HandledIsNotified
<1> QED
  BY <1>1, NextTypeOK, PTL DEF Spec

(***************************************************************************)
(* What the requests in progress remember.  A refund holds a payment of    *)
(* its order, an edit a status an administrator or the buyer may set.      *)
(***************************************************************************)
RequestsOK ==
  /\ \A x \in Edits : edit[x].step = "writing" =>
       edit[x].order \in Orders /\ edit[x].to \in EditTargets
  /\ \A r \in Refunds : refund[r].step \in {"checked", "calling", "repaid"} =>
       refund[r].order \in Orders
  /\ \A r \in Refunds : refund[r].step \in {"calling", "repaid"} =>
       refund[r].attempt \in AttemptsOf(refund[r].order)

LEMMA InitRequestsOK == Init => RequestsOK
BY DEF Init, RequestsOK, NewEdit, NewRefund

LEMMA NextRequestsOK ==
  TypeOK /\ RequestsOK /\ [Next]_vars => RequestsOK'
<1> SUFFICES ASSUME TypeOK, RequestsOK, [Next]_vars
             PROVE  RequestsOK'
  OBVIOUS
<1> USE DEF RequestsOK
<1>1. CASE UNCHANGED <<edit, refund>>
  BY <1>1 DEF AttemptsOf
<1>2. ASSUME NEW x \in Edits, NEW o \in Orders, NEW to \in OrderStatus,
             ReadForEdit(x, o, to)
      PROVE  RequestsOK'
  BY <1>2 DEF ReadForEdit, TypeOK, AttemptsOf
<1>3. ASSUME NEW x \in Edits, WriteEdit(x)
      PROVE  RequestsOK'
  BY <1>3 DEF WriteEdit, NewEdit, TypeOK, AttemptsOf
<1>4. ASSUME NEW r \in Refunds, NEW o \in Orders, ReadForRefund(r, o)
      PROVE  RequestsOK'
  BY <1>4 DEF ReadForRefund, TypeOK, AttemptsOf
<1>5. ASSUME NEW r \in Refunds, FindPayment(r)
      PROVE  RequestsOK'
  <2>1. PICK q \in RefundRequests :
          /\ refund' = [refund EXCEPT ![r] = q]
          /\ \/ q.step = "done"
             \/ /\ q.step = "calling"
                /\ q.order = refund[r].order
                /\ q.attempt \in Confirmed(refund[r].order)
    BY <1>5, FindPaymentEffect DEF TypeOK
  <2> QED
    BY <1>5, <2>1 DEF FindPayment, Confirmed, AttemptsOf, TypeOK
<1>6. ASSUME NEW r \in Refunds, CallRefund(r)
      PROVE  RequestsOK'
  <2>1. PICK q \in RefundRequests :
          /\ refund' = [refund EXCEPT ![r] = q]
          /\ q.step = "repaid"
          /\ q.order = refund[r].order
          /\ q.attempt = refund[r].attempt
    BY <1>6, CallRefundEffect DEF TypeOK
  <2> QED
    BY <1>6, <2>1 DEF CallRefund, TypeOK, AttemptsOf
<1>7. ASSUME NEW r \in Refunds, RefundFails(r) \/ CommitRefund(r)
      PROVE  RequestsOK'
  BY <1>7 DEF RefundFails, CommitRefund, RefundOver, NewRefund, TypeOK, AttemptsOf
<1>8. CASE Restart
  BY <1>8 DEF Restart, NewEdit, NewRefund, Over, TypeOK, AttemptsOf
<1> QED
  BY <1>1, <1>2, <1>3, <1>4, <1>5, <1>6, <1>7, <1>8
     DEF Next, vars, rows, external, requests, InitializeStep, WebhookStep,
         RefundStep, ReadPayableOrder, OpenCharge, FindInFlight, CreatePayment,
         DriverAnswers, DriverFails, CommitInitialize, Notify, Simulate,
         Acknowledge, RecordEvent, RecordRejected, ReadPayment, CloseEvent,
         ApplyOutcome, AbortOutcome

(***************************************************************************)
(* The inductive invariant of a sale.  An attempt may be confirmed only     *)
(* while no line of its order was ever granted, and a granted line stays   *)
(* granted or withdrawn: so the attempts that are confirmed, or that a      *)
(* refund in progress believes to be, are at most one per order, whatever   *)
(* a late commit or a stale verdict has since made of payments.status.     *)
(***************************************************************************)
PostPayment == {"paid", "processing", "shipped", "delivered", "refunded"}

Granted(o) == \A i \in ItemsOf(o) : distribution[i] # "none"

\* An attempt that is confirmed, or that a refund in progress holds.
Seller(a) ==
  \/ payment[a] \in {"successful", "refunded"}
  \/ \E r \in Refunds : refund[r].step \in {"calling", "repaid"} /\ refund[r].attempt = a

SellerIsGranted == \A a \in Attempts : Seller(a) => Granted(OrderOf[a])

OneSeller ==
  \A a, b \in Attempts : OrderOf[a] = OrderOf[b] /\ Seller(a) /\ Seller(b) => a = b

EditIsGranted ==
  \A x \in Edits :
    edit[x].step = "writing" /\ edit[x].to \in PostPayment => Granted(edit[x].order)

SaleInv ==
  /\ SellerIsGranted
  /\ OneSeller
  /\ EditIsGranted
  /\ ConfirmedIsServed
  /\ AccessMatchesClaim
  /\ PaidIsGranted
  /\ RefundedIsRevoked

LEMMA InitSaleInv == Init => SaleInv
<1> SUFFICES ASSUME Init PROVE SaleInv
  OBVIOUS
<1> USE OrderPaymentAssumption DEF Init, NewEdit, NewRefund
<1>1. \A a \in Attempts : ~Seller(a)
  BY DEF Seller
<1>2. SellerIsGranted /\ OneSeller
  BY <1>1 DEF SellerIsGranted, OneSeller
<1>3. EditIsGranted /\ ConfirmedIsServed /\ AccessMatchesClaim
  BY DEF EditIsGranted, ConfirmedIsServed, AccessMatchesClaim
<1>4. PaidIsGranted /\ RefundedIsRevoked
  BY DEF PaidIsGranted, RefundedIsRevoked, AttemptsOf
<1> QED
  BY <1>2, <1>3, <1>4 DEF SaleInv

\* A step that grants and withdraws nothing, confirms no attempt and opens no
\* status that a payment opens keeps the invariant, whatever else it overwrites.
LEMMA QuietStep ==
  ASSUME TypeOK, SaleInv,
         UNCHANGED <<library, distribution>>,
         \A a \in Attempts : Seller(a)' => Seller(a),
         \A a \in Attempts : payment'[a] = "successful" => payment[a] = "successful",
         \A a \in Attempts : payment'[a] = "refunded" => payment[a] = "refunded",
         \A o \in Orders : order'[o] \in PostPayment =>
                             order[o] \in PostPayment \/ Granted(o),
         \A o \in Orders : order'[o] = "refunded" => order[o] = "refunded",
         \A x \in Edits : edit'[x].step = "writing" /\ edit'[x].to \in PostPayment =>
                             Granted(edit'[x].order)
  PROVE  SaleInv'
<1> USE OrderPaymentAssumption DEF SaleInv
<1>1. \A o \in Orders : Granted(o)' <=> Granted(o)
  BY DEF Granted, ItemsOf
<1>2. SellerIsGranted'
  BY <1>1 DEF SellerIsGranted
<1>3. OneSeller'
  BY DEF OneSeller
<1>4. EditIsGranted'
  BY DEF EditIsGranted, Granted, ItemsOf
<1>5. ConfirmedIsServed'
  BY DEF ConfirmedIsServed, ItemsOf
<1>6. AccessMatchesClaim'
  BY DEF AccessMatchesClaim
<1>7. PaidIsGranted'
  BY DEF PaidIsGranted, Granted, PostPayment, ItemsOf
<1>8. RefundedIsRevoked'
  BY DEF RefundedIsRevoked, AttemptsOf
<1> QED
  BY <1>2, <1>3, <1>4, <1>5, <1>6, <1>7, <1>8

\* The transaction that confirms a payment: it commits only if no line of the
\* order was ever granted, hence only if the order has no other seller.
LEMMA ConfirmKeepsSale ==
  ASSUME TypeOK, HandledIsNotified, RequestsOK, SaleInv,
         NEW e \in Events, ApplyOutcome(e), notice[e].outcome = "successful"
  PROVE  SaleInv'
<1> USE OrderPaymentAssumption
<1>1. PICK a \in Attempts, o \in Orders :
        /\ OrderOf[a] = o
        /\ payment' = [payment EXCEPT ![a] = "successful"]
        /\ order' = [order EXCEPT ![o] = "paid"]
        /\ Grant(o)
        /\ ~AlreadyGranted(o)
        /\ UNCHANGED <<edit, refund>>
  <2>1. notice[e].attempt \in Attempts
    BY DEF ApplyOutcome, HandledIsNotified, Notices
  <2>2. OrderOf[notice[e].attempt] \in Orders
    BY <2>1
  <2>3. /\ payment' = [payment EXCEPT ![notice[e].attempt] = "successful"]
        /\ order' = [order EXCEPT ![OrderOf[notice[e].attempt]] = "paid"]
        /\ Grant(OrderOf[notice[e].attempt])
        /\ ~AlreadyGranted(OrderOf[notice[e].attempt])
        /\ UNCHANGED <<edit, refund>>
    BY DEF ApplyOutcome, OutcomeToOrderStatus
  <2> QED
    BY <2>1, <2>2, <2>3
<1>2. \E i \in Items : i \in ItemsOf(o)
  BY <1>1 DEF ItemsOf
<1>3. ~Granted(o)
  BY <1>1, <1>2 DEF Granted, AlreadyGranted
<1>4. \A i \in ItemsOf(o) : /\ distribution'[i] = "available"
                            /\ i \in Digital => library'[i] = "active"
  BY <1>1 DEF Grant, ItemsOf
<1>5. \A i \in Items \ ItemsOf(o) : distribution'[i] = distribution[i] /\ library'[i] = library[i]
  BY <1>1 DEF Grant, TypeOK
<1>6. \A p \in Orders : Granted(p) => Granted(p)'
  BY <1>4, <1>5 DEF Granted, ItemsOf
<1>7. Granted(o)'
  BY <1>4 DEF Granted, ItemsOf
<1>8. \A b \in Attempts : Seller(b)' => b = a \/ (Seller(b) /\ OrderOf[b] # o)
  <2>1. \A b \in Attempts : Seller(b)' => b = a \/ Seller(b)
    BY <1>1 DEF Seller, TypeOK
  <2>2. \A b \in Attempts : Seller(b) => OrderOf[b] # o
    BY <1>3 DEF SaleInv, SellerIsGranted
  <2> QED
    BY <2>1, <2>2
<1>9. SellerIsGranted'
  BY <1>6, <1>1, <1>7, <1>8 DEF SaleInv, SellerIsGranted
<1>10. OneSeller'
  BY <1>1, <1>8 DEF SaleInv, OneSeller
<1>11. EditIsGranted'
  BY <1>1, <1>6 DEF SaleInv, EditIsGranted, RequestsOK
<1>12. ConfirmedIsServed'
  BY <1>1, <1>4, <1>5 DEF SaleInv, ConfirmedIsServed, TypeOK, ItemsOf
<1>13. AccessMatchesClaim'
  BY <1>4, <1>5 DEF SaleInv, AccessMatchesClaim, ItemsOf
<1>14. PaidIsGranted'
  BY <1>1, <1>6, <1>7 DEF SaleInv, PaidIsGranted, Granted, TypeOK
<1>15. RefundedIsRevoked'
  <2> SUFFICES ASSUME NEW i \in Items,
                      \/ order'[ItemOrder[i]] = "refunded"
                      \/ \E b \in AttemptsOf(ItemOrder[i]) : payment'[b] = "refunded"
               PROVE  distribution'[i] = "cancelled" /\ library'[i] # "active"
    BY DEF RefundedIsRevoked, AttemptsOf
  <2>1. \/ order[ItemOrder[i]] = "refunded"
        \/ \E b \in AttemptsOf(ItemOrder[i]) : payment[b] = "refunded"
    BY <1>1 DEF TypeOK, AttemptsOf
  <2>2. distribution[i] = "cancelled" /\ library[i] # "active"
    BY <2>1 DEF SaleInv, RefundedIsRevoked
  <2>3. i \notin ItemsOf(o)
    BY <1>1, <2>2 DEF AlreadyGranted
  <2> QED
    BY <1>5, <2>2, <2>3
<1> QED
  BY <1>9, <1>10, <1>11, <1>12, <1>13, <1>14, <1>15 DEF SaleInv

\* The transaction that commits a refund: the payment it holds is the only
\* seller of its order, so no confirmed payment is left without its lines.
LEMMA RefundKeepsSale ==
  ASSUME TypeOK, RequestsOK, SaleInv, NEW r \in Refunds, CommitRefund(r)
  PROVE  SaleInv'
<1> USE OrderPaymentAssumption
<1>1. PICK a \in Attempts, o \in Orders :
        /\ OrderOf[a] = o
        /\ Seller(a)
        /\ payment' = [payment EXCEPT ![a] = "refunded"]
        /\ order' = [order EXCEPT ![o] = "refunded"]
        /\ refund' = [refund EXCEPT ![r] = RefundOver]
        /\ Revoke(o)
        /\ UNCHANGED edit
  BY DEF CommitRefund, RequestsOK, AttemptsOf, Seller
<1>2. Granted(o)
  BY <1>1 DEF SaleInv, SellerIsGranted
<1>3. \A i \in ItemsOf(o) : distribution'[i] = "cancelled" /\ library'[i] # "active"
  BY <1>1, <1>2 DEF Revoke, Granted, ItemsOf, TypeOK
<1>4. \A i \in Items \ ItemsOf(o) : distribution'[i] = distribution[i] /\ library'[i] = library[i]
  BY <1>1 DEF Revoke, TypeOK
<1>5. \A i \in ItemsOf(o) : i \in Digital => library'[i] = "revoked"
  BY <1>1, <1>2 DEF Revoke, Granted, ItemsOf, TypeOK, SaleInv, AccessMatchesClaim
<1>6. \A p \in Orders : Granted(p) => Granted(p)'
  BY <1>3, <1>4 DEF Granted, ItemsOf
<1>7. \A b \in Attempts : Seller(b)' => Seller(b)
  BY <1>1, RefundOverOK DEF Seller, TypeOK
<1>8. SellerIsGranted'
  BY <1>6, <1>7 DEF SaleInv, SellerIsGranted
<1>9. OneSeller'
  BY <1>7 DEF SaleInv, OneSeller
<1>10. EditIsGranted'
  BY <1>1, <1>6 DEF SaleInv, EditIsGranted, RequestsOK
<1>11. ConfirmedIsServed'
  <2> SUFFICES ASSUME NEW b \in Attempts, payment'[b] = "successful"
               PROVE  \A i \in ItemsOf(OrderOf[b]) :
                        /\ distribution'[i] = "available"
                        /\ i \in Digital => library'[i] = "active"
    BY DEF ConfirmedIsServed, ItemsOf
  <2>1. b # a /\ payment[b] = "successful"
    BY <1>1 DEF TypeOK
  <2>2. OrderOf[b] # o
    BY <1>1, <2>1 DEF SaleInv, OneSeller, Seller
  <2>3. \A i \in ItemsOf(OrderOf[b]) : i \in Items \ ItemsOf(o)
    BY <2>2 DEF ItemsOf
  <2> QED
    BY <1>4, <2>1, <2>3 DEF SaleInv, ConfirmedIsServed
<1>12. AccessMatchesClaim'
  BY <1>3, <1>4, <1>5 DEF SaleInv, AccessMatchesClaim, ItemsOf
<1>13. PaidIsGranted'
  BY <1>1, <1>2, <1>6 DEF SaleInv, PaidIsGranted, Granted, TypeOK
<1>14. RefundedIsRevoked'
  <2> SUFFICES ASSUME NEW i \in Items \ ItemsOf(o),
                      \/ order'[ItemOrder[i]] = "refunded"
                      \/ \E b \in AttemptsOf(ItemOrder[i]) : payment'[b] = "refunded"
               PROVE  distribution'[i] = "cancelled" /\ library'[i] # "active"
    BY <1>3 DEF RefundedIsRevoked, AttemptsOf
  <2>1. ItemOrder[i] # o
    BY DEF ItemsOf
  <2>2. \/ order[ItemOrder[i]] = "refunded"
        \/ \E b \in AttemptsOf(ItemOrder[i]) : payment[b] = "refunded"
    BY <1>1, <2>1 DEF TypeOK, AttemptsOf
  <2> QED
    BY <1>4, <2>2 DEF SaleInv, RefundedIsRevoked
<1> QED
  BY <1>8, <1>9, <1>10, <1>11, <1>12, <1>13, <1>14 DEF SaleInv

LEMMA NextSaleInv ==
  ASSUME TypeOK, HandledIsNotified, RequestsOK, SaleInv, [Next]_vars
  PROVE  SaleInv'
<1> USE OrderPaymentAssumption
<1>1. CASE UNCHANGED <<order, payment, library, distribution, edit, refund>>
  BY <1>1, QuietStep DEF Seller, SaleInv, EditIsGranted
<1>2. ASSUME NEW a \in Attempts, CreatePayment(a) \/ DriverFails(a)
      PROVE  SaleInv'
  <2>1. \A b \in Attempts : payment'[b] = payment[b] \/ payment'[b] \in {"initialized", "failed"}
    BY <1>2 DEF CreatePayment, DriverFails, TypeOK
  <2>2. UNCHANGED <<order, library, distribution, edit, refund>>
    BY <1>2 DEF CreatePayment, DriverFails
  <2> QED
    BY <2>1, <2>2, QuietStep DEF Seller, SaleInv, EditIsGranted
<1>3. ASSUME NEW a \in Attempts, CommitInitialize(a)
      PROVE  SaleInv'
  <2>1. \A b \in Attempts : payment'[b] = payment[b] \/ payment'[b] = "pending"
    BY <1>3 DEF CommitInitialize, TypeOK
  <2>2. \A o \in Orders : order'[o] = order[o] \/ order'[o] = "awaiting_payment"
    BY <1>3 DEF CommitInitialize, TypeOK
  <2>3. UNCHANGED <<library, distribution, edit, refund>>
    BY <1>3 DEF CommitInitialize
  <2> QED
    BY <2>1, <2>2, <2>3, QuietStep DEF Seller, SaleInv, EditIsGranted, PostPayment
<1>4. ASSUME NEW e \in Events, ApplyOutcome(e)
      PROVE  SaleInv'
  <2>1. CASE notice[e].outcome = "successful"
    BY <1>4, <2>1, ConfirmKeepsSale
  <2>2. CASE notice[e].outcome # "successful"
    <3>1. notice[e].attempt \in Attempts /\ notice[e].outcome \in {"failed", "cancelled"}
      BY <1>4, <2>2 DEF ApplyOutcome, HandledIsNotified, Notices, Outcomes
    <3>2. \A b \in Attempts : payment'[b] = payment[b] \/ payment'[b] \in {"failed", "cancelled"}
      BY <1>4, <3>1 DEF ApplyOutcome, TypeOK
    <3>3. \A o \in Orders : order'[o] = order[o] \/ order'[o] \in {"failed", "cancelled"}
      BY <1>4, <3>1 DEF ApplyOutcome, OutcomeToOrderStatus, TypeOK
    <3>4. UNCHANGED <<library, distribution, edit, refund>>
      BY <1>4, <2>2 DEF ApplyOutcome
    <3> QED
      BY <3>2, <3>3, <3>4, QuietStep DEF Seller, SaleInv, EditIsGranted, PostPayment
  <2> QED
    BY <2>1, <2>2
<1>5. ASSUME NEW x \in Edits, NEW o \in Orders, NEW to \in OrderStatus,
             ReadForEdit(x, o, to)
      PROVE  SaleInv'
  <2>1. to \in PostPayment => Granted(o)
    BY <1>5 DEF ReadForEdit, TransitionAllowed, AllowedTransitions, PostPayment,
       EditTargets, OrderStatus, TypeOK, SaleInv, PaidIsGranted, Granted
  <2>2. edit' = [edit EXCEPT ![x] = [step |-> "writing", order |-> o, to |-> to]]
    BY <1>5 DEF ReadForEdit
  <2>3. UNCHANGED <<order, payment, library, distribution, refund>>
    BY <1>5 DEF ReadForEdit, rows
  <2> QED
    BY <2>1, <2>2, <2>3, QuietStep DEF Seller, SaleInv, EditIsGranted, TypeOK
<1>6. ASSUME NEW x \in Edits, WriteEdit(x)
      PROVE  SaleInv'
  <2>1. edit' = [edit EXCEPT ![x] = [NewEdit EXCEPT !.step = "done"]]
    BY <1>6 DEF WriteEdit
  <2>2. \A y \in Edits : edit'[y].step = "writing" => edit'[y] = edit[y]
    BY <2>1 DEF TypeOK, NewEdit
  <2>3. \A o \in Orders : order'[o] = order[o] \/ (edit[x].order = o /\ order'[o] = edit[x].to)
    BY <1>6 DEF WriteEdit, TypeOK
  <2>4. edit[x].to # "refunded" /\ (edit[x].to \in PostPayment => Granted(edit[x].order))
    BY <1>6 DEF WriteEdit, RequestsOK, EditTargets, SaleInv, EditIsGranted
  <2>5. UNCHANGED <<payment, library, distribution, refund>>
    BY <1>6 DEF WriteEdit
  <2> QED
    BY <2>2, <2>3, <2>4, <2>5, QuietStep DEF Seller, SaleInv, EditIsGranted
<1>7. ASSUME NEW r \in Refunds, NEW o \in Orders, ReadForRefund(r, o)
      PROVE  SaleInv'
  <2>1. \A b \in Attempts : Seller(b)' => Seller(b)
    BY <1>7 DEF ReadForRefund, Seller, TypeOK, rows
  <2>2. UNCHANGED <<order, payment, library, distribution, edit>>
    BY <1>7 DEF ReadForRefund, rows
  <2> QED
    BY <2>1, <2>2, QuietStep DEF SaleInv, EditIsGranted
<1>8. ASSUME NEW r \in Refunds, FindPayment(r)
      PROVE  SaleInv'
  <2>1. PICK q \in RefundRequests :
          /\ refund' = [refund EXCEPT ![r] = q]
          /\ \/ q.step = "done"
             \/ /\ q.step = "calling"
                /\ q.order = refund[r].order
                /\ q.attempt \in Confirmed(refund[r].order)
    BY <1>8, FindPaymentEffect DEF TypeOK
  <2>2. UNCHANGED <<order, payment, library, distribution, edit>>
    BY <1>8 DEF FindPayment, rows
  <2>3. \A b \in Attempts : Seller(b)' => Seller(b)
    BY <2>1, <2>2 DEF Confirmed, Seller, TypeOK
  <2> QED
    BY <2>2, <2>3, QuietStep DEF SaleInv, EditIsGranted
<1>9. ASSUME NEW r \in Refunds, CallRefund(r)
      PROVE  SaleInv'
  <2>1. PICK q \in RefundRequests :
          /\ refund' = [refund EXCEPT ![r] = q]
          /\ q.step = "repaid"
          /\ q.order = refund[r].order
          /\ q.attempt = refund[r].attempt
    BY <1>9, CallRefundEffect DEF TypeOK
  <2>2. UNCHANGED <<order, payment, library, distribution, edit>>
    BY <1>9 DEF CallRefund, rows
  <2>3. refund[r].step = "calling"
    BY <1>9 DEF CallRefund
  <2>4. \A b \in Attempts : Seller(b)' => Seller(b)
    BY <2>1, <2>2, <2>3 DEF Seller, TypeOK
  <2> QED
    BY <2>2, <2>4, QuietStep DEF SaleInv, EditIsGranted
<1>10. ASSUME NEW r \in Refunds, RefundFails(r)
       PROVE  SaleInv'
  <2>1. UNCHANGED <<order, payment, library, distribution, edit>>
    BY <1>10 DEF RefundFails, rows
  <2>2. \A b \in Attempts : Seller(b)' => Seller(b)
    BY <1>10, <2>1, RefundOverOK DEF RefundFails, Seller, TypeOK
  <2> QED
    BY <2>1, <2>2, QuietStep DEF SaleInv, EditIsGranted
<1>11. ASSUME NEW r \in Refunds, CommitRefund(r)
       PROVE  SaleInv'
  BY <1>11, RefundKeepsSale
<1>12. CASE Restart
  <2>1. UNCHANGED <<order, payment, library, distribution>>
    BY <1>12 DEF Restart, rows
  <2>2. \A r \in Refunds : refund'[r] = refund[r] \/ refund'[r].step = "lost"
    BY <1>12 DEF Restart, NewRefund
  <2>3. \A x \in Edits : edit'[x] = edit[x] \/ edit'[x].step = "lost"
    BY <1>12 DEF Restart, NewEdit
  <2>4. \A b \in Attempts : Seller(b)' => Seller(b)
    BY <2>1, <2>2 DEF Seller
  <2> QED
    BY <2>1, <2>3, <2>4, QuietStep DEF SaleInv, EditIsGranted
<1> QED
  BY <1>1, <1>2, <1>3, <1>4, <1>5, <1>6, <1>7, <1>8, <1>9, <1>10, <1>11, <1>12
     DEF Next, vars, rows, external, requests, InitializeStep, WebhookStep,
         RefundStep, ReadPayableOrder, OpenCharge, FindInFlight, DriverAnswers,
         Notify, Simulate, Acknowledge, RecordEvent, RecordRejected, ReadPayment,
         CloseEvent, AbortOutcome

\* The invariant of the specification: every row is typed, every request in
\* progress remembers something true, and a sale has one seller.
LEMMA SaleInvariant ==
  Spec => [](TypeOK /\ HandledIsNotified /\ RequestsOK /\ SaleInv)
<1>1. Init => TypeOK /\ HandledIsNotified /\ RequestsOK /\ SaleInv
  BY InitTypeOK, InitRequestsOK, InitSaleInv DEF Init, HandledIsNotified
<1>2. TypeOK /\ HandledIsNotified /\ RequestsOK /\ SaleInv /\ [Next]_vars
        => (TypeOK /\ HandledIsNotified /\ RequestsOK /\ SaleInv)'
  BY NextTypeOK, NextRequestsOK, NextSaleInv
<1> QED
  BY <1>1, <1>2, PTL DEF Spec

\* At most one attempt of an order is ever confirmed, however many the buyer
\* opens and the providers capture (applyOutcome).
THEOREM OneConfirmation == Spec => []AtMostOneConfirmed
<1>1. SaleInv => AtMostOneConfirmed
  BY DEF SaleInv, OneSeller, Seller, AtMostOneConfirmed
<1> QED
  BY <1>1, SaleInvariant, PTL

\* A confirmed payment has its accesses and its distributions, whatever
\* refunds, edits and late notifications overlap (applyOutcome, refund).
THEOREM ConfirmationServed == Spec => []ConfirmedIsServed
BY SaleInvariant, PTL DEF SaleInv

\* Accesses and distributions of an order are granted and withdrawn together
\* (applyOutcome, refund).
THEOREM AccessWithClaim == Spec => []AccessMatchesClaim
BY SaleInvariant, PTL DEF SaleInv

\* No handler opens by hand a status that only a payment opens (updateStatus).
THEOREM PaymentOpensDelivery == Spec => []PaidIsGranted
BY SaleInvariant, PTL DEF SaleInv

\* Nothing a refund withdrew comes back (refund, applyOutcome).
THEOREM RefundWithdraws == Spec => []RefundedIsRevoked
BY SaleInvariant, PTL DEF SaleInv

(***************************************************************************)
(* OrderPayment implements Sale.                                           *)
(***************************************************************************)

\* A success is notified for captured money only, and acted upon only for the
\* expected amount; a refund is committed only once the money left.
MoneyIsReal ==
  /\ \A e \in Events : \A a \in Attempts :
       notice[e] = [attempt |-> a, outcome |-> "successful", exact |-> TRUE]
         => charge[a] = "captured"
  /\ \A e \in Events :
       webhook[e] = "applying" /\ notice[e].outcome = "successful" => notice[e].exact
  /\ \A r \in Refunds : refund[r].step = "repaid" => repaid[refund[r].attempt] > 0

LEMMA InitMoneyIsReal == Init => MoneyIsReal
<1>1. \A a \in Attempts :
        [attempt |-> a, outcome |-> "successful", exact |-> TRUE] \in Notices
  BY DEF Notices, Outcomes
<1> QED
  BY <1>1, NoneIsNoNotice DEF Init, MoneyIsReal, NewRefund

LEMMA NextMoneyIsReal ==
  ASSUME TypeOK, HandledIsNotified, RequestsOK, MoneyIsReal, [Next]_vars
  PROVE  MoneyIsReal'
<1> USE OrderPaymentAssumption DEF MoneyIsReal
<1>1. CASE UNCHANGED <<notice, charge, webhook, refund, repaid>>
  BY <1>1
<1>2. ASSUME NEW a \in Attempts, OpenCharge(a)
      PROVE  MoneyIsReal'
  BY <1>2 DEF OpenCharge, requests, TypeOK
<1>3. ASSUME NEW e \in Events, NEW a \in Attempts, Notify(e, a)
      PROVE  MoneyIsReal'
  <2>1. PICK c \in Settled :
          /\ charge[a] \in {"open", c}
          /\ charge' = [charge EXCEPT ![a] = c]
          /\ notice' = [notice EXCEPT ![e] = [attempt |-> a,
                                            outcome |-> OutcomeOfCharge[c],
                                            exact |-> c # "short"]]
    BY <1>3 DEF Notify
  <2>2. OutcomeOfCharge[c] = "successful" /\ c # "short" => c = "captured"
    BY DEF Settled, OutcomeOfCharge
  <2>3. \A b \in Attempts : charge[b] = "captured" => charge'[b] = "captured"
    BY <2>1 DEF TypeOK
  <2>4. \A d \in Events, b \in Attempts :
          notice'[d] = [attempt |-> b, outcome |-> "successful", exact |-> TRUE]
            => charge'[b] = "captured"
    <3>1. SUFFICES ASSUME NEW d \in Events, NEW b \in Attempts,
                          notice'[d] = [attempt |-> b, outcome |-> "successful",
                                        exact |-> TRUE]
                   PROVE  charge'[b] = "captured"
      OBVIOUS
    <3>2. CASE d # e
      BY <2>1, <2>3, <3>1, <3>2 DEF TypeOK
    <3>3. CASE d = e
      <4>1. [attempt |-> a, outcome |-> OutcomeOfCharge[c], exact |-> c # "short"]
              = [attempt |-> b, outcome |-> "successful", exact |-> TRUE]
        BY <2>1, <3>1, <3>3 DEF TypeOK
      <4>2. a = b /\ OutcomeOfCharge[c] = "successful" /\ c # "short"
        BY <4>1
      <4> QED
        BY <2>1, <2>2, <4>2 DEF TypeOK
    <3> QED
      BY <3>2, <3>3
  <2>5. UNCHANGED <<webhook, refund, repaid>>
    BY <1>3 DEF Notify, requests
  <2>6. \A d \in Events : webhook[d] = "applying" => notice'[d] = notice[d]
    BY <1>3, <2>1, NoneIsNoNotice DEF Notify, HandledIsNotified, TypeOK
  <2> QED
    BY <2>4, <2>5, <2>6
<1>4. ASSUME NEW e \in Events, NEW a \in Attempts, NEW out \in Outcomes, Simulate(e, a, out)
      PROVE  MoneyIsReal'
  BY <1>4 DEF Simulate, requests, TypeOK
<1>5. ASSUME NEW e \in Events,
             RecordEvent(e) \/ RecordRejected(e) \/ CloseEvent(e)
               \/ ApplyOutcome(e) \/ AbortOutcome(e)
      PROVE  MoneyIsReal'
  BY <1>5 DEF RecordEvent, RecordRejected, CloseEvent, ApplyOutcome, AbortOutcome,
              external, TypeOK
<1>6. ASSUME NEW e \in Events, ReadPayment(e)
      PROVE  MoneyIsReal'
  BY <1>6 DEF ReadPayment, Verdict, external, TypeOK
<1>7. ASSUME NEW r \in Refunds, NEW o \in Orders, ReadForRefund(r, o)
      PROVE  MoneyIsReal'
  BY <1>7 DEF ReadForRefund, external, TypeOK
<1>8. ASSUME NEW r \in Refunds, FindPayment(r)
      PROVE  MoneyIsReal'
  <2>1. PICK q \in RefundRequests :
          /\ refund' = [refund EXCEPT ![r] = q]
          /\ q.step # "repaid"
    BY <1>8, FindPaymentEffect DEF TypeOK
  <2>2. \A s \in Refunds : refund'[s].step = "repaid" => refund'[s] = refund[s]
    BY <2>1 DEF TypeOK
  <2>3. UNCHANGED <<notice, charge, webhook, repaid>>
    BY <1>8 DEF FindPayment, external
  <2> QED
    BY <2>2, <2>3
<1>9. ASSUME NEW r \in Refunds, CallRefund(r)
      PROVE  MoneyIsReal'
  <2>1. PICK q \in RefundRequests :
          /\ refund' = [refund EXCEPT ![r] = q]
          /\ q.attempt = refund[r].attempt
    BY <1>9, CallRefundEffect DEF TypeOK
  <2>2. refund[r].attempt \in Attempts
    BY <1>9 DEF CallRefund, RequestsOK, AttemptsOf
  <2>3. repaid' = [repaid EXCEPT ![refund[r].attempt] = repaid[refund[r].attempt] + 1]
    BY <1>9 DEF CallRefund
  <2>4. repaid'[refund[r].attempt] > 0 /\ \A a \in Attempts : repaid'[a] >= repaid[a]
    BY <2>2, <2>3 DEF TypeOK
  <2>5. \A s \in Refunds : refund[s].step = "repaid" => refund[s].attempt \in Attempts
    BY DEF RequestsOK, AttemptsOf
  <2>6. \A s \in Refunds : refund'[s].step = "repaid" => repaid'[refund'[s].attempt] > 0
    <3>1. \A s \in Refunds : refund'[s].step = "repaid" =>
            refund'[s].attempt = refund[r].attempt
              \/ (refund'[s] = refund[s] /\ refund[s].attempt \in Attempts)
      BY <2>1, <2>5 DEF TypeOK
    <3>2. \A s \in Refunds : refund[s].step = "repaid" => repaid'[refund[s].attempt] > 0
      <4>1. \A a \in Attempts : repaid[a] \in Nat /\ repaid'[a] \in Nat
        BY <2>2, <2>3 DEF TypeOK
      <4> QED
        BY <2>4, <2>5, <4>1
    <3> QED
      BY <2>4, <3>1, <3>2
  <2> QED
    BY <1>9, <2>6 DEF CallRefund, TypeOK
<1>10. ASSUME NEW r \in Refunds, RefundFails(r)
       PROVE  MoneyIsReal'
  <2>1. refund[r].attempt \in Attempts
    BY <1>10 DEF RefundFails, RequestsOK, AttemptsOf
  <2>2. \A a \in Attempts : repaid'[a] >= repaid[a]
    BY <1>10, <2>1 DEF RefundFails, TypeOK
  <2>3. \A s \in Refunds : refund[s].step = "repaid" => refund[s].attempt \in Attempts
    BY DEF RequestsOK, AttemptsOf
  <2>4. \A s \in Refunds : refund'[s].step = "repaid" => refund'[s] = refund[s]
    BY <1>10, RefundOverOK DEF RefundFails, TypeOK
  <2>5. \A s \in Refunds : refund'[s].step = "repaid" => repaid'[refund'[s].attempt] > 0
    <3>1. \A a \in Attempts : repaid[a] \in Nat /\ repaid'[a] \in Nat
      BY <1>10, <2>1 DEF RefundFails, TypeOK
    <3> QED
      BY <2>2, <2>3, <2>4, <3>1
  <2> QED
    BY <1>10, <2>5 DEF RefundFails
<1>11. ASSUME NEW r \in Refunds, CommitRefund(r)
       PROVE  MoneyIsReal'
  BY <1>11, RefundOverOK DEF CommitRefund, external, TypeOK
<1>12. CASE Restart
  BY <1>12 DEF Restart, NewRefund, external, TypeOK
<1> QED
  BY <1>1, <1>2, <1>3, <1>4, <1>5, <1>6, <1>7, <1>8, <1>9, <1>10, <1>11, <1>12
     DEF Next, vars, external, requests, InitializeStep, WebhookStep, RefundStep,
         ReadPayableOrder, FindInFlight, CreatePayment, DriverAnswers, DriverFails,
         CommitInitialize, Acknowledge, ReadForEdit, WriteEdit

\* The sale of an order follows its distributions, which go together.
LEMMA SaleOfStatus ==
  ASSUME TypeOK, AccessMatchesClaim, NEW i \in Items
  PROVE  /\ SaleOf(ItemOrder[i]) = "sold" <=> distribution[i] = "available"
         /\ SaleOf(ItemOrder[i]) = "withdrawn" <=> distribution[i] = "cancelled"
         /\ SaleOf(ItemOrder[i]) = "unsold" <=> distribution[i] = "none"
<1>1. i \in ItemsOf(ItemOrder[i])
  BY DEF ItemsOf
<1>2. \A j \in ItemsOf(ItemOrder[i]) : distribution[j] = distribution[i]
  BY DEF AccessMatchesClaim, ItemsOf
<1>3. distribution[i] \in {"none", "available", "cancelled"}
  BY DEF TypeOK
<1> QED
  BY <1>1, <1>2, <1>3 DEF SaleOf

LEMMA InitSale == Init => ImplementedSale!Init
BY OrderPaymentAssumption DEF Init, ImplementedSale!Init, SaleOf, ItemsOf

\* A step that leaves the distributions alone sells and withdraws nothing.
LEMMA SaleUnchanged ==
  ASSUME UNCHANGED distribution
  PROVE  UNCHANGED [o \in Orders |-> SaleOf(o)]
BY DEF SaleOf, ItemsOf

LEMMA NextSale ==
  ASSUME TypeOK, HandledIsNotified, RequestsOK, SaleInv, MoneyIsReal,
         [Next]_vars, TypeOK', SaleInv'
  PROVE  [ImplementedSale!Next]_(ImplementedSale!vars)
<1> USE OrderPaymentAssumption
<1>1. CASE UNCHANGED <<charge, distribution, repaid>>
  BY <1>1, SaleUnchanged DEF ImplementedSale!vars
<1>2. ASSUME NEW a \in Attempts, OpenCharge(a)
      PROVE  UNCHANGED ImplementedSale!vars
  <2>1. UNCHANGED <<distribution, repaid>>
    BY <1>2 DEF OpenCharge, rows
  <2>2. UNCHANGED {b \in Attempts : charge[b] = "captured"}
    BY <1>2 DEF OpenCharge, TypeOK
  <2> QED
    BY <2>1, <2>2, SaleUnchanged DEF ImplementedSale!vars
<1>3. ASSUME NEW e \in Events, NEW a \in Attempts,
             Notify(e, a) \/ \E out \in Outcomes : Simulate(e, a, out)
      PROVE  [ImplementedSale!Next]_(ImplementedSale!vars)
  <2>1. UNCHANGED <<distribution, repaid>>
    BY <1>3 DEF Notify, Simulate, rows
  <2>2. \A b \in Attempts \ {a} : charge'[b] = charge[b]
    BY <1>3 DEF Notify, Simulate, TypeOK
  <2>3. charge[a] = "captured" => charge'[a] = "captured"
    BY <1>3 DEF Notify, Simulate, TypeOK
  <2>4. CASE charge'[a] = "captured"
    <3>1. {b \in Attempts : charge'[b] = "captured"}
            = {b \in Attempts : charge[b] = "captured"} \cup {a}
      BY <2>2, <2>4
    <3>2. ImplementedSale!Capture(a)
      BY <2>1, <3>1, SaleUnchanged DEF ImplementedSale!Capture
    <3> QED
      BY <3>2 DEF ImplementedSale!Next
  <2>5. CASE charge'[a] # "captured"
    <3>1. UNCHANGED {b \in Attempts : charge[b] = "captured"}
      BY <2>2, <2>3, <2>5
    <3> QED
      BY <2>1, <3>1, SaleUnchanged DEF ImplementedSale!vars
  <2> QED
    BY <2>4, <2>5
<1>4. ASSUME NEW e \in Events, ApplyOutcome(e)
      PROVE  [ImplementedSale!Next]_(ImplementedSale!vars)
  <2>1. CASE notice[e].outcome # "successful"
    BY <1>4, <2>1, SaleUnchanged DEF ApplyOutcome, external, ImplementedSale!vars
  <2>2. CASE notice[e].outcome = "successful"
    <3>1. PICK a \in Attempts, o \in Orders :
            /\ OrderOf[a] = o
            /\ charge[a] = "captured"
            /\ Grant(o)
            /\ ~AlreadyGranted(o)
            /\ UNCHANGED <<charge, repaid>>
      <4>1. /\ notice[e] \in Notices
            /\ notice[e].outcome = "successful" /\ notice[e].exact = TRUE
        BY <1>4, <2>2 DEF ApplyOutcome, HandledIsNotified, MoneyIsReal, Notices
      <4>2. notice[e] = [attempt |-> notice[e].attempt, outcome |-> "successful",
                         exact |-> TRUE]
        BY <4>1 DEF Notices
      <4>3. notice[e].attempt \in Attempts
        BY <4>1 DEF Notices
      <4>4. charge[notice[e].attempt] = "captured"
        BY <4>2, <4>3 DEF MoneyIsReal
      <4>5. OrderOf[notice[e].attempt] \in Orders
        BY <4>3
      <4>6. /\ Grant(OrderOf[notice[e].attempt])
            /\ ~AlreadyGranted(OrderOf[notice[e].attempt])
            /\ UNCHANGED <<charge, repaid>>
        BY <1>4, <2>2 DEF ApplyOutcome, external
      <4> QED
        BY <4>3, <4>4, <4>5, <4>6
    <3>2. PICK i \in Items : i \in ItemsOf(o)
      BY <3>1 DEF ItemsOf
    <3>3. SaleOf(o) = "unsold"
      BY <3>1, <3>2, SaleOfStatus DEF AlreadyGranted, SaleInv, ItemsOf
    <3>4. \A j \in ItemsOf(o) : distribution'[j] = "available"
      BY <3>1 DEF Grant, ItemsOf
    <3>5. SaleOf(o)' = "sold"
      BY <3>2, <3>4 DEF SaleOf, ItemsOf
    <3>6. \A p \in Orders \ {o} : SaleOf(p)' = SaleOf(p)
      <4>1. \A p \in Orders \ {o} : \A j \in ItemsOf(p) : distribution'[j] = distribution[j]
        BY <3>1 DEF Grant, ItemsOf, TypeOK
      <4> QED
        BY <4>1 DEF SaleOf, ItemsOf
    <3>7. [p \in Orders |-> SaleOf(p)]' = [[p \in Orders |-> SaleOf(p)] EXCEPT ![o] = "sold"]
      BY <3>5, <3>6
    <3>8. ImplementedSale!Sell(o)
      BY <3>1, <3>3, <3>7 DEF ImplementedSale!Sell
    <3> QED
      BY <3>8 DEF ImplementedSale!Next
  <2> QED
    BY <2>1, <2>2
<1>5. ASSUME NEW r \in Refunds, CallRefund(r) \/ RefundFails(r)
      PROVE  [ImplementedSale!Next]_(ImplementedSale!vars)
  <2>1. PICK a \in Attempts :
          /\ Seller(a)
          /\ repaid' = repaid \/ repaid' = [repaid EXCEPT ![a] = repaid[a] + 1]
    BY <1>5 DEF CallRefund, RefundFails, RequestsOK, AttemptsOf, Seller
  <2>2. UNCHANGED <<charge, distribution>>
    BY <1>5 DEF CallRefund, RefundFails, rows
  <2>3. SaleOf(OrderOf[a]) # "unsold"
    <3>1. PICK i \in Items : ItemOrder[i] = OrderOf[a]
      OBVIOUS
    <3>2. distribution[i] # "none"
      BY <2>1, <3>1 DEF SaleInv, SellerIsGranted, Granted, ItemsOf
    <3> QED
      BY <3>1, <3>2, SaleOfStatus DEF SaleInv
  <2>4. CASE repaid' = repaid
    BY <2>2, <2>4, SaleUnchanged DEF ImplementedSale!vars
  <2>5. CASE repaid' = [repaid EXCEPT ![a] = repaid[a] + 1]
    <3>1. {b \in Attempts : repaid'[b] > 0} = {b \in Attempts : repaid[b] > 0} \cup {a}
      BY <2>5 DEF TypeOK
    <3>2. ImplementedSale!Repay(a)
      BY <2>2, <2>3, <3>1, SaleUnchanged DEF ImplementedSale!Repay
    <3> QED
      BY <3>2 DEF ImplementedSale!Next
  <2> QED
    BY <2>1, <2>4, <2>5
<1>6. ASSUME NEW r \in Refunds, CommitRefund(r)
      PROVE  [ImplementedSale!Next]_(ImplementedSale!vars)
  <2>1. PICK a \in Attempts, o \in Orders :
          /\ OrderOf[a] = o
          /\ Seller(a)
          /\ repaid[a] > 0
          /\ Revoke(o)
          /\ UNCHANGED <<charge, repaid>>
    BY <1>6 DEF CommitRefund, RequestsOK, AttemptsOf, Seller, MoneyIsReal, external
  <2>2. PICK i \in Items : i \in ItemsOf(o) /\ ItemOrder[i] = o
    BY <2>1 DEF ItemsOf
  <2>3. SaleOf(o) \in {"sold", "withdrawn"}
    <3>1. distribution[i] \in {"available", "cancelled"}
      BY <2>1, <2>2 DEF SaleInv, SellerIsGranted, Granted, TypeOK
    <3> QED
      BY <2>2, <3>1, SaleOfStatus DEF SaleInv
  <2>4. \A j \in ItemsOf(o) : distribution'[j] = "cancelled"
    BY <2>1 DEF Revoke, SaleInv, SellerIsGranted, Granted, ItemsOf, TypeOK
  <2>5. SaleOf(o)' = "withdrawn"
    BY <2>2, <2>4 DEF SaleOf, ItemsOf
  <2>6. \A p \in Orders \ {o} : SaleOf(p)' = SaleOf(p)
    <3>1. \A p \in Orders \ {o} : \A j \in ItemsOf(p) : distribution'[j] = distribution[j]
      BY <2>1 DEF Revoke, ItemsOf, TypeOK
    <3> QED
      BY <3>1 DEF SaleOf, ItemsOf
  <2>7. [p \in Orders |-> SaleOf(p)]' = [[p \in Orders |-> SaleOf(p)] EXCEPT ![o] = "withdrawn"]
    BY <2>5, <2>6
  <2>8. CASE SaleOf(o) = "withdrawn"
    <3>1. \A p \in Orders : SaleOf(p)' = SaleOf(p)
      BY <2>5, <2>6, <2>8
    <3>2. UNCHANGED [p \in Orders |-> SaleOf(p)]
      BY <3>1
    <3> QED
      BY <2>1, <3>2 DEF ImplementedSale!vars
  <2>9. CASE SaleOf(o) = "sold"
    <3>1. ImplementedSale!Withdraw(o)
      BY <2>1, <2>7, <2>9 DEF ImplementedSale!Withdraw
    <3> QED
      BY <3>1 DEF ImplementedSale!Next
  <2> QED
    BY <2>3, <2>8, <2>9
<1> QED
  BY <1>1, <1>2, <1>3, <1>4, <1>5, <1>6
     DEF Next, vars, rows, external, InitializeStep, WebhookStep, RefundStep,
         ReadPayableOrder, FindInFlight, CreatePayment, DriverAnswers, DriverFails,
         CommitInitialize, Acknowledge, RecordEvent, RecordRejected, ReadPayment,
         CloseEvent, AbortOutcome, ReadForEdit, WriteEdit, ReadForRefund, FindPayment,
         Restart

\* Orders are sold once, for captured money, and withdrawn only once money
\* went back, whatever interleaves: the handlers implement Sale (applyOutcome,
\* refund).
THEOREM SaleImplemented == Spec => ImplementsSale
<1> DEFINE Inv == /\ TypeOK /\ HandledIsNotified /\ RequestsOK
                  /\ SaleInv /\ MoneyIsReal
<1>1. Init => Inv
  BY InitTypeOK, InitRequestsOK, InitSaleInv, InitMoneyIsReal
     DEF Init, HandledIsNotified
<1>2. Inv /\ [Next]_vars => Inv'
  BY NextTypeOK, NextRequestsOK, NextSaleInv, NextMoneyIsReal
<1>3. Inv /\ Inv' /\ [Next]_vars => [ImplementedSale!Next]_(ImplementedSale!vars)
  BY NextSale
<1> HIDE DEF Inv
<1> QED
  BY <1>1, <1>2, <1>3, InitSale, PTL DEF Spec, ImplementsSale, ImplementedSale!Spec

\* What the promise of a sale amounts to, in the rows: nothing is sold without
\* captured money, no money goes back for what was not sold, and nothing is
\* withdrawn before money went back.
MoneyIsBehind ==
  /\ \A o \in Orders : SaleOf(o) # "unsold" => \E a \in AttemptsOf(o) : charge[a] = "captured"
  /\ \A a \in Attempts : repaid[a] > 0 => SaleOf(OrderOf[a]) # "unsold"
  /\ \A o \in Orders : SaleOf(o) = "withdrawn" => \E a \in AttemptsOf(o) : repaid[a] > 0

LEMMA InitMoneyIsBehind == Init => MoneyIsBehind
BY DEF Init, MoneyIsBehind, SaleOf, ItemsOf

\* It follows from the abstract steps alone.
LEMMA NextMoneyIsBehind ==
  ASSUME MoneyIsBehind, [ImplementedSale!Next]_(ImplementedSale!vars)
  PROVE  MoneyIsBehind'
<1> DEFINE captured == {a \in Attempts : charge[a] = "captured"}
           sale == [o \in Orders |-> SaleOf(o)]
           given == {a \in Attempts : repaid[a] > 0}
<1>0. OrderOf \in [Attempts -> Orders]
  BY OrderPaymentAssumption DEF OrderPaymentAssumption
<1>1. /\ \A a \in Attempts : a \in captured <=> charge[a] = "captured"
      /\ \A a \in Attempts : a \in given <=> repaid[a] > 0
      /\ \A o \in Orders : sale[o] = SaleOf(o)
      /\ \A a \in Attempts : a \in captured' <=> charge'[a] = "captured"
      /\ \A a \in Attempts : a \in given' <=> repaid'[a] > 0
      /\ \A o \in Orders : sale'[o] = SaleOf(o)'
      /\ DOMAIN sale = Orders
  OBVIOUS
<1>2. \/ \E a \in Attempts : captured' = captured \cup {a} /\ sale' = sale /\ given' = given
      \/ \E o \in Orders : /\ sale[o] = "unsold" /\ \E a \in captured : OrderOf[a] = o
                           /\ sale' = [sale EXCEPT ![o] = "sold"]
                           /\ captured' = captured /\ given' = given
      \/ \E a \in Attempts : /\ sale[OrderOf[a]] # "unsold"
                             /\ given' = given \cup {a}
                             /\ captured' = captured /\ sale' = sale
      \/ \E o \in Orders : /\ sale[o] = "sold" /\ \E a \in given : OrderOf[a] = o
                           /\ sale' = [sale EXCEPT ![o] = "withdrawn"]
                           /\ captured' = captured /\ given' = given
      \/ captured' = captured /\ sale' = sale /\ given' = given
  BY DEF ImplementedSale!Next, ImplementedSale!vars, ImplementedSale!Capture,
         ImplementedSale!Sell, ImplementedSale!Repay, ImplementedSale!Withdraw
<1>3. /\ captured \subseteq Attempts /\ given \subseteq Attempts
      /\ \A o \in Orders : sale[o] # "unsold" => \E a \in captured : OrderOf[a] = o
      /\ \A a \in given : sale[OrderOf[a]] # "unsold"
      /\ \A o \in Orders : sale[o] = "withdrawn" => \E a \in given : OrderOf[a] = o
  BY <1>0 DEF MoneyIsBehind, AttemptsOf
<1>4. SUFFICES
        /\ \A o \in Orders : sale'[o] # "unsold" => \E a \in captured' : OrderOf[a] = o
        /\ \A a \in given' : sale'[OrderOf[a]] # "unsold"
        /\ \A o \in Orders : sale'[o] = "withdrawn" => \E a \in given' : OrderOf[a] = o
  BY <1>0, <1>1 DEF MoneyIsBehind, AttemptsOf
<1> HIDE DEF captured, sale, given
<1> QED
  BY <1>0, <1>1, <1>2, <1>3

\* A sale is made only of captured money, money goes back only for a sale that
\* was made, and a sale is withdrawn only for money that went back: what the
\* promise implemented by the handlers guarantees (applyOutcome, refund).
THEOREM MoneyIsAlwaysBehind == Spec => []MoneyIsBehind
<1>1. MoneyIsBehind /\ [ImplementedSale!Next]_(ImplementedSale!vars) => MoneyIsBehind'
  BY NextMoneyIsBehind
<1> QED
  BY <1>1, InitMoneyIsBehind, SaleImplemented, PTL DEF Spec, ImplementsSale, ImplementedSale!Spec

(***************************************************************************)
(* A claim has a confirmed payment behind it, when the providers settle    *)
(* each transaction once.  All the notifications of an attempt then report *)
(* the same outcome, so nothing the handlers do later can contradict the   *)
(* success that granted the lines; and CommitInitialize, which overwrites  *)
(* payments.status blindly, comes before any verdict on its attempt.       *)
(***************************************************************************)
NoticeIsCharge ==
  \A e \in Events : notice[e] # None =>
    /\ charge[notice[e].attempt] \in Settled
    /\ notice[e].outcome = OutcomeOfCharge[charge[notice[e].attempt]]

StoredIsInitialized == \A a \in Attempts : transaction[a] => initialize[a] = "done"

AppliedIsStored ==
  \A e \in Events : webhook[e] = "applying" => transaction[notice[e].attempt]

ConfirmedIsSettled ==
  \A a \in Attempts : payment[a] = "successful" =>
    /\ transaction[a]
    /\ charge[a] \in Settled
    /\ OutcomeOfCharge[charge[a]] = "successful"

ClaimInv ==
  /\ NoticeIsCharge
  /\ StoredIsInitialized
  /\ AppliedIsStored
  /\ ConfirmedIsSettled
  /\ NoImaginaryClaim

LEMMA InitClaimInv == Init => ClaimInv
BY DEF Init, ClaimInv, NoticeIsCharge, StoredIsInitialized, AppliedIsStored,
       ConfirmedIsSettled, NoImaginaryClaim

\* A step that leaves payments, claims, charges and notices alone, stores no
\* transaction, reopens no initialization and applies no new notification.
LEMMA ClaimsUntouched ==
  ASSUME ClaimInv, UNCHANGED <<payment, transaction, distribution, charge, notice>>,
         \A a \in Attempts : initialize[a] = "done" => initialize'[a] = "done",
         \A e \in Events : webhook'[e] = "applying" =>
           webhook[e] = "applying" \/ transaction[notice[e].attempt]
  PROVE  ClaimInv'
BY DEF ClaimInv, NoticeIsCharge, StoredIsInitialized, AppliedIsStored,
       ConfirmedIsSettled, NoImaginaryClaim, AttemptsOf

\* A success is granted to an order without any claim, so it overwrites none;
\* a failure or a cancellation is the outcome of an attempt never confirmed.
LEMMA ApplyingKeepsClaims ==
  ASSUME TypeOK, HandledIsNotified, ClaimInv, NEW e \in Events, ApplyOutcome(e)
  PROVE  ClaimInv'
<1> USE OrderPaymentAssumption
<1>1. PICK a \in Attempts, o \in Orders, out \in Outcomes :
        /\ OrderOf[a] = o
        /\ notice[e].attempt = a /\ notice[e].outcome = out
        /\ charge[a] \in Settled /\ out = OutcomeOfCharge[charge[a]]
        /\ transaction[a]
        /\ payment' = [payment EXCEPT ![a] = out]
        /\ out = "successful" => Grant(o)
        /\ out # "successful" => UNCHANGED distribution
  <2>1. notice[e] \in Notices
    BY DEF ApplyOutcome, HandledIsNotified
  <2>2. notice[e].attempt \in Attempts /\ notice[e].outcome \in Outcomes
    BY <2>1 DEF Notices
  <2>3. OrderOf[notice[e].attempt] \in Orders
    BY <2>2
  <2>4. transaction[notice[e].attempt]
    BY DEF ApplyOutcome, ClaimInv, AppliedIsStored
  <2>5. /\ charge[notice[e].attempt] \in Settled
        /\ notice[e].outcome = OutcomeOfCharge[charge[notice[e].attempt]]
    BY <2>1, NoneIsNoNotice DEF ClaimInv, NoticeIsCharge
  <2> QED
    BY <2>2, <2>3, <2>4, <2>5 DEF ApplyOutcome
<1>2. UNCHANGED <<transaction, charge, notice, initialize>>
  BY DEF ApplyOutcome, external
<1>3. NoticeIsCharge' /\ StoredIsInitialized'
  BY <1>2 DEF ClaimInv, NoticeIsCharge, StoredIsInitialized
<1>4. AppliedIsStored'
  BY <1>2 DEF ApplyOutcome, ClaimInv, AppliedIsStored, TypeOK
<1>5. ConfirmedIsSettled'
  BY <1>1, <1>2 DEF ClaimInv, ConfirmedIsSettled, TypeOK
<1>6. NoImaginaryClaim'
  <2> SUFFICES ASSUME NEW i \in Items, distribution'[i] = "available"
               PROVE  \E b \in AttemptsOf(ItemOrder[i]) : payment'[b] = "successful"
    BY DEF NoImaginaryClaim, AttemptsOf
  <2>1. CASE out = "successful" /\ i \in ItemsOf(o)
    BY <1>1, <2>1 DEF ItemsOf, AttemptsOf, TypeOK
  <2>2. CASE ~(out = "successful" /\ i \in ItemsOf(o))
    <3>1. distribution[i] = "available"
      BY <1>1, <2>2 DEF Grant
    <3>2. PICK b \in AttemptsOf(ItemOrder[i]) : payment[b] = "successful"
      BY <3>1 DEF ClaimInv, NoImaginaryClaim
    <3>3. b \in Attempts
      BY DEF AttemptsOf
    <3>4. b = a => out = "successful"
      BY <1>1, <3>2 DEF ClaimInv, ConfirmedIsSettled
    <3> QED
      BY <1>1, <3>2, <3>3, <3>4 DEF TypeOK
  <2> QED
    BY <2>1, <2>2
<1> QED
  BY <1>3, <1>4, <1>5, <1>6 DEF ClaimInv

\* The commit of a refund withdraws every claim of the order it refunds.
LEMMA RefundingKeepsClaims ==
  ASSUME TypeOK, RequestsOK, ClaimInv, NEW r \in Refunds, CommitRefund(r)
  PROVE  ClaimInv'
<1> USE OrderPaymentAssumption
<1>1. PICK a \in Attempts, o \in Orders :
        /\ OrderOf[a] = o
        /\ payment' = [payment EXCEPT ![a] = "refunded"]
        /\ Revoke(o)
  BY DEF CommitRefund, RequestsOK, AttemptsOf
<1>2. UNCHANGED <<transaction, charge, notice, initialize, webhook>>
  BY DEF CommitRefund, external
<1>3. NoticeIsCharge' /\ StoredIsInitialized' /\ AppliedIsStored'
  BY <1>2 DEF ClaimInv, NoticeIsCharge, StoredIsInitialized, AppliedIsStored
<1>4. ConfirmedIsSettled'
  BY <1>1, <1>2 DEF ClaimInv, ConfirmedIsSettled, TypeOK
<1>5. NoImaginaryClaim'
  <2> SUFFICES ASSUME NEW i \in Items, distribution'[i] = "available"
               PROVE  \E b \in AttemptsOf(ItemOrder[i]) : payment'[b] = "successful"
    BY DEF NoImaginaryClaim, AttemptsOf
  <2>1. i \notin ItemsOf(o) /\ distribution[i] = "available"
    BY <1>1 DEF Revoke, TypeOK
  <2>2. PICK b \in AttemptsOf(ItemOrder[i]) : payment[b] = "successful"
    BY <2>1 DEF ClaimInv, NoImaginaryClaim
  <2>3. b \in Attempts \ {a}
    BY <1>1, <2>1 DEF AttemptsOf, ItemsOf
  <2> QED
    BY <1>1, <2>2, <2>3 DEF TypeOK
<1> QED
  BY <1>3, <1>4, <1>5 DEF ClaimInv

LEMMA NextClaimInv ==
  ASSUME Simulated = {}, TypeOK, HandledIsNotified, RequestsOK, ClaimInv, [Next]_vars
  PROVE  ClaimInv'
<1> USE OrderPaymentAssumption
<1>1. CASE UNCHANGED <<payment, transaction, distribution, charge, notice, initialize, webhook>>
  BY <1>1, ClaimsUntouched
<1>2. ASSUME NEW a \in Attempts,
             ReadPayableOrder(a) \/ FindInFlight(a) \/ DriverAnswers(a)
      PROVE  ClaimInv'
  BY <1>2, ClaimsUntouched
     DEF ReadPayableOrder, FindInFlight, DriverAnswers, rows, external, TypeOK
<1>3. ASSUME NEW a \in Attempts, OpenCharge(a)
      PROVE  ClaimInv'
  <2>1. charge[a] = "none" /\ charge' = [charge EXCEPT ![a] = "open"]
    BY <1>3 DEF OpenCharge
  <2>2. UNCHANGED <<payment, transaction, distribution, notice, initialize, webhook>>
    BY <1>3 DEF OpenCharge, rows, requests
  <2>3. \A b \in Attempts : charge[b] \in Settled => charge'[b] = charge[b]
    BY <2>1 DEF TypeOK, Settled, OutcomeOfCharge
  <2>4. \A e \in Events : notice[e] # None => notice[e].attempt \in Attempts
    BY DEF TypeOK, Notices
  <2> QED
    BY <2>2, <2>3, <2>4
       DEF ClaimInv, NoticeIsCharge, StoredIsInitialized, AppliedIsStored,
           ConfirmedIsSettled, NoImaginaryClaim, AttemptsOf
<1>4. ASSUME NEW a \in Attempts, CreatePayment(a) \/ DriverFails(a)
      PROVE  ClaimInv'
  <2>1. ~transaction[a]
    BY <1>4 DEF CreatePayment, DriverFails, ClaimInv, StoredIsInitialized
  <2>2. payment[a] # "successful"
    BY <2>1 DEF ClaimInv, ConfirmedIsSettled
  <2>3. \A b \in Attempts : payment'[b] = "successful" <=> payment[b] = "successful"
    BY <1>4, <2>2 DEF CreatePayment, DriverFails, TypeOK
  <2>4. UNCHANGED <<transaction, distribution, charge, notice, webhook>>
    BY <1>4 DEF CreatePayment, DriverFails, external
  <2>5. \A b \in Attempts : transaction[b] => initialize'[b] = "done"
    BY <1>4, <2>1 DEF CreatePayment, DriverFails, ClaimInv, StoredIsInitialized, TypeOK
  <2> QED
    BY <2>3, <2>4, <2>5
       DEF ClaimInv, NoticeIsCharge, StoredIsInitialized, AppliedIsStored,
           ConfirmedIsSettled, NoImaginaryClaim, AttemptsOf
<1>5. ASSUME NEW a \in Attempts, CommitInitialize(a)
      PROVE  ClaimInv'
  <2>1. payment[a] # "successful"
    BY <1>5 DEF CommitInitialize, ClaimInv, StoredIsInitialized, ConfirmedIsSettled
  <2>2. \A b \in Attempts : payment'[b] = "successful" <=> payment[b] = "successful"
    BY <1>5, <2>1 DEF CommitInitialize, TypeOK
  <2>3. UNCHANGED <<distribution, charge, notice, webhook>>
    BY <1>5 DEF CommitInitialize, external
  <2>4. \A b \in Attempts : transaction[b] => transaction'[b]
    BY <1>5 DEF CommitInitialize, TypeOK
  <2>5. \A b \in Attempts : transaction'[b] => initialize'[b] = "done"
    BY <1>5 DEF CommitInitialize, ClaimInv, StoredIsInitialized, TypeOK
  <2>6. \A e \in Events : webhook[e] = "applying" => notice[e].attempt \in Attempts
    BY DEF HandledIsNotified, Notices
  <2> QED
    BY <2>2, <2>3, <2>4, <2>5, <2>6
       DEF ClaimInv, NoticeIsCharge, StoredIsInitialized, AppliedIsStored,
           ConfirmedIsSettled, NoImaginaryClaim, AttemptsOf
<1>6. ASSUME NEW e \in Events, NEW a \in Attempts, Notify(e, a)
      PROVE  ClaimInv'
  <2>1. PICK c \in Settled :
          /\ charge[a] \in {"open", c}
          /\ charge' = [charge EXCEPT ![a] = c]
          /\ notice' = [notice EXCEPT ![e] = [attempt |-> a,
                                            outcome |-> OutcomeOfCharge[c],
                                            exact |-> c # "short"]]
    BY <1>6 DEF Notify
  <2>2. UNCHANGED <<payment, transaction, distribution, initialize, webhook>>
    BY <1>6 DEF Notify, rows, requests
  <2>3. \A b \in Attempts : charge[b] \in Settled => charge'[b] = charge[b]
    BY <2>1 DEF TypeOK, Settled, OutcomeOfCharge
  <2>4. \A d \in Events : notice[d] # None => notice[d].attempt \in Attempts
    BY DEF TypeOK, Notices
  <2>5. charge'[a] = c
    BY <2>1 DEF TypeOK
  <2>6. NoticeIsCharge'
    BY <2>1, <2>3, <2>4, <2>5 DEF ClaimInv, NoticeIsCharge, TypeOK
  <2>7. webhook[e] # "applying"
    BY <1>6, NoneIsNoNotice DEF Notify, HandledIsNotified
  <2>8. AppliedIsStored'
    BY <2>1, <2>2, <2>7 DEF ClaimInv, AppliedIsStored, TypeOK
  <2> QED
    BY <2>2, <2>3, <2>6, <2>8
       DEF ClaimInv, StoredIsInitialized, ConfirmedIsSettled, NoImaginaryClaim, AttemptsOf
<1>7. ASSUME NEW e \in Events,
             RecordEvent(e) \/ RecordRejected(e) \/ ReadPayment(e)
               \/ CloseEvent(e) \/ AbortOutcome(e)
      PROVE  ClaimInv'
  <2>1. UNCHANGED <<payment, transaction, distribution, charge, notice, initialize>>
    BY <1>7 DEF RecordEvent, RecordRejected, ReadPayment, CloseEvent, AbortOutcome,
                rows, external
  <2>2. \A d \in Events : webhook'[d] = "applying" =>
          webhook[d] = "applying" \/ transaction[notice[d].attempt]
    BY <1>7 DEF RecordEvent, RecordRejected, ReadPayment, Verdict, CloseEvent,
                AbortOutcome, TypeOK
  <2> QED
    BY <2>1, <2>2, ClaimsUntouched
<1>8. ASSUME NEW e \in Events, ApplyOutcome(e)
      PROVE  ClaimInv'
  BY <1>8, ApplyingKeepsClaims
<1>9. ASSUME NEW r \in Refunds, CommitRefund(r)
      PROVE  ClaimInv'
  BY <1>9, RefundingKeepsClaims
<1>10. CASE Restart
  BY <1>10, ClaimsUntouched DEF Restart, Over, rows, external
<1> QED
  BY <1>1, <1>2, <1>3, <1>4, <1>5, <1>6, <1>7, <1>8, <1>9, <1>10
     DEF Next, vars, rows, external, requests, InitializeStep, WebhookStep, RefundStep,
         Simulate, Acknowledge, ReadForEdit, WriteEdit, ReadForRefund, FindPayment,
         CallRefund, RefundFails

\* Where providers settle each transaction once (no simulated provider, as in
\* production), every claim of the authors has a confirmed payment behind it,
\* whatever requests, retries and restarts overlap (handleWebhook, freezeForOrder).
THEOREM ClaimsAreReal == ASSUME Simulated = {} PROVE Spec => []NoImaginaryClaim
<1> DEFINE Inv == TypeOK /\ HandledIsNotified /\ RequestsOK /\ ClaimInv
<1>1. Init => Inv
  BY InitTypeOK, InitRequestsOK, InitClaimInv DEF Init, HandledIsNotified
<1>2. Inv /\ [Next]_vars => Inv'
  BY NextTypeOK, NextRequestsOK, NextClaimInv
<1>3. Inv => NoImaginaryClaim
  BY DEF ClaimInv
<1> HIDE DEF Inv
<1> QED
  BY <1>1, <1>2, <1>3, PTL DEF Spec

(***************************************************************************)
(* Requests handled one at a time.  What a request has read is then still  *)
(* true when it writes; every property of this section fails as soon as    *)
(* two requests overlap.                                                   *)
(***************************************************************************)

\* The only request in progress, if any.
OnlyRequest(kind, id) ==
  /\ \A a \in Attempts : initialize[a] \notin Over => kind = "initialize" /\ id = a
  /\ \A e \in Events : webhook[e] \notin Over => kind = "webhook" /\ id = e
  /\ \A x \in Edits : edit[x].step \notin Over => kind = "edit" /\ id = x
  /\ \A r \in Refunds : refund[r].step \notin Over => kind = "refund" /\ id = r

Alone ==
  \E kind \in {"initialize", "webhook", "edit", "refund"},
     id \in Attempts \cup Events \cup Edits \cup Refunds \cup {None} : OnlyRequest(kind, id)

\* The order an initialization found payable still is.
PayableStill ==
  \A a \in Attempts : initialize[a] \in {"payable", "clear", "calling", "answered"} =>
    order[OrderOf[a]] \in PayableOrderStatuses

\* The way an initialization found clear still is.
ClearStill == \A a \in Attempts : initialize[a] = "clear" => ~HasInFlight(a)

CalledIsInitialized ==
  \A a \in Attempts : initialize[a] \in {"calling", "answered"} => payment[a] = "initialized"

\* The verdict on a notification still holds.
VerdictStill ==
  \A e \in Events : webhook[e] = "applying" =>
    /\ payment[notice[e].attempt] # "successful"
    /\ TransitionAllowed(order[OrderOf[notice[e].attempt]],
                         OutcomeToOrderStatus[notice[e].outcome])

EditStill ==
  \A x \in Edits : edit[x].step = "writing" => TransitionAllowed(order[edit[x].order], edit[x].to)

\* The order of a refund may still be refunded, and its payment is confirmed.
RefundStill ==
  /\ \A r \in Refunds : refund[r].step \in {"checked", "calling", "repaid"} =>
       TransitionAllowed(order[refund[r].order], "refunded")
  /\ \A r \in Refunds : refund[r].step = "calling" => payment[refund[r].attempt] = "successful"

SerialInv ==
  /\ Alone
  /\ PayableStill
  /\ ClearStill
  /\ CalledIsInitialized
  /\ VerdictStill
  /\ EditStill
  /\ RefundStill
  /\ OneAttemptInFlight
  /\ SoldIsSettled
  /\ NoImaginaryClaim

LEMMA InitSerialInv == Init => SerialInv
<1> SUFFICES ASSUME Init PROVE SerialInv
  OBVIOUS
<1> USE DEF Init, NewEdit, NewRefund
<1>1. Alone
  BY DEF Alone, OnlyRequest, Over
<1>2. PayableStill /\ ClearStill /\ CalledIsInitialized /\ VerdictStill /\ EditStill /\ RefundStill
  BY DEF PayableStill, ClearStill, CalledIsInitialized, VerdictStill, EditStill, RefundStill
<1>3. OneAttemptInFlight /\ SoldIsSettled /\ NoImaginaryClaim
  BY DEF OneAttemptInFlight, InFlightPaymentStatuses, SoldIsSettled, NoImaginaryClaim
<1> QED
  BY <1>1, <1>2, <1>3 DEF SerialInv

\* A request in progress is the only one.
LEMMA AloneIs ==
  ASSUME Alone
  PROVE  /\ \A a \in Attempts : initialize[a] \notin Over => OnlyRequest("initialize", a)
         /\ \A e \in Events : webhook[e] \notin Over => OnlyRequest("webhook", e)
         /\ \A x \in Edits : edit[x].step \notin Over => OnlyRequest("edit", x)
         /\ \A r \in Refunds : refund[r].step \notin Over => OnlyRequest("refund", r)
BY DEF Alone, OnlyRequest

\* A request is admitted only when none is in progress.
LEMMA AdmittedIsFirst ==
  ASSUME MaxInFlight = 1, Alone, Admitted
  PROVE  InFlight = {}
<1>1. PICK kind, id : OnlyRequest(kind, id)
  BY DEF Alone
<1>2. InFlight \subseteq {id}
  BY <1>1 DEF InFlight, OnlyRequest
<1>3. IsFiniteSet(InFlight)
  BY <1>2, FS_Singleton, FS_Subset
<1>4. Cardinality(InFlight) \in Nat /\ Cardinality(InFlight) < 1
  BY <1>3, FS_CardinalityType DEF Admitted
<1> QED
  BY <1>3, <1>4, FS_EmptySet

\* A step of the only request, or none, leaves no other in progress.
LEMMA OnlyStays ==
  ASSUME NEW kind \in {"initialize", "webhook", "edit", "refund"},
         NEW id \in Attempts \cup Events \cup Edits \cup Refunds \cup {None},
         OnlyRequest(kind, id)'
  PROVE  Alone'
BY DEF Alone

\* What a step of the only request owes, for each kind of request.
LEMMA OnlyInitializeRuns ==
  ASSUME NEW a \in Attempts, OnlyRequest("initialize", a)',
         initialize'[a] \in {"payable", "clear", "calling", "answered"} =>
           order'[OrderOf[a]] \in PayableOrderStatuses,
         initialize'[a] = "clear" => ~HasInFlight(a)',
         initialize'[a] \in {"calling", "answered"} => payment'[a] = "initialized",
         OneAttemptInFlight', SoldIsSettled', NoImaginaryClaim'
  PROVE  SerialInv'
<1>1. \A b \in Attempts : initialize'[b] \in {"payable", "clear", "calling", "answered"} => b = a
  BY DEF OnlyRequest, Over
<1>2. PayableStill' /\ ClearStill' /\ CalledIsInitialized'
  BY <1>1 DEF PayableStill, ClearStill, CalledIsInitialized
<1>3. VerdictStill' /\ EditStill' /\ RefundStill'
  BY DEF OnlyRequest, Over, VerdictStill, EditStill, RefundStill
<1> QED
  BY <1>2, <1>3, OnlyStays DEF SerialInv

LEMMA OnlyWebhookRuns ==
  ASSUME NEW e \in Events, OnlyRequest("webhook", e)',
         webhook'[e] = "applying" =>
           /\ payment'[notice'[e].attempt] # "successful"
           /\ TransitionAllowed(order'[OrderOf[notice'[e].attempt]],
                                OutcomeToOrderStatus[notice'[e].outcome]),
         OneAttemptInFlight', SoldIsSettled', NoImaginaryClaim'
  PROVE  SerialInv'
<1>1. VerdictStill'
  BY DEF OnlyRequest, Over, VerdictStill
<1>2. /\ PayableStill' /\ ClearStill' /\ CalledIsInitialized'
      /\ EditStill' /\ RefundStill'
  BY DEF OnlyRequest, Over, PayableStill, ClearStill, CalledIsInitialized, EditStill, RefundStill
<1> QED
  BY <1>1, <1>2, OnlyStays DEF SerialInv

LEMMA OnlyEditRuns ==
  ASSUME NEW x \in Edits, OnlyRequest("edit", x)',
         edit'[x].step = "writing" => TransitionAllowed(order'[edit'[x].order], edit'[x].to),
         OneAttemptInFlight', SoldIsSettled', NoImaginaryClaim'
  PROVE  SerialInv'
<1>1. EditStill'
  BY DEF OnlyRequest, Over, EditStill
<1>2. /\ PayableStill' /\ ClearStill' /\ CalledIsInitialized'
      /\ VerdictStill' /\ RefundStill'
  BY DEF OnlyRequest, Over, PayableStill, ClearStill, CalledIsInitialized, VerdictStill, RefundStill
<1> QED
  BY <1>1, <1>2, OnlyStays DEF SerialInv

LEMMA OnlyRefundRuns ==
  ASSUME NEW r \in Refunds, OnlyRequest("refund", r)',
         refund'[r].step \in {"checked", "calling", "repaid"} =>
           TransitionAllowed(order'[refund'[r].order], "refunded"),
         refund'[r].step = "calling" => payment'[refund'[r].attempt] = "successful",
         OneAttemptInFlight', SoldIsSettled', NoImaginaryClaim'
  PROVE  SerialInv'
<1>1. RefundStill'
  BY DEF OnlyRequest, Over, RefundStill
<1>2. /\ PayableStill' /\ ClearStill' /\ CalledIsInitialized'
      /\ VerdictStill' /\ EditStill'
  BY DEF OnlyRequest, Over, PayableStill, ClearStill, CalledIsInitialized, VerdictStill, EditStill
<1> QED
  BY <1>1, <1>2, OnlyStays DEF SerialInv

\* What the rows alone promise, kept by a step that writes none of them.
LEMMA RowsKept ==
  ASSUME SerialInv, UNCHANGED <<order, payment, distribution>>
  PROVE  OneAttemptInFlight' /\ SoldIsSettled' /\ NoImaginaryClaim'
BY DEF SerialInv, OneAttemptInFlight, SoldIsSettled, NoImaginaryClaim, AttemptsOf

\* A step that writes none of these rows and only ends requests.
LEMMA EndingKeepsSerial ==
  ASSUME SerialInv, UNCHANGED <<order, payment, distribution>>,
         \A a \in Attempts : initialize'[a] = initialize[a] \/ initialize'[a] \in Over,
         \A e \in Events : webhook'[e] = webhook[e] \/ webhook'[e] \in Over,
         \A e \in Events : webhook[e] = "applying" => notice'[e] = notice[e],
         \A x \in Edits : edit'[x] = edit[x] \/ edit'[x].step \in Over,
         \A r \in Refunds : refund'[r] = refund[r] \/ refund'[r].step \in Over
  PROVE  SerialInv'
<1> USE DEF SerialInv
<1>1. Alone'
  BY DEF Alone, OnlyRequest
<1>2. PayableStill' /\ CalledIsInitialized' /\ EditStill' /\ RefundStill'
  BY DEF PayableStill, CalledIsInitialized, EditStill, RefundStill, Over
<1>3. ClearStill'
  BY DEF ClearStill, HasInFlight, AttemptsOf, Over
<1>4. VerdictStill'
  BY DEF VerdictStill, Over
<1> QED
  BY <1>1, <1>2, <1>3, <1>4, RowsKept

\* With no request in progress, the one admitted will be the only one.
LEMMA NobodyRuns ==
  ASSUME InFlight = {}
  PROVE  /\ \A a \in Attempts : initialize[a] \in Over
         /\ \A e \in Events : webhook[e] \in Over
         /\ \A x \in Edits : edit[x].step \in Over
         /\ \A r \in Refunds : refund[r].step \in Over
BY DEF InFlight

LEMMA TransitionFacts ==
  /\ \A s \in PayableOrderStatuses :
       /\ TransitionAllowed(s, "awaiting_payment")
       /\ s \notin {"paid", "processing", "shipped", "delivered"}
  /\ \A s \in {"paid", "processing", "shipped", "delivered"} : \A to \in OrderStatus :
       TransitionAllowed(s, to) =>
         to \in {"paid", "processing", "shipped", "delivered", "refunded"}
BY DEF PayableOrderStatuses, TransitionAllowed, AllowedTransitions, OrderStatus

\* The order of an initialization in progress has no claim yet.
LEMMA PayableIsUnclaimed ==
  ASSUME SerialInv, NEW a \in Attempts,
         initialize[a] \in {"payable", "clear", "calling", "answered"},
         NEW i \in Items, distribution[i] = "available"
  PROVE  ItemOrder[i] # OrderOf[a]
BY TransitionFacts DEF SerialInv, PayableStill, SoldIsSettled

\* Writing the payment of an unclaimed order leaves every claim its payment.
LEMMA UnclaimedIsFree ==
  ASSUME TypeOK, NoImaginaryClaim, NEW a \in Attempts,
         UNCHANGED distribution,
         \A b \in Attempts \ {a} : payment'[b] = payment[b],
         \A i \in Items : distribution[i] = "available" => ItemOrder[i] # OrderOf[a]
  PROVE  NoImaginaryClaim'
<1> SUFFICES ASSUME NEW i \in Items, distribution[i] = "available"
             PROVE  \E b \in AttemptsOf(ItemOrder[i]) : payment'[b] = "successful"
  BY DEF NoImaginaryClaim, AttemptsOf
<1>1. PICK b \in AttemptsOf(ItemOrder[i]) : payment[b] = "successful"
  BY DEF NoImaginaryClaim
<1>2. b \in Attempts \ {a}
  BY DEF AttemptsOf
<1> QED
  BY <1>1, <1>2

LEMMA InitializingKeepsSerial ==
  ASSUME MaxInFlight = 1, TypeOK, SerialInv, NEW a \in Attempts,
         ReadPayableOrder(a) \/ InitializeStep(a)
  PROVE  SerialInv'
<1> USE OrderPaymentAssumption
<1>1. OnlyRequest("initialize", a) /\ UNCHANGED <<webhook, edit, refund>>
  <2>1. CASE ReadPayableOrder(a)
    BY <2>1, AdmittedIsFirst, NobodyRuns DEF ReadPayableOrder, SerialInv, OnlyRequest
  <2>2. CASE InitializeStep(a)
    BY <2>2, AloneIs
       DEF InitializeStep, FindInFlight, CreatePayment, DriverAnswers, DriverFails,
           CommitInitialize, SerialInv, Over
  <2> QED
    BY <2>1, <2>2
<1>2. OnlyRequest("initialize", a)'
  BY <1>1 DEF OnlyRequest, ReadPayableOrder, InitializeStep, FindInFlight, CreatePayment,
              DriverAnswers, DriverFails, CommitInitialize, TypeOK
<1>3. CASE ReadPayableOrder(a)
  BY <1>2, <1>3, RowsKept, OnlyInitializeRuns DEF ReadPayableOrder, rows, TypeOK
<1>4. CASE FindInFlight(a)
  <2>1. UNCHANGED <<order, payment, distribution>> /\ order[OrderOf[a]] \in PayableOrderStatuses
    BY <1>4 DEF FindInFlight, rows, SerialInv, PayableStill
  <2>2. initialize'[a] \in {"done", "clear"} /\ (initialize'[a] = "clear" => ~HasInFlight(a))
    BY <1>4 DEF FindInFlight, TypeOK
  <2>3. HasInFlight(a)' <=> HasInFlight(a)
    BY <2>1 DEF HasInFlight, AttemptsOf
  <2> QED
    BY <1>2, <2>1, <2>2, <2>3, RowsKept, OnlyInitializeRuns
<1>5. CASE CreatePayment(a)
  <2>1. /\ initialize[a] = "clear" /\ ~HasInFlight(a)
        /\ order[OrderOf[a]] \in PayableOrderStatuses
    BY <1>5 DEF CreatePayment, SerialInv, ClearStill, PayableStill
  <2>2. /\ payment' = [payment EXCEPT ![a] = "initialized"] /\ initialize'[a] = "calling"
        /\ UNCHANGED <<order, distribution>>
    BY <1>5 DEF CreatePayment, TypeOK
  <2>3. OneAttemptInFlight'
    BY <2>1, <2>2 DEF OneAttemptInFlight, HasInFlight, AttemptsOf, SerialInv, TypeOK
  <2>4. SoldIsSettled'
    BY <2>2 DEF SoldIsSettled, SerialInv
  <2>5. NoImaginaryClaim'
    BY <2>1, <2>2, PayableIsUnclaimed, UnclaimedIsFree DEF SerialInv, TypeOK
  <2> QED
    BY <1>2, <2>1, <2>2, <2>3, <2>4, <2>5, OnlyInitializeRuns DEF TypeOK
<1>6. CASE DriverAnswers(a)
  BY <1>2, <1>6, RowsKept, OnlyInitializeRuns
     DEF DriverAnswers, rows, TypeOK, SerialInv, PayableStill, CalledIsInitialized
<1>7. CASE DriverFails(a)
  <2>1. /\ initialize[a] = "calling"
        /\ payment' = [payment EXCEPT ![a] = "failed"] /\ initialize'[a] = "done"
        /\ UNCHANGED <<order, distribution>>
    BY <1>7 DEF DriverFails, TypeOK
  <2>2. OneAttemptInFlight'
    BY <2>1 DEF OneAttemptInFlight, InFlightPaymentStatuses, SerialInv, TypeOK
  <2>3. SoldIsSettled'
    BY <2>1 DEF SoldIsSettled, SerialInv
  <2>4. NoImaginaryClaim'
    BY <2>1, PayableIsUnclaimed, UnclaimedIsFree DEF SerialInv, TypeOK
  <2> QED
    BY <1>2, <2>1, <2>2, <2>3, <2>4, OnlyInitializeRuns
<1>8. CASE CommitInitialize(a)
  <2>1. /\ initialize[a] = "answered" /\ payment[a] = "initialized"
        /\ payment' = [payment EXCEPT ![a] = "pending"]
        /\ order' = [order EXCEPT ![OrderOf[a]] = "awaiting_payment"]
        /\ initialize'[a] = "done" /\ UNCHANGED distribution
    BY <1>8 DEF CommitInitialize, TypeOK, SerialInv, CalledIsInitialized
  <2>2. OneAttemptInFlight'
    BY <2>1 DEF OneAttemptInFlight, InFlightPaymentStatuses, SerialInv, TypeOK
  <2>3. SoldIsSettled'
    BY <2>1, PayableIsUnclaimed DEF SoldIsSettled, SerialInv, TypeOK
  <2>4. NoImaginaryClaim'
    BY <2>1, PayableIsUnclaimed, UnclaimedIsFree DEF SerialInv, TypeOK
  <2> QED
    BY <1>2, <2>1, <2>2, <2>3, <2>4, OnlyInitializeRuns
<1> QED
  BY <1>3, <1>4, <1>5, <1>6, <1>7, <1>8 DEF InitializeStep

\* The rows after a notification is applied to an order it may still move.
LEMMA ApplyingKeepsRows ==
  ASSUME TypeOK, HandledIsNotified, SerialInv, NEW e \in Events, ApplyOutcome(e)
  PROVE  OneAttemptInFlight' /\ SoldIsSettled' /\ NoImaginaryClaim'
<1> USE OrderPaymentAssumption
<1>1. PICK a \in Attempts, o \in Orders, out \in Outcomes :
        /\ OrderOf[a] = o
        /\ TransitionAllowed(order[o], OutcomeToOrderStatus[out])
        /\ payment' = [payment EXCEPT ![a] = out]
        /\ order' = [order EXCEPT ![o] = OutcomeToOrderStatus[out]]
        /\ out = "successful" => Grant(o)
        /\ out # "successful" => UNCHANGED distribution
  <2>1. notice[e].attempt \in Attempts /\ notice[e].outcome \in Outcomes
    BY DEF ApplyOutcome, HandledIsNotified, Notices
  <2>2. OrderOf[notice[e].attempt] \in Orders
    BY <2>1
  <2>3. TransitionAllowed(order[OrderOf[notice[e].attempt]],
                          OutcomeToOrderStatus[notice[e].outcome])
    BY DEF ApplyOutcome, SerialInv, VerdictStill
  <2> QED
    BY <2>1, <2>2, <2>3 DEF ApplyOutcome
<1>2. OneAttemptInFlight'
  BY <1>1 DEF OneAttemptInFlight, InFlightPaymentStatuses, Outcomes, SerialInv, TypeOK
<1>3. CASE out = "successful"
  <2>1. OutcomeToOrderStatus[out] = "paid"
    BY <1>3 DEF OutcomeToOrderStatus
  <2>2. SoldIsSettled'
    BY <1>1, <1>3, <2>1 DEF SoldIsSettled, SerialInv, TypeOK, Grant, ItemsOf
  <2>3. NoImaginaryClaim'
    <3> SUFFICES ASSUME NEW i \in Items, distribution'[i] = "available"
                 PROVE  \E b \in AttemptsOf(ItemOrder[i]) : payment'[b] = "successful"
      BY DEF NoImaginaryClaim, AttemptsOf
    <3>1. CASE i \in ItemsOf(o)
      BY <1>1, <1>3, <3>1 DEF ItemsOf, AttemptsOf, TypeOK
    <3>2. CASE i \notin ItemsOf(o)
      <4>1. distribution[i] = "available"
        BY <1>1, <1>3, <3>2 DEF Grant
      <4>2. PICK b \in AttemptsOf(ItemOrder[i]) : payment[b] = "successful"
        BY <4>1 DEF SerialInv, NoImaginaryClaim
      <4> QED
        BY <1>1, <3>2, <4>2 DEF AttemptsOf, ItemsOf, TypeOK
    <3> QED
      BY <3>1, <3>2
  <2> QED
    BY <1>2, <2>2, <2>3
<1>4. CASE out # "successful"
  <2>1. \A i \in Items : distribution[i] = "available" => ItemOrder[i] # o
    BY <1>1, <1>4, TransitionFacts
       DEF SerialInv, SoldIsSettled, Outcomes, OutcomeToOrderStatus, OrderStatus
  <2>2. SoldIsSettled'
    BY <1>1, <1>4, <2>1 DEF SoldIsSettled, SerialInv, TypeOK
  <2>3. NoImaginaryClaim'
    BY <1>1, <1>4, <2>1, UnclaimedIsFree DEF SerialInv, TypeOK
  <2> QED
    BY <1>2, <2>2, <2>3
<1> QED
  BY <1>3, <1>4

LEMMA NotifyingKeepsSerial ==
  ASSUME MaxInFlight = 1, TypeOK, HandledIsNotified, SerialInv, NEW e \in Events,
         RecordEvent(e) \/ RecordRejected(e) \/ WebhookStep(e)
  PROVE  SerialInv'
<1>1. OnlyRequest("webhook", e) /\ UNCHANGED <<initialize, edit, refund>>
  <2>1. CASE RecordEvent(e) \/ RecordRejected(e)
    BY <2>1, AdmittedIsFirst, NobodyRuns DEF RecordEvent, RecordRejected, SerialInv, OnlyRequest
  <2>2. CASE WebhookStep(e)
    BY <2>2, AloneIs
       DEF WebhookStep, ReadPayment, CloseEvent, ApplyOutcome, AbortOutcome, SerialInv, Over
  <2> QED
    BY <2>1, <2>2
<1>2. OnlyRequest("webhook", e)'
  BY <1>1 DEF OnlyRequest, RecordEvent, RecordRejected, WebhookStep, ReadPayment,
              CloseEvent, ApplyOutcome, AbortOutcome, TypeOK
<1>3. CASE RecordEvent(e) \/ RecordRejected(e) \/ CloseEvent(e) \/ AbortOutcome(e)
  <2>1. UNCHANGED <<order, payment, distribution>> /\ webhook'[e] # "applying"
    BY <1>3 DEF RecordEvent, RecordRejected, CloseEvent, AbortOutcome, rows, TypeOK
  <2> QED
    BY <1>2, <2>1, RowsKept, OnlyWebhookRuns
<1>4. CASE ReadPayment(e)
  <2>1. UNCHANGED <<order, payment, distribution, notice>> /\ webhook'[e] = Verdict(e)
    BY <1>4 DEF ReadPayment, rows, external, TypeOK
  <2>2. webhook'[e] = "applying" =>
          /\ payment[notice[e].attempt] # "successful"
          /\ TransitionAllowed(order[OrderOf[notice[e].attempt]],
                               OutcomeToOrderStatus[notice[e].outcome])
    BY <2>1 DEF Verdict
  <2> QED
    BY <1>2, <2>1, <2>2, RowsKept, OnlyWebhookRuns
<1>5. CASE ApplyOutcome(e)
  <2>1. webhook'[e] = "done"
    BY <1>5 DEF ApplyOutcome, TypeOK
  <2> QED
    BY <1>2, <1>5, <2>1, ApplyingKeepsRows, OnlyWebhookRuns
<1> QED
  BY <1>3, <1>4, <1>5 DEF WebhookStep

LEMMA EditingKeepsSerial ==
  ASSUME MaxInFlight = 1, TypeOK, RequestsOK, SerialInv, NEW x \in Edits,
         WriteEdit(x) \/ \E o \in Orders, to \in OrderStatus : ReadForEdit(x, o, to)
  PROVE  SerialInv'
<1>1. CASE WriteEdit(x)
  <2>1. OnlyRequest("edit", x)
    BY <1>1, AloneIs DEF WriteEdit, SerialInv, Over
  <2>2. edit'[x].step = "done" /\ \A y \in Edits \ {x} : edit'[y] = edit[y]
    BY <1>1 DEF WriteEdit, NewEdit, TypeOK
  <2>3. OnlyRequest("edit", x)'
    BY <1>1, <2>1, <2>2 DEF WriteEdit, OnlyRequest, Over
  <2>4. PICK o \in Orders, to \in EditTargets :
          /\ order' = [order EXCEPT ![o] = to]
          /\ TransitionAllowed(order[o], to)
          /\ UNCHANGED <<payment, distribution>>
    BY <1>1 DEF WriteEdit, RequestsOK, SerialInv, EditStill
  <2>5. order[o] \in {"paid", "processing", "shipped", "delivered"} =>
          to \in {"paid", "processing", "shipped", "delivered"}
    BY <2>4, TransitionFacts DEF EditTargets
  <2>6. SoldIsSettled'
    BY <2>4, <2>5 DEF SerialInv, SoldIsSettled, TypeOK
  <2>7. OneAttemptInFlight' /\ NoImaginaryClaim'
    BY <2>4 DEF SerialInv, OneAttemptInFlight, NoImaginaryClaim, AttemptsOf
  <2> QED
    BY <2>2, <2>3, <2>6, <2>7, OnlyEditRuns
<1>2. ASSUME NEW o \in Orders, NEW to \in OrderStatus, ReadForEdit(x, o, to)
      PROVE  SerialInv'
  <2>1. OnlyRequest("edit", x)'
    BY <1>2, AdmittedIsFirst, NobodyRuns DEF ReadForEdit, SerialInv, OnlyRequest, TypeOK
  <2>2. edit'[x].order = o /\ edit'[x].to = to /\ UNCHANGED <<order, payment, distribution>>
    BY <1>2 DEF ReadForEdit, rows, TypeOK
  <2>3. TransitionAllowed(order[o], to)
    BY <1>2 DEF ReadForEdit
  <2> QED
    BY <2>1, <2>2, <2>3, RowsKept, OnlyEditRuns
<1> QED
  BY <1>1, <1>2

LEMMA RefundingKeepsSerial ==
  ASSUME MaxInFlight = 1, TypeOK, RequestsOK, SerialInv, NEW r \in Refunds,
         RefundStep(r) \/ \E o \in Orders : ReadForRefund(r, o)
  PROVE  SerialInv'
<1> USE OrderPaymentAssumption
<1>1. ASSUME NEW o \in Orders, ReadForRefund(r, o)
      PROVE  SerialInv'
  <2>1. OnlyRequest("refund", r)'
    BY <1>1, AdmittedIsFirst, NobodyRuns DEF ReadForRefund, SerialInv, OnlyRequest, TypeOK
  <2>2. /\ refund'[r].step = "checked" /\ refund'[r].order = o
        /\ TransitionAllowed(order[o], "refunded")
        /\ UNCHANGED <<order, payment, distribution>>
    BY <1>1 DEF ReadForRefund, rows, TypeOK
  <2> QED
    BY <2>1, <2>2, RowsKept, OnlyRefundRuns
<1>2. CASE RefundStep(r)
  <2>1. OnlyRequest("refund", r) /\ UNCHANGED <<initialize, webhook, edit>>
    BY <1>2, AloneIs
       DEF RefundStep, FindPayment, CallRefund, RefundFails, CommitRefund, SerialInv, Over
  <2>2. TransitionAllowed(order[refund[r].order], "refunded")
    BY <1>2 DEF RefundStep, FindPayment, CallRefund, RefundFails, CommitRefund,
                SerialInv, RefundStill
  <2>3. CASE FindPayment(r)
    <3>1. PICK q \in RefundRequests :
            /\ refund' = [refund EXCEPT ![r] = q]
            /\ \/ q.step = "done"
               \/ /\ q.step = "calling"
                  /\ q.order = refund[r].order
                  /\ q.attempt \in Confirmed(refund[r].order)
      BY <2>3, FindPaymentEffect DEF TypeOK
    <3>2. refund'[r] = q /\ UNCHANGED <<order, payment, distribution>>
      BY <2>3, <3>1 DEF FindPayment, rows, TypeOK
    <3>3. OnlyRequest("refund", r)'
      BY <2>1, <3>1 DEF OnlyRequest, TypeOK
    <3> QED
      BY <2>2, <3>1, <3>2, <3>3, RowsKept, OnlyRefundRuns DEF Confirmed
  <2>4. CASE CallRefund(r)
    <3>1. PICK q \in RefundRequests :
            /\ refund' = [refund EXCEPT ![r] = q]
            /\ q.step = "repaid"
            /\ q.order = refund[r].order
      BY <2>4, CallRefundEffect DEF TypeOK
    <3>2. refund'[r] = q /\ UNCHANGED <<order, payment, distribution>>
      BY <2>4, <3>1 DEF CallRefund, rows, TypeOK
    <3>3. OnlyRequest("refund", r)'
      BY <2>1, <3>1 DEF OnlyRequest, TypeOK
    <3> QED
      BY <2>2, <3>1, <3>2, <3>3, RowsKept, OnlyRefundRuns
  <2>5. CASE RefundFails(r) \/ CommitRefund(r)
    <3>1. refund'[r].step = "done" /\ \A s \in Refunds \ {r} : refund'[s] = refund[s]
      BY <2>5, RefundOverOK DEF RefundFails, CommitRefund, TypeOK
    <3>2. OnlyRequest("refund", r)'
      BY <2>1, <3>1 DEF OnlyRequest
    <3>3. OneAttemptInFlight' /\ SoldIsSettled' /\ NoImaginaryClaim'
      <4>1. CASE RefundFails(r)
        BY <4>1, RowsKept DEF RefundFails, rows
      <4>2. CASE CommitRefund(r)
        <5>1. PICK a \in Attempts, o \in Orders :
                /\ OrderOf[a] = o
                /\ payment' = [payment EXCEPT ![a] = "refunded"]
                /\ order' = [order EXCEPT ![o] = "refunded"]
                /\ Revoke(o)
          BY <4>2 DEF CommitRefund, RequestsOK, AttemptsOf
        <5>2. \A i \in Items : distribution'[i] = "available" =>
                distribution[i] = "available" /\ ItemOrder[i] # o
          BY <5>1 DEF Revoke, ItemsOf
        <5>3. OneAttemptInFlight'
          BY <5>1 DEF OneAttemptInFlight, InFlightPaymentStatuses, SerialInv, TypeOK
        <5>4. SoldIsSettled'
          BY <5>1, <5>2 DEF SoldIsSettled, SerialInv, TypeOK
        <5>5. NoImaginaryClaim'
          BY <5>1, <5>2 DEF NoImaginaryClaim, AttemptsOf, SerialInv, TypeOK
        <5> QED
          BY <5>3, <5>4, <5>5
      <4> QED
        BY <2>5, <4>1, <4>2
    <3> QED
      BY <3>1, <3>2, <3>3, OnlyRefundRuns
  <2> QED
    BY <1>2, <2>3, <2>4, <2>5 DEF RefundStep
<1> QED
  BY <1>1, <1>2

LEMMA NextSerialInv ==
  ASSUME MaxInFlight = 1, TypeOK, HandledIsNotified, RequestsOK, SerialInv, [Next]_vars
  PROVE  SerialInv'
<1>1. CASE UNCHANGED vars \/ \E a \in Attempts : OpenCharge(a)
  BY <1>1, EndingKeepsSerial DEF vars, rows, external, requests, OpenCharge
<1>2. ASSUME NEW e \in Events,
             \/ Acknowledge(e)
             \/ \E a \in Attempts : Notify(e, a) \/ \E out \in Outcomes : Simulate(e, a, out)
      PROVE  SerialInv'
  <2>1. UNCHANGED <<rows, requests>>
    BY <1>2 DEF Acknowledge, Notify, Simulate
  <2>2. \A d \in Events : webhook[d] = "applying" => notice'[d] = notice[d]
    BY <1>2, NoneIsNoNotice DEF Acknowledge, Notify, Simulate, HandledIsNotified, TypeOK
  <2> QED
    BY <2>1, <2>2, EndingKeepsSerial DEF rows, requests
<1>3. CASE Restart
  <2>1. UNCHANGED <<order, payment, distribution, notice>>
    BY <1>3 DEF Restart, rows, external
  <2>2. /\ \A a \in Attempts : initialize'[a] = initialize[a] \/ initialize'[a] \in Over
        /\ \A e \in Events : webhook'[e] = webhook[e] \/ webhook'[e] \in Over
        /\ \A x \in Edits : edit'[x] = edit[x] \/ edit'[x].step \in Over
        /\ \A r \in Refunds : refund'[r] = refund[r] \/ refund'[r].step \in Over
    BY <1>3 DEF Restart, NewEdit, NewRefund, Over
  <2> QED
    BY <2>1, <2>2, EndingKeepsSerial
<1> QED
  BY <1>1, <1>2, <1>3, InitializingKeepsSerial, NotifyingKeepsSerial, EditingKeepsSerial,
     RefundingKeepsSerial DEF Next

\* The invariant of requests handled one at a time.
LEMMA SerialInvariant ==
  ASSUME MaxInFlight = 1
  PROVE  Spec => [](TypeOK /\ HandledIsNotified /\ RequestsOK /\ SaleInv /\ SerialInv)
<1>1. Init => SerialInv
  BY InitSerialInv
<1>2. TypeOK /\ HandledIsNotified /\ RequestsOK /\ SerialInv /\ [Next]_vars => SerialInv'
  BY NextSerialInv
<1> QED
  BY <1>1, <1>2, SaleInvariant, PTL DEF Spec

\* règle n° 7: a second attempt of an order at a provider never starts while one
\* is in progress, if requests are handled one at a time (initialize).
THEOREM OneAttemptWhenSerial == ASSUME MaxInFlight = 1 PROVE Spec => []OneAttemptInFlight
<1>1. SerialInv => OneAttemptInFlight
  BY DEF SerialInv
<1> QED
  BY <1>1, SerialInvariant, PTL

\* An order whose authors have a claim is never taken back to awaiting payment,
\* failed or cancelled, if requests are handled one at a time (initialize,
\* handleWebhook, cancel).
THEOREM SoldIsSettledWhenSerial == ASSUME MaxInFlight = 1 PROVE Spec => []SoldIsSettled
<1>1. SerialInv => SoldIsSettled
  BY DEF SerialInv
<1> QED
  BY <1>1, SerialInvariant, PTL

\* What cancel says of its effects holds if requests are handled one at a time: it
\* takes a confirmation between its read and its write to cancel an order already
\* delivered (OrdersService.cancel, updateStatus).
THEOREM CancelledUnservedWhenSerial ==
  ASSUME MaxInFlight = 1 PROVE Spec => []CancelledIsUnserved
<1>1. SerialInv => CancelledIsUnserved
  BY DEF SerialInv, SoldIsSettled, CancelledIsUnserved
<1> QED
  BY <1>1, SerialInvariant, PTL

\* Every claim has a confirmed payment behind it, even where a simulated provider
\* contradicts itself, if requests are handled one at a time (handleWebhook).
THEOREM ClaimsAreRealWhenSerial == ASSUME MaxInFlight = 1 PROVE Spec => []NoImaginaryClaim
<1>1. SerialInv => NoImaginaryClaim
  BY DEF SerialInv
<1> QED
  BY <1>1, SerialInvariant, PTL

\* The handlers that write orders.status, each with the order it had checked.
LEMMA OrderMoves ==
  ASSUME TypeOK, HandledIsNotified, RequestsOK, SerialInv, [Next]_vars
  PROVE  \A o \in Orders : TransitionAllowed(order[o], order'[o])
<1> USE OrderPaymentAssumption
<1>1. CASE UNCHANGED order
  BY <1>1 DEF TransitionAllowed
<1>2. ASSUME NEW p \in Orders, NEW to, order' = [order EXCEPT ![p] = to],
             TransitionAllowed(order[p], to)
      PROVE  \A o \in Orders : TransitionAllowed(order[o], order'[o])
  BY <1>2 DEF TypeOK, TransitionAllowed
<1>3. ASSUME NEW a \in Attempts, CommitInitialize(a)
      PROVE  \A o \in Orders : TransitionAllowed(order[o], order'[o])
  <2>1. order[OrderOf[a]] \in PayableOrderStatuses
    BY <1>3 DEF CommitInitialize, SerialInv, PayableStill
  <2>2. TransitionAllowed(order[OrderOf[a]], "awaiting_payment")
    BY <2>1, TransitionFacts
  <2> QED
    BY <1>2, <1>3, <2>2 DEF CommitInitialize
<1>4. ASSUME NEW e \in Events, ApplyOutcome(e)
      PROVE  \A o \in Orders : TransitionAllowed(order[o], order'[o])
  <2>1. OrderOf[notice[e].attempt] \in Orders
    BY <1>4 DEF ApplyOutcome, HandledIsNotified, Notices
  <2>2. TransitionAllowed(order[OrderOf[notice[e].attempt]],
                          OutcomeToOrderStatus[notice[e].outcome])
    BY <1>4 DEF ApplyOutcome, SerialInv, VerdictStill
  <2> QED
    BY <1>2, <1>4, <2>1, <2>2 DEF ApplyOutcome
<1>5. ASSUME NEW x \in Edits, WriteEdit(x)
      PROVE  \A o \in Orders : TransitionAllowed(order[o], order'[o])
  BY <1>2, <1>5 DEF WriteEdit, RequestsOK, SerialInv, EditStill
<1>6. ASSUME NEW r \in Refunds, CommitRefund(r)
      PROVE  \A o \in Orders : TransitionAllowed(order[o], order'[o])
  BY <1>2, <1>6 DEF CommitRefund, RequestsOK, SerialInv, RefundStill
<1> QED
  BY <1>1, <1>3, <1>4, <1>5, <1>6
     DEF Next, vars, rows, InitializeStep, WebhookStep, RefundStep, ReadPayableOrder,
         OpenCharge, FindInFlight, CreatePayment, DriverAnswers, DriverFails, Notify,
         Simulate, Acknowledge, RecordEvent, RecordRejected, ReadPayment, CloseEvent,
         AbortOutcome, ReadForEdit, ReadForRefund, FindPayment, CallRefund, RefundFails,
         Restart

\* The state machine of order-status.ts is obeyed by every handler, those that
\* write a status without asking it included, if requests are handled one at a
\* time (CommitInitialize, applyOutcome, refund).
THEOREM TransitionsObeyedWhenSerial ==
  ASSUME MaxInFlight = 1 PROVE Spec => OnlyAllowedTransitions
<1>1. TypeOK /\ HandledIsNotified /\ RequestsOK /\ SerialInv /\ [Next]_vars
        => [\A o \in Orders : TransitionAllowed(order[o], order'[o])]_vars
  BY OrderMoves
<1> QED
  BY <1>1, SerialInvariant, PTL DEF Spec, OnlyAllowedTransitions

\* Money leaves only for a confirmed payment, whose order is not yet refunded.
LEMMA RepaysUnrefunded ==
  ASSUME TypeOK, RequestsOK, SaleInv, SerialInv, [Next]_vars, NEW a \in Attempts,
         repaid'[a] > repaid[a]
  PROVE  order[OrderOf[a]] # "refunded"
<1> USE OrderPaymentAssumption
<1>1. PICK r \in Refunds : CallRefund(r) \/ RefundFails(r)
  <2>1. repaid' # repaid
    BY DEF TypeOK
  <2> QED
    BY <2>1
       DEF Next, vars, rows, external, InitializeStep, WebhookStep, RefundStep,
           ReadPayableOrder, OpenCharge, FindInFlight, CreatePayment, DriverAnswers,
           DriverFails, CommitInitialize, Notify, Simulate, Acknowledge, RecordEvent,
           RecordRejected, ReadPayment, CloseEvent, ApplyOutcome, AbortOutcome,
           ReadForEdit, WriteEdit, ReadForRefund, FindPayment, CommitRefund, Restart
<1>2. refund[r].attempt = a
  BY <1>1 DEF CallRefund, RefundFails, TypeOK
<1>3. payment[a] = "successful"
  BY <1>1, <1>2 DEF CallRefund, RefundFails, SerialInv, RefundStill
<1>4. PICK i \in Items : ItemOrder[i] = OrderOf[a]
  OBVIOUS
<1>5. distribution[i] = "available"
  BY <1>3, <1>4 DEF SaleInv, ConfirmedIsServed, ItemsOf
<1> QED
  BY <1>4, <1>5 DEF SaleInv, RefundedIsRevoked

\* A provider is never asked to give back the money of an order that is already
\* refunded, if requests are handled one at a time (refund).
THEOREM RefundedOnceWhenSerial == ASSUME MaxInFlight = 1 PROVE Spec => RefundedIsNotRepaid
<1>1. TypeOK /\ RequestsOK /\ SaleInv /\ SerialInv /\ [Next]_vars
        => [\A a \in Attempts : repaid'[a] > repaid[a] => order[OrderOf[a]] # "refunded"]_vars
  BY RepaysUnrefunded
<1> QED
  BY <1>1, SerialInvariant, PTL DEF Spec, RefundedIsNotRepaid
(***************************************************************************)
(* What becomes of an event.  The row of an event and the request that     *)
(* handles it go together: the row is closed exactly when the request is   *)
(* done, and a request that ended without closing it was cut by a restart  *)
(* or aborted, by a grant the order already had or by the constraints on   *)
(* its frozen amounts.                                                     *)
(***************************************************************************)
AbortedForCause(e) ==
  AlreadyGranted(OrderOf[notice[e].attempt]) \/ notice[e].attempt \in Refusable

EventFollowsRequest ==
  \A e \in Events :
    /\ event[e] = "none" <=> webhook[e] = "idle"
    /\ event[e] \in Closed <=> webhook[e] = "done"
    /\ acked[e] => event[e] # "none"
    /\ webhook[e] = "lost" => restarts > 0
    /\ webhook[e] = "aborted" => AbortedForCause(e)

\* What « déjà reçu, donc déjà traité » comes to: an event answered 200 is
\* closed or being handled, unless the API restarted while it was, or its
\* transaction was refused.
AnsweredIsClosedUnlessCut ==
  \A e \in Events : acked[e] =>
    \/ event[e] \in Closed
    \/ webhook[e] \in {"recorded", "applying", "ignoring", "refusing"}
    \/ webhook[e] = "lost" /\ restarts > 0
    \/ webhook[e] = "aborted" /\ AbortedForCause(e)

\* No step takes a grant back to none, nor changes a notice handled once.
LEMMA GrantsStay ==
  ASSUME TypeOK, [Next]_vars, NEW o \in Orders, AlreadyGranted(o)
  PROVE  AlreadyGranted(o)'
<1> USE DEF AlreadyGranted, ItemsOf
<1>1. CASE UNCHANGED <<library, distribution>>
  BY <1>1
<1>2. ASSUME NEW e \in Events, ApplyOutcome(e)
      PROVE  AlreadyGranted(o)'
  BY <1>2 DEF ApplyOutcome, Grant, TypeOK
<1>3. ASSUME NEW r \in Refunds, CommitRefund(r)
      PROVE  AlreadyGranted(o)'
  BY <1>3 DEF CommitRefund, Revoke, TypeOK
<1> QED
  BY <1>1, <1>2, <1>3
     DEF Next, vars, rows, external, requests, InitializeStep, WebhookStep,
         RefundStep, ReadPayableOrder, OpenCharge, FindInFlight, CreatePayment,
         DriverAnswers, DriverFails, CommitInitialize, Notify, Simulate,
         Acknowledge, RecordEvent, RecordRejected, ReadPayment, CloseEvent,
         AbortOutcome, ReadForEdit, WriteEdit, ReadForRefund, FindPayment,
         CallRefund, RefundFails, Restart

LEMMA CausesStay ==
  ASSUME TypeOK, HandledIsNotified, [Next]_vars,
         NEW e \in Events, webhook[e] # "idle", AbortedForCause(e)
  PROVE  AbortedForCause(e)'
<1>1. notice[e] \in Notices /\ notice[e] # None /\ OrderOf[notice[e].attempt] \in Orders
  BY NoneIsNoNotice, OrderPaymentAssumption DEF HandledIsNotified, Notices
<1>2. notice'[e] = notice[e]
  BY <1>1 DEF Next, vars, rows, external, requests, InitializeStep, WebhookStep,
         RefundStep, ReadPayableOrder, OpenCharge, FindInFlight, CreatePayment,
         DriverAnswers, DriverFails, CommitInitialize, Notify, Simulate,
         Acknowledge, RecordEvent, RecordRejected, ReadPayment, CloseEvent,
         ApplyOutcome, AbortOutcome, ReadForEdit, WriteEdit, ReadForRefund,
         FindPayment, CallRefund, RefundFails, CommitRefund, Restart, TypeOK
<1>3. AlreadyGranted(OrderOf[notice[e].attempt]) =>
        AlreadyGranted(OrderOf[notice[e].attempt])'
  <2> DEFINE o == OrderOf[notice[e].attempt]
  <2>1. o \in Orders /\ o' = o
    BY <1>1, <1>2
  <2> SUFFICES ASSUME AlreadyGranted(o) PROVE AlreadyGranted(o)'
    BY <2>1 DEF AlreadyGranted, ItemsOf
  <2>2. PICK i \in ItemsOf(o) : library[i] # "none" \/ distribution[i] # "none"
    BY DEF AlreadyGranted
  <2> QED
    BY <2>1, GrantsStay
<1> QED
  BY <1>2, <1>3 DEF AbortedForCause

LEMMA NextEventFollowsRequest ==
  TypeOK /\ HandledIsNotified /\ EventFollowsRequest /\ [Next]_vars
    => EventFollowsRequest'
<1> SUFFICES ASSUME TypeOK, HandledIsNotified, EventFollowsRequest, [Next]_vars,
                    NEW f \in Events
             PROVE  (/\ event[f] = "none" <=> webhook[f] = "idle"
                     /\ event[f] \in Closed <=> webhook[f] = "done"
                     /\ acked[f] => event[f] # "none"
                     /\ webhook[f] = "lost" => restarts > 0
                     /\ webhook[f] = "aborted" => AbortedForCause(f))'
  BY DEF EventFollowsRequest
<1> DEFINE Row ==
      /\ event[f] = "none" <=> webhook[f] = "idle"
      /\ event[f] \in Closed <=> webhook[f] = "done"
      /\ acked[f] => event[f] # "none"
      /\ webhook[f] = "lost" => restarts > 0
<1>1. Row
  BY DEF EventFollowsRequest
<1>2. Row'
  <2>1. CASE UNCHANGED <<event, acked, webhook, restarts>>
    BY <1>1, <2>1
  <2>2. ASSUME NEW e \in Events, RecordEvent(e) \/ RecordRejected(e)
        PROVE  Row'
    BY <1>1, <2>2 DEF RecordEvent, RecordRejected, TypeOK, Closed, external
  <2>3. ASSUME NEW e \in Events, ReadPayment(e)
        PROVE  Row'
    <3>1. Verdict(e) \in {"ignoring", "refusing", "applying"}
      BY DEF Verdict
    <3> QED
      BY <1>1, <2>3, <3>1 DEF ReadPayment, TypeOK, Closed, external, rows
  <2>4. ASSUME NEW e \in Events, CloseEvent(e)
        PROVE  Row'
    BY <1>1, <2>4 DEF CloseEvent, TypeOK, Closed, external
  <2>5. ASSUME NEW e \in Events, ApplyOutcome(e)
        PROVE  Row'
    BY <1>1, <2>5 DEF ApplyOutcome, TypeOK, Closed, external
  <2>6. ASSUME NEW e \in Events, AbortOutcome(e)
        PROVE  Row'
    BY <1>1, <2>6 DEF AbortOutcome, TypeOK, Closed, external, rows
  <2>7. ASSUME NEW e \in Events, Acknowledge(e)
        PROVE  Row'
    BY <1>1, <2>7 DEF Acknowledge, TypeOK, Closed, requests, rows
  <2>8. CASE Restart
    BY <1>1, <2>8 DEF Restart, TypeOK, Closed, Over, external, rows
  <2> QED
    BY <2>1, <2>2, <2>3, <2>4, <2>5, <2>6, <2>7, <2>8
       DEF Next, vars, rows, external, requests, InitializeStep, WebhookStep,
           RefundStep, ReadPayableOrder, OpenCharge, FindInFlight, CreatePayment,
           DriverAnswers, DriverFails, CommitInitialize, Notify, Simulate,
           ReadForEdit, WriteEdit, ReadForRefund, FindPayment,
           CallRefund, RefundFails, CommitRefund
<1>3. (webhook[f] = "aborted" => AbortedForCause(f))'
  <2> SUFFICES ASSUME webhook'[f] = "aborted" PROVE AbortedForCause(f)'
    OBVIOUS
  <2>1. webhook[f] = "aborted" \/ AbortOutcome(f)
    <3>1. CASE UNCHANGED webhook
      BY <3>1
    <3>2. ASSUME NEW e \in Events, ReadPayment(e)
          PROVE  webhook[f] = "aborted" \/ AbortOutcome(f)
      <4>1. Verdict(e) # "aborted"
        BY DEF Verdict
      <4> QED
        BY <3>2, <4>1 DEF ReadPayment, TypeOK
    <3>3. ASSUME NEW e \in Events,
                 \/ RecordEvent(e) \/ RecordRejected(e)
                 \/ CloseEvent(e) \/ ApplyOutcome(e)
          PROVE  webhook[f] = "aborted" \/ AbortOutcome(f)
      BY <3>3 DEF RecordEvent, RecordRejected, CloseEvent, ApplyOutcome, TypeOK
    <3>4. ASSUME NEW e \in Events, AbortOutcome(e)
          PROVE  webhook[f] = "aborted" \/ AbortOutcome(f)
      <4>1. CASE e = f
        BY <3>4, <4>1
      <4>2. CASE e # f
        BY <3>4, <4>2 DEF AbortOutcome, TypeOK
      <4> QED
        BY <4>1, <4>2
    <3>5. CASE Restart
      BY <3>5 DEF Restart, TypeOK
    <3> QED
      BY <3>1, <3>2, <3>3, <3>4, <3>5
         DEF Next, vars, rows, external, requests, InitializeStep, WebhookStep,
             RefundStep, ReadPayableOrder, OpenCharge, FindInFlight, CreatePayment,
             DriverAnswers, DriverFails, CommitInitialize, Notify, Simulate,
             Acknowledge, ReadForEdit, WriteEdit, ReadForRefund, FindPayment,
             CallRefund, RefundFails, CommitRefund
  <2>2. webhook[f] # "idle" /\ AbortedForCause(f)
    BY <2>1 DEF EventFollowsRequest, AbortOutcome, AbortedForCause
  <2> QED
    BY <2>2, CausesStay
<1> QED
  BY <1>2, <1>3

\* Finding answered_not_closed, in full: an event answered 200 stays open for
\* good only if the API restarted while it was handled, or if its transaction
\* was refused, because the order was already granted or by the constraints on
\* its frozen amounts (handleWebhook, recordEvent, applyOutcome).
THEOREM AnsweredIsCutOnlyFor == Spec => []AnsweredIsClosedUnlessCut
<1>1. Init => TypeOK /\ HandledIsNotified /\ EventFollowsRequest
  BY InitTypeOK DEF Init, HandledIsNotified, EventFollowsRequest, Closed
<1>2. TypeOK /\ EventFollowsRequest => AnsweredIsClosedUnlessCut
  BY DEF TypeOK, WebhookSteps, EventFollowsRequest, AnsweredIsClosedUnlessCut
<1> QED
  BY <1>1, <1>2, NextTypeOK, NextEventFollowsRequest, PTL DEF Spec
=============================================================================
