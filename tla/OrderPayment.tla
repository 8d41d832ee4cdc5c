---------------------------- MODULE OrderPayment ----------------------------
(***************************************************************************)
(* Orders, payment attempts, provider notifications and refunds: the       *)
(* handlers of OrdersService and PaymentsService, with the rows they share *)
(* (orders, payments, payment_events, reader_library, sale_distributions). *)
(*                                                                         *)
(* A handler is split exactly where the code lets other requests run:      *)
(* between two database transactions, around a call to the provider, and,  *)
(* PostgreSQL running at Read Committed, between the read and the write of *)
(* one transaction.  What a handler has read and will use later is the     *)
(* state of its request (initialize, webhook, edit, refund).               *)
(***************************************************************************)
EXTENDS Naturals, FiniteSets

CONSTANTS
  Orders,        \* orders, each created `pending` (OrdersService.create)
  Items,         \* the lines of all orders
  Attempts,      \* requests POST /payments/initialize, and the row each may create
  Events,        \* event identifiers of the providers
  Edits,         \* requests to cancel an order or to change its status
  Refunds,       \* requests to refund an order
  Providers,     \* configured payment providers
  OrderOf,       \* the order an attempt pays for
  ProviderOf,    \* the provider an attempt asks for
  ItemOrder,     \* the order an item belongs to
  Digital,       \* the items delivered as a download
  Refundable,    \* providers whose driver and settings support refunds
  Simulated,     \* providers settled by simulate() (none in production)
  Refusable,     \* attempts whose distribution the database may refuse
  MaxInFlight,   \* requests the API handles at the same time
  MaxRestarts,   \* crashes and restarts of the API process
  None           \* no order, no attempt, no notification

ASSUME OrderPaymentAssumption ==
  /\ OrderOf \in [Attempts -> Orders]
  /\ ProviderOf \in [Attempts -> Providers]
  /\ ItemOrder \in [Items -> Orders]
  /\ \A o \in Orders : \E i \in Items : ItemOrder[i] = o
  /\ Digital \subseteq Items
  /\ Refundable \subseteq Providers
  /\ Simulated \subseteq Providers
  /\ Refusable \subseteq Attempts
  /\ None \notin Orders \cup Attempts
  /\ MaxInFlight \in Nat
  /\ MaxRestarts \in Nat

VARIABLES
  order,         \* orders.status
  payment,       \* payments.status, "none" before the row exists
  transaction,   \* payments.provider_transaction_id is stored
  library,       \* reader_library.access_status of a digital item
  distribution,  \* sale_distributions.payout_status of an item
  event,         \* payment_events.processing_status
  charge,        \* what the provider holds for an attempt
  notice,        \* the notification the provider sends under an event id
  acked,         \* the provider got a 200 for this event id
  repaid,        \* successful driver.refund calls for an attempt
  initialize,    \* progress of PaymentsService.initialize
  webhook,       \* progress of PaymentsService.handleWebhook
  edit,          \* progress of OrdersService.cancel and updateStatus
  refund,        \* progress of PaymentsService.refund
  restarts       \* restarts so far

rows     == <<order, payment, transaction, library, distribution, event>>
external == <<charge, notice, acked, repaid>>
requests == <<initialize, webhook, edit, refund>>
vars     == <<rows, external, requests, restarts>>

-----------------------------------------------------------------------------
(* Statuses and the state machine of an order.                             *)

OrderStatus == {"pending", "awaiting_payment", "paid", "processing", "shipped",
                "delivered", "cancelled", "failed", "refunded"}

PaymentStatus == {"initialized", "pending", "successful", "failed",
                  "cancelled", "refunded"}

Outcomes == {"successful", "failed", "cancelled"}

AllowedTransitions ==
  [pending          |-> {"awaiting_payment", "cancelled"},
   awaiting_payment |-> {"paid", "failed", "cancelled"},
   paid             |-> {"processing", "refunded"},
   processing       |-> {"shipped", "refunded"},
   shipped          |-> {"delivered", "refunded"},
   delivered        |-> {"refunded"},
   cancelled        |-> {},
   failed           |-> {"awaiting_payment", "cancelled"},
   refunded         |-> {}]

TransitionAllowed(from, to) == from = to \/ to \in AllowedTransitions[from]

\* A mistake the runs must catch (see below): a paid order can be paid again.
PayableEvenPaid == {"pending", "awaiting_payment", "failed", "paid"}

PayableOrderStatuses    == {"pending", "awaiting_payment", "failed"}
InFlightPaymentStatuses == {"initialized", "pending"}

\* An outcome names the payment status it leads to.
OutcomeToOrderStatus ==
  [successful |-> "paid", failed |-> "failed", cancelled |-> "cancelled"]

\* What the provider settled on, and the outcome its notification reports.
OutcomeOfCharge ==
  [captured |-> "successful", short |-> "successful",
   declined |-> "failed", abandoned |-> "cancelled"]

Settled == DOMAIN OutcomeOfCharge

ItemsOf(o)    == {i \in Items : ItemOrder[i] = o}
AttemptsOf(o) == {a \in Attempts : OrderOf[a] = o}

Notices == [attempt : Attempts, outcome : Outcomes, exact : BOOLEAN]

ASSUME NoneIsNoNotice == None \notin Notices

InitializeSteps == {"idle", "payable", "clear", "calling", "answered", "done", "lost"}
WebhookSteps    == {"idle", "recorded", "applying", "ignoring", "refusing",
                    "done", "aborted", "lost"}
EditSteps       == {"idle", "writing", "done", "lost"}
RefundSteps     == {"idle", "checked", "calling", "repaid", "done", "lost"}

EditRequests ==
  [step : EditSteps, order : Orders \cup {None}, to : OrderStatus]
RefundRequests ==
  [step : RefundSteps, order : Orders \cup {None}, attempt : Attempts \cup {None}]

\* The requests being handled, and the room for one more.
Over == {"idle", "done", "aborted", "lost"}
InFlight ==
  {a \in Attempts : initialize[a] \notin Over}
    \cup {e \in Events : webhook[e] \notin Over}
    \cup {x \in Edits : edit[x].step \notin Over}
    \cup {r \in Refunds : refund[r].step \notin Over}
Admitted == Cardinality(InFlight) < MaxInFlight

NewEdit   == [step |-> "idle", order |-> None, to |-> "pending"]
NewRefund == [step |-> "idle", order |-> None, attempt |-> None]

Init ==
  /\ order = [o \in Orders |-> "pending"]
  /\ payment = [a \in Attempts |-> "none"]
  /\ transaction = [a \in Attempts |-> FALSE]
  /\ library = [i \in Items |-> "none"]
  /\ distribution = [i \in Items |-> "none"]
  /\ event = [e \in Events |-> "none"]
  /\ charge = [a \in Attempts |-> "none"]
  /\ notice = [e \in Events |-> None]
  /\ acked = [e \in Events |-> FALSE]
  /\ repaid = [a \in Attempts |-> 0]
  /\ initialize = [a \in Attempts |-> "idle"]
  /\ webhook = [e \in Events |-> "idle"]
  /\ edit = [x \in Edits |-> NewEdit]
  /\ refund = [r \in Refunds |-> NewRefund]
  /\ restarts = 0

-----------------------------------------------------------------------------
(* Plausible mistakes, one per property: each takes the place of the       *)
(* definition it names, and TLC must then refute the property.             *)

\* HasInFlight: the attempt that has not reached the provider is forgotten.
HasPending(a) ==
  \E b \in AttemptsOf(OrderOf[a]) :
    ProviderOf[b] = ProviderOf[a] /\ payment[b] = "pending"

\* Verdict: the amount is not compared.
VerdictUnpriced(e) ==
  LET a == notice[e].attempt
  IN IF ~transaction[a] \/ payment[a] = "successful" THEN "ignoring"
     ELSE IF TransitionAllowed(order[OrderOf[a]], OutcomeToOrderStatus[notice[e].outcome])
     THEN "applying" ELSE "ignoring"

\* Verdict: the state machine of the order is not asked.
VerdictUnjudged(e) ==
  LET a == notice[e].attempt
  IN IF ~transaction[a] \/ payment[a] = "successful" THEN "ignoring"
     ELSE IF notice[e].outcome = "successful" /\ ~notice[e].exact THEN "refusing"
     ELSE "applying"

\* CloseEvent: a notification without effect is answered but not closed.
LeaveEventOpen(e) ==
  /\ webhook[e] \in {"ignoring", "refusing"}
  /\ event' = [event EXCEPT ![e] = IF webhook[e] = "refusing" THEN "failed" ELSE @]
  /\ webhook' = [webhook EXCEPT ![e] = "done"]
  /\ UNCHANGED <<order, payment, transaction, library, distribution,
                 external, initialize, edit, refund, restarts>>

\* AlreadyGranted: duplicates are skipped instead of aborting.
NeverGranted(o) == FALSE

\* Grant: the distribution keeps the default status of its column.
GrantPending(o) ==
  /\ library' = [i \in Items |->
       IF i \in ItemsOf(o) \cap Digital THEN "active" ELSE library[i]]
  /\ distribution' = [i \in Items |->
       IF i \in ItemsOf(o) THEN "pending" ELSE distribution[i]]

\* Grant: only the digital lines are distributed.
GrantDigital(o) ==
  /\ library' = [i \in Items |->
       IF i \in ItemsOf(o) \cap Digital THEN "active" ELSE library[i]]
  /\ distribution' = [i \in Items |->
       IF i \in ItemsOf(o) \cap Digital THEN "available" ELSE distribution[i]]

\* EditTargets: an administrator may set an order to paid.
EditTargetsPaid == OrderStatus \ {"refunded"}

\* Confirmed: a refunded payment still counts.
ConfirmedOnce(o) == {a \in AttemptsOf(o) : payment[a] \in {"successful", "refunded"}}

\* Revoke: the distributions, or the accesses, are forgotten.
RevokeAccessOnly(o) ==
  /\ library' = [i \in Items |->
       IF i \in ItemsOf(o) /\ library[i] = "active" THEN "revoked" ELSE library[i]]
  /\ UNCHANGED distribution
RevokeClaimOnly(o) ==
  /\ UNCHANGED library
  /\ distribution' = [i \in Items |->
       IF i \in ItemsOf(o) /\ distribution[i] = "available"
       THEN "cancelled" ELSE distribution[i]]

-----------------------------------------------------------------------------
(* PaymentsService.initialize                                              *)

\* The order is read and found payable; otherwise the request ends here.
ReadPayableOrder(a) ==
  /\ initialize[a] = "idle"
  /\ Admitted
  /\ order[OrderOf[a]] \in PayableOrderStatuses
  /\ initialize' = [initialize EXCEPT ![a] = "payable"]
  /\ UNCHANGED <<rows, external, webhook, edit, refund, restarts>>

\* Another attempt of this order in progress at the same provider.
HasInFlight(a) ==
  \E b \in AttemptsOf(OrderOf[a]) :
    /\ ProviderOf[b] = ProviderOf[a]
    /\ payment[b] \in InFlightPaymentStatuses

\* An attempt already in flight is returned as it is; else the way is clear.
FindInFlight(a) ==
  /\ initialize[a] = "payable"
  /\ initialize' = [initialize EXCEPT ![a] =
                      IF HasInFlight(a) THEN "done" ELSE "clear"]
  /\ UNCHANGED <<rows, external, webhook, edit, refund, restarts>>

CreatePayment(a) ==
  /\ initialize[a] = "clear"
  /\ payment' = [payment EXCEPT ![a] = "initialized"]
  /\ initialize' = [initialize EXCEPT ![a] = "calling"]
  /\ UNCHANGED <<order, transaction, library, distribution, event,
                 external, webhook, edit, refund, restarts>>

\* The provider opens a transaction for the call in progress.
OpenCharge(a) ==
  /\ initialize[a] = "calling"
  /\ charge[a] = "none"
  /\ charge' = [charge EXCEPT ![a] = "open"]
  /\ UNCHANGED <<rows, notice, acked, repaid, requests, restarts>>

DriverAnswers(a) ==
  /\ initialize[a] = "calling"
  /\ charge[a] # "none"
  /\ initialize' = [initialize EXCEPT ![a] = "answered"]
  /\ UNCHANGED <<rows, external, webhook, edit, refund, restarts>>

\* The call fails, whether or not the provider opened the transaction.
DriverFails(a) ==
  /\ initialize[a] = "calling"
  /\ payment' = [payment EXCEPT ![a] = "failed"]
  /\ initialize' = [initialize EXCEPT ![a] = "done"]
  /\ UNCHANGED <<order, transaction, library, distribution, event,
                 external, webhook, edit, refund, restarts>>

\* The answer is stored and the order set to awaiting_payment, whatever
\* its status has become since it was read.
CommitInitialize(a) ==
  /\ initialize[a] = "answered"
  /\ payment' = [payment EXCEPT ![a] = "pending"]
  /\ transaction' = [transaction EXCEPT ![a] = TRUE]
  /\ order' = [order EXCEPT ![OrderOf[a]] = "awaiting_payment"]
  /\ initialize' = [initialize EXCEPT ![a] = "done"]
  /\ UNCHANGED <<library, distribution, event,
                 external, webhook, edit, refund, restarts>>

-----------------------------------------------------------------------------
(* The provider: settles each transaction once, then notifies the outcome  *)
(* under one or several event ids, and delivers each until it gets a 200.  *)

Notify(e, a) ==
  /\ notice[e] = None
  /\ \E c \in Settled :
       /\ charge[a] \in {"open", c}
       /\ charge' = [charge EXCEPT ![a] = c]
       /\ notice' = [notice EXCEPT ![e] =
                       [attempt |-> a, outcome |-> OutcomeOfCharge[c],
                        exact |-> c # "short"]]
  /\ UNCHANGED <<rows, acked, repaid, requests, restarts>>

\* PaymentsService.simulate: any outcome, any number of times, under a new
\* event id and for the expected amount, at the simulated provider only.
Simulate(e, a, outcome) ==
  /\ ProviderOf[a] \in Simulated
  /\ transaction[a]
  /\ notice[e] = None
  /\ notice' = [notice EXCEPT ![e] =
                  [attempt |-> a, outcome |-> outcome, exact |-> TRUE]]
  /\ charge' = IF outcome = "successful"
               THEN [charge EXCEPT ![a] = "captured"] ELSE charge
  /\ UNCHANGED <<rows, acked, repaid, requests, restarts>>

\* A 200 reaches the provider: the answer of the handler, or of a second
\* delivery that met the unique constraint on the event id.
Acknowledge(e) ==
  /\ event[e] # "none"
  /\ ~acked[e]
  /\ acked' = [acked EXCEPT ![e] = TRUE]
  /\ UNCHANGED <<rows, charge, notice, repaid, requests, restarts>>

-----------------------------------------------------------------------------
(* PaymentsService.handleWebhook                                           *)

\* The event is inserted before anything else; the unique constraint lets
\* one delivery through.
RecordEvent(e) ==
  /\ notice[e] # None
  /\ event[e] = "none"
  /\ Admitted
  /\ event' = [event EXCEPT ![e] = "received"]
  /\ webhook' = [webhook EXCEPT ![e] = "recorded"]
  /\ UNCHANGED <<order, payment, transaction, library, distribution,
                 external, initialize, edit, refund, restarts>>

\* The notification carries an event id but an invalid or stale signature,
\* which only the simulated driver can find; it is recorded and refused.
RecordRejected(e) ==
  /\ notice[e] # None
  /\ ProviderOf[notice[e].attempt] \in Simulated
  /\ event[e] = "none"
  /\ Admitted
  /\ event' = [event EXCEPT ![e] = "received"]
  /\ webhook' = [webhook EXCEPT ![e] = "refusing"]
  /\ UNCHANGED <<order, payment, transaction, library, distribution,
                 external, initialize, edit, refund, restarts>>

\* What the handler makes of the payment and the order it has read.
Verdict(e) ==
  LET a == notice[e].attempt
      outcome == notice[e].outcome
  IN IF ~transaction[a] \/ payment[a] = "successful" THEN "ignoring"
     ELSE IF outcome = "successful" /\ ~notice[e].exact THEN "refusing"
     ELSE IF TransitionAllowed(order[OrderOf[a]], OutcomeToOrderStatus[outcome])
     THEN "applying" ELSE "ignoring"

ReadPayment(e) ==
  /\ webhook[e] = "recorded"
  /\ webhook' = [webhook EXCEPT ![e] = Verdict(e)]
  /\ UNCHANGED <<rows, external, initialize, edit, refund, restarts>>

CloseEvent(e) ==
  /\ webhook[e] \in {"ignoring", "refusing"}
  /\ event' = [event EXCEPT ![e] =
                 IF webhook[e] = "ignoring" THEN "ignored" ELSE "failed"]
  /\ webhook' = [webhook EXCEPT ![e] = "done"]
  /\ UNCHANGED <<order, payment, transaction, library, distribution,
                 external, initialize, edit, refund, restarts>>

\* reader_library.order_item_id and sale_distributions.order_item_id are
\* unique: a second grant of an item aborts the transaction.
AlreadyGranted(o) ==
  \E i \in ItemsOf(o) : library[i] # "none" \/ distribution[i] # "none"

\* reader_library.createMany for the digital items, freezeForOrder for all.
Grant(o) ==
  /\ library' = [i \in Items |->
       IF i \in ItemsOf(o) \cap Digital THEN "active" ELSE library[i]]
  /\ distribution' = [i \in Items |->
       IF i \in ItemsOf(o) THEN "available" ELSE distribution[i]]

\* One transaction: payment, order, access, distributions and event.  It
\* reads nothing again: the verdict was reached before it began.
ApplyOutcome(e) ==
  LET a == notice[e].attempt
      outcome == notice[e].outcome
      o == OrderOf[a]
  IN /\ webhook[e] = "applying"
     /\ outcome = "successful" => ~AlreadyGranted(o)
     /\ payment' = [payment EXCEPT ![a] = outcome]
     /\ order' = [order EXCEPT ![o] = OutcomeToOrderStatus[outcome]]
     /\ IF outcome = "successful"
        THEN Grant(o) ELSE UNCHANGED <<library, distribution>>
     /\ event' = [event EXCEPT ![e] = "processed"]
     /\ webhook' = [webhook EXCEPT ![e] = "done"]
     /\ UNCHANGED <<transaction, external, initialize, edit, refund, restarts>>

\* The transaction is rolled back, by these constraints or by those on the
\* frozen amounts and their rule (see Commission): the event stays `received`.
AbortOutcome(e) ==
  /\ webhook[e] = "applying"
  /\ notice[e].outcome = "successful"
  /\ \/ AlreadyGranted(OrderOf[notice[e].attempt])
     \/ notice[e].attempt \in Refusable
  /\ webhook' = [webhook EXCEPT ![e] = "aborted"]
  /\ UNCHANGED <<rows, external, initialize, edit, refund, restarts>>

-----------------------------------------------------------------------------
(* OrdersService.cancel (by the buyer, to `cancelled`) and updateStatus    *)
(* (by an administrator): read and check, then write, in one transaction   *)
(* that takes no lock on the row it read.                                  *)

EditTargets == OrderStatus \ {"refunded", "paid"}

ReadForEdit(x, o, to) ==
  /\ edit[x].step = "idle"
  /\ Admitted
  /\ to \in EditTargets
  /\ TransitionAllowed(order[o], to)
  /\ edit' = [edit EXCEPT ![x] = [step |-> "writing", order |-> o, to |-> to]]
  /\ UNCHANGED <<rows, external, initialize, webhook, refund, restarts>>

WriteEdit(x) ==
  /\ edit[x].step = "writing"
  /\ order' = [order EXCEPT ![edit[x].order] = edit[x].to]
  /\ edit' = [edit EXCEPT ![x] = [NewEdit EXCEPT !.step = "done"]]
  /\ UNCHANGED <<payment, transaction, library, distribution, event,
                 external, initialize, webhook, refund, restarts>>

-----------------------------------------------------------------------------
(* PaymentsService.refund                                                  *)

RefundOver == [NewRefund EXCEPT !.step = "done"]

ReadForRefund(r, o) ==
  /\ refund[r].step = "idle"
  /\ Admitted
  /\ TransitionAllowed(order[o], "refunded")
  /\ refund' = [refund EXCEPT ![r] =
                  [step |-> "checked", order |-> o, attempt |-> None]]
  /\ UNCHANGED <<rows, external, initialize, webhook, edit, restarts>>

Confirmed(o) == {a \in AttemptsOf(o) : payment[a] = "successful"}

\* A refund the provider's driver and its settings both support.
CanRepay(a) == transaction[a] /\ ProviderOf[a] \in Refundable

\* The confirmed payment to give back; the request ends without one, or when
\* its provider cannot refund it.
FindPayment(r) ==
  /\ refund[r].step = "checked"
  /\ \/ \E a \in Confirmed(refund[r].order) :
          refund' = [refund EXCEPT ![r] =
                       IF CanRepay(a) THEN [@ EXCEPT !.step = "calling", !.attempt = a]
                       ELSE RefundOver]
     \/ /\ Confirmed(refund[r].order) = {}
        /\ refund' = [refund EXCEPT ![r] = RefundOver]
  /\ UNCHANGED <<rows, external, initialize, webhook, edit, restarts>>

\* driver.refund, outside any transaction: the money leaves.
CallRefund(r) ==
  /\ refund[r].step = "calling"
  /\ repaid' = [repaid EXCEPT ![refund[r].attempt] = @ + 1]
  /\ refund' = [refund EXCEPT ![r].step = "repaid"]
  /\ UNCHANGED <<rows, charge, notice, acked, initialize, webhook, edit, restarts>>

\* The provider declines, or does not answer and may have paid: nothing is
\* written.
RefundFails(r) ==
  /\ refund[r].step = "calling"
  /\ repaid' \in {repaid, [repaid EXCEPT ![refund[r].attempt] = @ + 1]}
  /\ refund' = [refund EXCEPT ![r] = RefundOver]
  /\ UNCHANGED <<rows, charge, notice, acked, initialize, webhook, edit, restarts>>

\* Active accesses are revoked and unpaid distributions cancelled.
Revoke(o) ==
  /\ library' = [i \in Items |->
       IF i \in ItemsOf(o) /\ library[i] = "active" THEN "revoked" ELSE library[i]]
  /\ distribution' = [i \in Items |->
       IF i \in ItemsOf(o) /\ distribution[i] = "available"
       THEN "cancelled" ELSE distribution[i]]

\* One transaction: payment, accesses, distributions and order.
CommitRefund(r) ==
  /\ refund[r].step = "repaid"
  /\ payment' = [payment EXCEPT ![refund[r].attempt] = "refunded"]
  /\ Revoke(refund[r].order)
  /\ order' = [order EXCEPT ![refund[r].order] = "refunded"]
  /\ refund' = [refund EXCEPT ![r] = RefundOver]
  /\ UNCHANGED <<transaction, event, external, initialize, webhook, edit, restarts>>

-----------------------------------------------------------------------------
(* The API process stops and restarts: every request in progress is lost,  *)
(* what was committed stays.                                               *)
Restart ==
  /\ restarts < MaxRestarts
  /\ InFlight # {}
  /\ restarts' = restarts + 1
  /\ initialize' = [a \in Attempts |->
       IF initialize[a] \in Over THEN initialize[a] ELSE "lost"]
  /\ webhook' = [e \in Events |->
       IF webhook[e] \in Over THEN webhook[e] ELSE "lost"]
  /\ edit' = [x \in Edits |->
       IF edit[x].step \in Over THEN edit[x] ELSE [NewEdit EXCEPT !.step = "lost"]]
  /\ refund' = [r \in Refunds |->
       IF refund[r].step \in Over THEN refund[r] ELSE [NewRefund EXCEPT !.step = "lost"]]
  /\ UNCHANGED <<rows, external>>

InitializeStep(a) ==
  \/ FindInFlight(a) \/ CreatePayment(a) \/ DriverAnswers(a)
  \/ DriverFails(a) \/ CommitInitialize(a)

WebhookStep(e) ==
  ReadPayment(e) \/ CloseEvent(e) \/ ApplyOutcome(e) \/ AbortOutcome(e)

RefundStep(r) ==
  FindPayment(r) \/ CallRefund(r) \/ RefundFails(r) \/ CommitRefund(r)

Next ==
  \/ \E a \in Attempts : ReadPayableOrder(a) \/ OpenCharge(a) \/ InitializeStep(a)
  \/ \E e \in Events :
       \/ RecordEvent(e) \/ RecordRejected(e) \/ WebhookStep(e) \/ Acknowledge(e)
       \/ \E a \in Attempts : Notify(e, a) \/ \E out \in Outcomes : Simulate(e, a, out)
  \/ \E x \in Edits : \/ \E o \in Orders, to \in OrderStatus : ReadForEdit(x, o, to)
                      \/ WriteEdit(x)
  \/ \E r \in Refunds : (\E o \in Orders : ReadForRefund(r, o)) \/ RefundStep(r)
  \/ Restart

Spec == Init /\ [][Next]_vars

\* Node runs the handlers it has started, providers repeat a notification
\* until they get a 200: nobody else has to act.
Fairness ==
  /\ \A a \in Attempts : WF_vars(InitializeStep(a))
  /\ \A e \in Events : /\ WF_vars(RecordEvent(e))
                       /\ WF_vars(WebhookStep(e))
                       /\ WF_vars(Acknowledge(e))
  /\ \A x \in Edits : WF_vars(WriteEdit(x))
  /\ \A r \in Refunds : WF_vars(RefundStep(r))

FairSpec == Spec /\ Fairness

-----------------------------------------------------------------------------
(* What holds however requests, notifications and restarts interleave.     *)

\* Every variable has the shape of the column or of the request it stands for.
TypeOK ==
  /\ order \in [Orders -> OrderStatus]
  /\ payment \in [Attempts -> PaymentStatus \cup {"none"}]
  /\ transaction \in [Attempts -> BOOLEAN]
  /\ library \in [Items -> {"none", "active", "revoked"}]
  /\ distribution \in [Items -> {"none", "available", "cancelled"}]
  /\ event \in [Events -> {"none", "received", "processed", "ignored", "failed"}]
  /\ charge \in [Attempts -> Settled \cup {"none", "open"}]
  /\ notice \in [Events -> Notices \cup {None}]
  /\ acked \in [Events -> BOOLEAN]
  /\ repaid \in [Attempts -> Nat]
  /\ initialize \in [Attempts -> InitializeSteps]
  /\ webhook \in [Events -> WebhookSteps]
  /\ edit \in [Edits -> EditRequests]
  /\ refund \in [Refunds -> RefundRequests]
  /\ restarts \in Nat

\* At most one attempt of an order is ever confirmed, although several may be
\* open and captured: the unique constraints on the order item make the
\* transaction of a second confirmation abort (applyOutcome).
AtMostOneConfirmed ==
  \A a, b \in Attempts :
    /\ OrderOf[a] = OrderOf[b]
    /\ payment[a] \in {"successful", "refunded"}
    /\ payment[b] \in {"successful", "refunded"}
    => a = b

\* A confirmed payment gives the reader every digital item and the authors
\* their share of every item, and neither is withdrawn before the payment is
\* refunded (applyOutcome, refund).
ConfirmedIsServed ==
  \A a \in Attempts : payment[a] = "successful" =>
    \A i \in ItemsOf(OrderOf[a]) :
      /\ distribution[i] = "available"
      /\ i \in Digital => library[i] = "active"

\* The lines of an order are granted and withdrawn together, and a reader's
\* access to a line never outlives the authors' claim on it, nor the reverse.
AccessMatchesClaim ==
  /\ \A i, j \in Items : ItemOrder[i] = ItemOrder[j] => distribution[i] = distribution[j]
  /\ \A i \in Digital : /\ library[i] = "active" <=> distribution[i] = "available"
                        /\ library[i] = "revoked" <=> distribution[i] = "cancelled"

\* An order reaches a status that only a payment opens (paid, in delivery,
\* refunded) only if its lines were granted: neither an administrator nor the
\* buyer can set such a status by hand (updateStatus, cancel).
PaidIsGranted ==
  \A o \in Orders :
    order[o] \in {"paid", "processing", "shipped", "delivered", "refunded"} =>
      \A i \in ItemsOf(o) : distribution[i] # "none"

\* A refunded payment, or a refunded order, leaves no active access and no
\* claim the authors could still be paid, whatever a late notification or a
\* second refund does (refund).
RefundedIsRevoked ==
  \A i \in Items :
    (\/ order[ItemOrder[i]] = "refunded"
     \/ \E a \in AttemptsOf(ItemOrder[i]) : payment[a] = "refunded") =>
      /\ distribution[i] = "cancelled"
      /\ library[i] # "active"

\* règle n° 11: a claim of the authors has a confirmed payment behind it.  With
\* overlapping requests this takes providers that settle each transaction once
\* (Simulated = {}): two contradictory outcomes handled together break it
\* (handleWebhook, freezeForOrder).
NoImaginaryClaim ==
  \A i \in Items : distribution[i] = "available" =>
    \E a \in AttemptsOf(ItemOrder[i]) : payment[a] = "successful"

\* The sale of an order, as its rows tell it.
SaleOf(o) ==
  IF \E i \in ItemsOf(o) : distribution[i] = "available" THEN "sold"
  ELSE IF \E i \in ItemsOf(o) : distribution[i] = "cancelled" THEN "withdrawn"
  ELSE "unsold"

ImplementedSale == INSTANCE Sale WITH
  captured <- {a \in Attempts : charge[a] = "captured"},
  sale     <- [o \in Orders |-> SaleOf(o)],
  repaid   <- {a \in Attempts : repaid[a] > 0}

\* The handlers implement the promise of a sale: sold only for captured money,
\* once, and withdrawn only for repaid money (applyOutcome, refund).
ImplementsSale == ImplementedSale!Spec

-----------------------------------------------------------------------------
(* What holds while requests do not overlap (MaxInFlight = 1).             *)

\* The state machine of order-status.ts is obeyed by every handler.
OnlyAllowedTransitions ==
  [][\A o \in Orders : TransitionAllowed(order[o], order'[o])]_vars

\* An order whose authors have a claim is settled: no handler takes it back to
\* awaiting payment, failed or cancelled (initialize, handleWebhook, cancel).
SoldIsSettled ==
  \A i \in Items : distribution[i] = "available" =>
    order[ItemOrder[i]] \in {"paid", "processing", "shipped", "delivered"}

\* What cancel says of its effects: a cancelled order was never delivered
\* (OrdersService.cancel).
CancelledIsUnserved ==
  \A i \in Items : order[ItemOrder[i]] = "cancelled" => distribution[i] # "available"

\* règle n° 7: an order has at most one attempt in progress at a provider
\* (initialize).
OneAttemptInFlight ==
  \A a, b \in Attempts :
    /\ OrderOf[a] = OrderOf[b]
    /\ ProviderOf[a] = ProviderOf[b]
    /\ payment[a] \in InFlightPaymentStatuses
    /\ payment[b] \in InFlightPaymentStatuses
    => a = b

\* The provider is never asked to give money back for an order that is
\* already refunded (refund).
RefundedIsNotRepaid ==
  [][\A a \in Attempts : repaid'[a] > repaid[a] => order[OrderOf[a]] # "refunded"]_vars

-----------------------------------------------------------------------------
(* Liveness, under FairSpec.                                               *)

Closed == {"processed", "ignored", "failed"}

\* While the API does not restart and the database refuses no distribution
\* (Refusable = {}), the notification of a captured payment ends in a sale, or in
\* an event closed with its reason: it is not dropped (handleWebhook).
CapturedIsAnswered ==
  \A e \in Events, a \in Attempts :
    notice[e] = [attempt |-> a, outcome |-> "successful", exact |-> TRUE] ~>
      (event[e] \in Closed \/ SaleOf(OrderOf[a]) # "unsold")

\* « déjà reçu, donc déjà traité »: an event answered 200 has been, or will
\* be, closed (handleWebhook, recordEvent).
AnsweredIsClosed ==
  \A e \in Events : acked[e] ~> event[e] \in Closed
=============================================================================
