# GeBook in TLA+

GeBook is a marketplace of digital and printed books for several publishers
(tenants): a NestJS API over PostgreSQL (`src/backend`), and a Next.js front end
(`src/frontend`). The API runs as one Node process; its handlers are `async`
functions that interleave at every `await`, the database runs at Read Committed,
and payment providers call it back. This directory holds TLA+ models of the parts
of the API whose correctness depends on that concurrency, or on arithmetic over
money, together with TLC configurations and TLAPS proofs.

Paths below are relative to `src/backend/src/modules/` unless they say otherwise.

## 1. Inventory

### Orders (`orders/`)
*State*: `orders.status`, a state machine of nine statuses (`order-status.ts`);
lines with prices, titles and seller frozen at purchase. *Operations*: `create`
(prices lines, compares the stock, retries on a colliding number), `cancel` (buyer),
`updateStatus` (administrator). *Interacts with*: payments, which write the same
status. *Hard*: every handler reads the row, checks the transition, and writes
without a lock. *Correct when*: statuses follow `ALLOWED_TRANSITIONS`; nothing is
delivered for an order that is not paid; a cancelled order delivered nothing.

### Payments (`payments/payments.service.ts`)
*State*: one `payments` row per attempt, one `payment_events` row per notification
(unique per provider and event id). *Operations*: `initialize` (three transactions
around a network call), `handleWebhook` (record the event, judge it, apply it in one
transaction), `simulate` (sandbox), `refund` (network call, then one transaction).
*Interacts with*: providers, orders, the library (`reader_library`), commissions
(`sale_distributions`). *Hard*: overlapping attempts, notifications that are repeated,
reordered, duplicated under two event ids or contradictory, a notification that
arrives before the attempt has stored its transaction, a crash between recording
and handling, money captured for an order cancelled meanwhile, two refunds at once.
*Correct when*: one confirmation per order, with access and shares granted in the
same step; no share without a confirmed payment (règle n° 11); a notification is
never dropped; money is given back once; a refund withdraws all it granted.

### Providers (drivers; `payments/admin-payment-providers.service.ts`, `provider-config.service.ts`)
*State*: provider rows, encrypted credentials, the default provider (a setting).
*Operations*: configure, activate, set default, remove. *Hard*: default against
removal. *Correct when*: the default is a usable provider.

### Commissions (`commissions/`)
*State*: `commission_rules`; `sale_distributions`, frozen once per order line.
*Operations*: create, update and remove a rule; `freezeForOrder`, called inside the
transaction that confirms a payment; the pure functions `selectRule`,
`allocateProviderFee` and `computeDistribution`. *Hard*: rounding, caps, rules edited
while a sale is frozen, two partial updates of one rule. *Correct when*: amounts add
up to the centime and follow the formula; the narrowest rule in effect applies; a
stored sale never changes; a confirmed sale is never refused.

### Payouts (`payouts/`)
*State*: `payouts` (pending, approved, paid, cancelled) and the distributions each
claims (`sale_distributions.payout_id`). *Operations*: request; approve, reject, mark as
paid. *Interacts with*: refunds, which cancel distributions; row-level security, which
decides what rows a transaction sees. *Hard*: every handler judges what it read in one
transaction and writes in another, by identifier. *Correct when*: a distribution is paid
at most once, for money that left, never lost, and never paid once refunded.

### Library (`library/`)
*State*: `reader_library`, `downloads`. *Operations*: download (access, file, count, read,
record, send: an `await` each), samples with a rate limit. *Hard*: concurrent downloads
against the limit. *Correct when*: the limit is passed by no more than the overlap allows.

### Authentication (`auth/`)
*State*: sessions, one-time codes, verification links, counters of attempts.
*Operations*: register, follow or resend the link, log in, send and resend a code, verify
it. *Hard*: a code consumed twice or replaced while it is compared, counters read before
they are written. *Correct when*: a code is of single use, attempts are bounded, nobody
enters before the address is verified.

### Tenants (`tenants/`)
*State*: tenants, members and roles, versions of the distribution terms, the terms each
tenant accepted, the active tenant. *Operations*: create a tenant; invite, accept, change
role, remove; publish terms. *Hard*: two owners leaving at once, a role that changes after
the guard read it, two publications at once. *Correct when*: a tenant keeps an active
owner, only owners make owners, and one version of the terms is in force: the latest.

### Editorial workflow (`catalog/admin/`)
*State*: works (eight statuses, visibility, author, featured, soft deletion), formats,
files. *Operations*: create, update, remove, feature, upload. *Hard*: who may give which
status, judged on a row another request may write. *Correct when*: only the direction
publishes; public means published; a work and its author have one publisher.

### Preview (`preview/`)
*State*: status, page count and rendered pages of a format; in memory, the set of running
generations. *Operations*: generate in the background after an upload or at a visit;
announce pages by the rights of the visitor. *Hard*: a crash or a failure while pages are
replaced, a file replaced meanwhile. *Correct when*: every page announced exists and all
are of one file; a preview does not stay in preparation; rights only add pages.

### Setup and settings (`setup/`, `system/`, `settings/`)
*State*: the first superadministrator; key-value settings. *Operations*: first-run setup,
reset of the platform. *Hard*: two setups at once.

### The rest
The public catalogue, files (storage, validation, scan), mail, contact, activity log,
health, cryptography, configuration and the front end keep no state that another
handler's correctness depends on; `PROJECT.json` lists each with the reason it is left out.

## 2. Plan

| # | Modules | Subject | State |
|---|---|---|---|
| 1 | `Sale`, `OrderPayment`, `OrderPaymentProofs` | orders, payments, notifications, refunds; refinement of the promise of a sale | done |
| 2 | `Commission`, `CommissionProofs`, `Sums` | rules, selection, arithmetic, freezing | done |
| 3 | `Payouts`, `AfterSaleProofs`, `Sums` | requests and reviews against sales, refunds and row-level security | done |
| 4 | `Library`, proofs in `AfterSaleProofs` | counted downloads against the limit and refunds | done |
| 5 | `Auth`, `AuthProofs` | verification, passwords, codes and counters | done |
| 6 | `Team`, `Terms`, `AdministrationProofs` | members of a publisher; versions of the terms | done |
| 7 | `Editorial`, `EditorialProofs` | the life of a work | done |
| 8 | `Preview`, proofs in `EditorialProofs` | generation in the background, policy | done |
| 9 | `Providers`, `Setup`, proofs in `AdministrationProofs` | default provider; first superadministrator | done |
| 10 | the proof modules | what holds of one request at a time; claims, attempts, previews, rules, setups | done |
| 11 | `Sums`, `BackOfficeProofs`, and the modules above | sums of any length (fees, payouts), the components side by side, the extent of the findings | done |
| 12 | | creation of orders, sessions, categories and authors | left, see section 14 |

Composition: `OrderPayment` refines `Sale`; `Commission` explains the refusals
`OrderPayment` takes as a constant; `Payouts` and `Library` begin where `OrderPayment`
grants a distribution and an access, and repeat its grants and refunds as actions of
their own. The components of 3 to 9 share no row with one another, so `MCBackOffice`
follows one at a time (section 5). No module declares a RECURSIVE operator, so that each
can be proved about. Bounds on what overlaps are variables that `Init` chooses and no
step changes (`payoutLimit`, `readership`, `authLimit`, `teamLimit`, `editLimit`,
`providerLimit`): one run checks both what holds one request at a time and what holds
however requests overlap. Whether the database role is subject to the policies that payouts
meet is such a variable too (`rlsEnforced`).

## 3. `OrderPayment`: orders, payments, refunds

| Code | Variable |
|---|---|
| `orders.status` | `order` |
| `payments.status`, `provider_transaction_id` | `payment`, `transaction` |
| `reader_library.access_status` | `library` |
| `sale_distributions.payout_status` | `distribution` |
| `payment_events.processing_status` | `event` |
| the provider: its transaction, its notifications, the 200s it got, what it gave back | `charge`, `notice`, `acked`, `repaid` |
| requests in progress: what each has read and not yet written | `initialize`, `webhook`, `edit`, `refund` |

| Handler | Actions, in order |
|---|---|
| `initialize` | `ReadPayableOrder`, `FindInFlight`, `CreatePayment`, `DriverAnswers` or `DriverFails`, `CommitInitialize` |
| `handleWebhook` | `RecordEvent` or `RecordRejected`, `ReadPayment` (`Verdict`), then `CloseEvent`, `ApplyOutcome` or `AbortOutcome` |
| `cancel`, `updateStatus` | `ReadForEdit`, `WriteEdit` |
| `refund` | `ReadForRefund`, `FindPayment`, `CallRefund` or `RefundFails`, `CommitRefund` |
| the provider, `simulate` | `OpenCharge`, `Notify`, `Acknowledge`; `Simulate` |
| the process | `Restart` |

A handler is split where the code lets another run: between transactions, around a
network call, and between the unlocked read and the write of one transaction.
`MaxInFlight` bounds the requests in progress; at 1, handlers run one at a time.

What is abstracted: the choice of a provider (a constant per attempt); amounts (a
notification is for the expected amount, `exact`, or not); mails and the activity log;
the link from an event to its payment, written with the judgement in `ReadPayment`. A
notification refused by a real provider's driver has no event id and consumes none, so
only the simulated provider reaches `RecordRejected`. `refund` takes the latest confirmed
payment of the order; `AtMostOneConfirmed` shows there is at most one. `simulate` exists
only outside production. A confirmation can be rolled back by the unique constraints of
a second grant, and, for an attempt in `Refusable`, by the constraints `Commission` studies.

`Sale` is the abstract promise: an order is sold once, for money really captured;
money goes back only for a sold order; a sold order is withdrawn once, after money
went back, and never sold again. `OrderPayment` implements it by `SaleOf`, the sale as
the order's distributions tell it.

### Runs

One order of one digital and one printed line is enough, since handlers of distinct
orders share no row; two attempts, two event ids and two requests at a time are what
every race of the inventory takes. `Interchangeable` (event ids, refund requests) is
used by safety runs only. Deadlock is not checked: the system stops once its bounded
requests are spent.

| Run | Shows | Bounds |
|---|---|---|
| `overlap` | `TypeOK`, `AtMostOneConfirmed`, `ConfirmedIsServed`, `AccessMatchesClaim`, `PaidIsGranted`, `RefundedIsRevoked`, `NoImaginaryClaim`, `ImplementsSale` whatever the interleaving | 2 providers that settle a transaction once, 2 events, 1 edit, 1 refund, 2 in flight, 1 restart, one attempt refusable |
| `serial` | `SoldIsSettled`, `OneAttemptInFlight`, `OnlyAllowedTransitions`, `RefundedIsNotRepaid` for handlers that run one at a time | 1 simulated provider, 2 attempts, 2 events, 1 edit, 2 refunds, 1 restart |
| `fair` | `CapturedIsAnswered`: the notification of captured money ends in a sale or a closed event | 2 providers, 2 events, 1 edit, 2 in flight, no restart, no refund |

Fairness (`FairSpec`) is weak, per request: Node runs the continuations of the handlers
it started, the database answers, and a provider repeats a notification until it gets a
200. Buyers, administrators and providers that never start anything are allowed.
`CapturedIsAnswered` assumes no restart and no refused distribution because it is false
with either: see the findings `answered_not_closed` and `sale_refused_for_fee`.

### Findings

Each is a run whose only property is what a comment, a message or a document says.

| Run | What the code says | What it does |
|---|---|---|
| `paid_then_cancelled` | cancelling needs no clean-up, the order was never paid | a payment confirmed between its read and its write leaves the access |
| `answered_not_closed` | an event already received is already handled | after a crash it was received only, and nothing handles it |

Two more disagreements have no run of their own. With simulated providers two
contradictory outcomes, judged before either is applied, leave a distribution without a
confirmed payment (règle n° 11): put a provider into `Simulated` in
`OrderPaymentOverlap.cfg`, and `NoImaginaryClaim` fails. And `RefundedIsNotRepaid`, which
`serial` checks, fails when two refunds overlap: both reach the provider.

Of the other properties of `serial`, `OneAttemptInFlight` and `OnlyAllowedTransitions` fail
in the same way when requests overlap (`initialize` looks for an attempt and creates one in
two transactions; every writer of a status judges a row it read earlier): raise `MaxInFlight`
in `OrderPaymentSerial.cfg` to see it.

### Proofs (`OrderPaymentProofs`)

From `OrderPaymentAssumption` and `NoneIsNoNotice` only, for any orders, lines, attempts,
events, requests and restarts: `TypeCorrect`, `OneConfirmation`, `ConfirmationServed`,
`AccessWithClaim`, `PaymentOpensDelivery`, `RefundWithdraws`, and `SaleImplemented` (the
refinement, initial states and steps). The inductive invariant is
`TypeOK /\ HandledIsNotified /\ RequestsOK /\ SaleInv /\ MoneyIsReal`. The safety properties
are not inductive alone, for two reasons. A request in flight carries what it has read:
a refund that has found its payment will write `refunded` whatever happens meanwhile, so
`SaleInv` counts the order it holds among those with a confirmed or refunded payment,
and names that payment the seller of the order (`Seller`). And the refinement needs the
money: a notification of success for the exact amount, from a provider or from
`simulate`, is for a captured transaction (`MoneyIsReal`). The central step is that
`ApplyOutcome` grants only an order without any grant (`AlreadyGranted`, the unique
constraints), so that no lock is needed for the first six theorems.

`MoneyIsAlwaysBehind` is then drawn from the refinement alone: nothing is sold without
captured money, repaid without a sale, or withdrawn before money went back, since
`MoneyIsBehind` is inductive for `Sale`.

`ClaimsAreReal` proves `NoImaginaryClaim` where every provider settles a transaction once
(`Simulated = {}`, as in production), whatever overlaps: a notification reports what became
of its transaction (`NoticeIsCharge`), and `CommitInitialize`, which overwrites the status of
the attempt unread, comes before any verdict on it (`StoredIsInitialized`,
`AppliedIsStored`), so nothing can contradict the success that granted the lines
(`ConfirmedIsSettled`). Without that hypothesis it is false, as said above.

`AnsweredIsCutOnlyFor` gives the extent of `answered_not_closed`: an event answered 200 is
closed or being handled, unless the API restarted while it was, or its transaction was
refused, because the order had been granted already or in `Refusable`. The row of an event
and the request that handles it go together (`EventFollowsRequest`); what refused a
transaction stays (`CausesStay`), since no step takes a grant back to none (`GrantsStay`).

The theorems in `WhenSerial` assume `MaxInFlight = 1`, simulated providers and restarts
included. They prove the four properties of `serial`, `NoImaginaryClaim`, and what the code
says of a cancellation (`CancelledIsUnserved`): the overlap that `paid_then_cancelled` shows
is its only cause. `SerialInv` says that one request is in progress (`Alone`), and of what it
read that it still holds: the order is still payable, the way still clear, the attempt still
`initialized`, the verdict and the transition still allowed, the payment to refund still
confirmed (`PayableStill`, `ClearStill`, `CalledIsInitialized`, `VerdictStill`, `EditStill`,
`RefundStill`). A restart only ends requests, so it preserves all of them.

Only model-checked: the liveness of `fair` (out of the prover's reach).

## 4. `Commission`: rules and frozen sales

| Code | Definition |
|---|---|
| `commission_rules`, rows removed | `rule`, `deleted` |
| `sale_distributions` of the sale: computed, then stored | `rows`, with `freeze` |
| the lines and the fee of the confirmed payment | `sale` |
| `update` between its read and its write | `update` |
| `create`, `update`, `remove` | `CreateRule`; `ReadForUpdate`, `WriteUpdate`; `RemoveRule` (`Forget`: `ON DELETE SET NULL`) |
| `selectRule` | `InEffect`, `OfAuthor`, `OfTenant`, `OfType`, `General`, `SelectRule` |
| `allocateProviderFee`, `computeDistribution` | the operators of those names, `Rounded`, `Commission` |
| `freezeForOrder` | `ReadRules`, then `InsertRows` or `RollBack` |
| CHECK constraints | `SaleDistribution`, `ChecksOK` |

Amounts are integers in hundredths, commission values in ten-thousandths, the scales of
the columns; `toDecimalPlaces(2)` is `Rounded` (half up, all operands being natural). Rules
that came into effect at the same time are taken in any order, as the query states none.
One sale is enough: sales share only the rules, which they do not write. Rules removed
with their tenant or author (`ON DELETE CASCADE`) are `RemoveRule`. The twenty significant
digits of decimal.js are not modelled.

| Run | Shows | Bounds |
|---|---|---|
| `commission_amounts` | `TypeOK`; `SaleIsBalanced`; `OnlyFeesAreRefused`: the cap works for every rule; `FeesAreShared`: the parts add up to the fee and are proportional; `CommissionIsDue`: the formula in exact arithmetic | orders of 1 to 3 lines, unit prices 0, 1, 2 and 5 hundredths, 1 or 3 copies, fees 0, 1, 2 and 7, 16 rules or none |
| `commission_rules` | `RulesAreLegal` although updates overlap; `NarrowestRuleApplies`; `SoldForGood` (règles n° 13 and 14) | 2 rules of 4 scopes and 3 periods (precedence compares rules in pairs), 2 dates, 2 overlapping updates out of 5, lines of 2 tenants and authors |
| `sale_refused_for_fee` | finding: rounding leaves the last line a negative part, refused by the CHECK | as `commission_amounts`, no rule |

Two overlapping updates may leave a rule that ends before it starts: each checks its end
against the beginning it read, and no constraint of the database compares them. The
form of a rule that `RulesAreLegal` promises is therefore its scope and its value.

Small prices are where rounding bites: every remainder of a division by totals up to 45
occurs, as do free lines, fees above a line and above the whole order, and commissions
below, at and above the net. `SaleIsNotRefused` fails for a second reason, without any fee:
a rule removed between `ReadRules` and `InsertRows` makes the foreign key refuse the rows.
A refused sale is the `AbortOutcome` of `OrderPayment`: the
money is captured, the event stays `received`, and the provider's retry is answered 200.

### Proofs (`CommissionProofs`)

From `CommissionAssumption` and `NoneIsNothing` (`None`, a NULL, is no rule, and no author,
tenant or type of tenant): `CommissionTyped`, `RulesStayLegal`, `CapHolds`, `SalesBalance`,
`SalesAreForGood` and `NarrowestRuleIsApplied`. The invariant `Inv` adds to the properties that
a pending update names a rule and a patch (`UpdatesOK`) and how a computed row's net and
author's part derive from its other columns (`RowsDivided`). No part of the fee is known to be
natural before the row is inserted, hence the form of `OnlyFeesAreRefused`: a line with a
natural part of the fee is always accepted (`DistributionLegal`); the CHECK then gives the
stored rows their types, and `SalesBalance` follows. `NarrowestRuleIsApplied` rests on the scope
of a rule being one (`RulesAreLegal`): the four queries of `selectRule` then divide the rules in
effect by narrowness (`ScopesOfLine`), and the first that is not empty holds the narrowest
(`NarrowestSelected`).

`FormulaIsFollowed` is the arithmetic of `CommissionIsDue` for every line, rule and part of
the fee that is a whole number of hundredths. That every part is one, the last line's
included, that the parts add up to the fee, and how far rounding takes each from its
proportion, are facts about sums over an order of any length (`FeeIsAllocated`, from
`RoundedIsNearest`, `PartsAddUp`, `PartIsBounded`). They are carried to the stored rows by
`SaleAllocated`: from their computation on, the rows are those of the lines sold, with the
parts `allocateProviderFee` gives, and only `ReadRules` changes a sale. Hence
`FeesAreSharedOut` and `CommissionsAreDue`, the two properties of `commission_amounts` about
the fee and the formula.

`ShortSalesAreNotRefused` gives the extent of `sale_refused_for_fee`: a sale is refused only
because a rule that was read has been removed, or because the order has three lines or more
and the last line's part came out negative, by at most half a centime for each other line.

`Sums` holds the lemmas about sums over a finite set. The library's induction theorems take
an operator, which the provers cannot instantiate; `SubsetInduction` takes instead the *set*
of the subsets of which a fact holds, and is proved from the least element of a set of
naturals (`LeastNumber`, by `WFMin`). The recursion behind `SumFunctionOnSet` is unfolded
once with it; the rest cites only that a sum is any one of its terms and the sum of the
others (`SumTakes`).

## 5. `MCBackOffice`: the components that share no row

`back_office` checks the nine components below in one run. `focus`, chosen by `Init`, names
the one a behaviour follows; the others stay where they began, since their interleavings
would multiply states that no property relates. `BackOfficeTypeOK` joins their type
invariants. `BackOfficeProofs` shows that the run says what it seems to: no step of one
component reaches the variables of another, so the whole implements the nine specifications
(`ComponentsKeepTheirSpecs`), and every theorem about a component holds of it beside the
others. `BackOfficeTyped` is the first use: the nine type theorems give `BackOfficeTypeOK`.

| Component | Properties of `back_office` | Bounds |
|---|---|---|
| `Payouts` | `PaidIsTransferred`, `NothingIsLost`, `PaidForGood`, `CancelledIsPaidIfCounted`, `MoneyBalances` (equality: one at a time) | 3 distributions of 2 orders (nets 2, 3, 4, threshold 4, with a delay), 2 payouts, 2 reviews, 1 or 2 in progress, a role subject to the policies and one that bypasses them |
| `Library` | `LimitHolds` | 3 downloads, limits 0 (none), 1, 2, 1 to 3 in progress |
| `Auth` | `CodeOpensOnce`, `OnlyVerifiedEnter`, `AttemptsAreBounded` | 2 visits, 2 codes, 1 attempt before blocking, 1 or 2 in progress |
| `Team` | `OwnersMakeOwners`; `OwnerRemains` one at a time | 2 memberships, 2 users and a platform administrator, 2 requests, 1 or 2 in progress |
| `Terms` | `LatestIsInForce` | 2 publications, 1 creation, 3 versions, from none or one |
| `Editorial` | `PublicIffPublished`; `OnlyManagersPublish` one at a time | 1 work, 2 edits, 4 statuses, 1 visibility to ask for, 1 or 2 in progress |
| `Preview` | `AnnouncedPagesExist`, `RightsOnlyAdd`, `PreviewSettles` | files of 2, 1 and 3 pages, 2 uploads, 2 pages rendered at most, caps 0 to 2, 1 restart |
| `Providers` | `DefaultStands` (removal: one at a time) | a provider without credentials, one with one, one without driver, 2 requests, 1 or 2 in progress |
| `Setup` | typing (its property is a finding) | 2 accounts, 2 requests |

Two of each actor is what a race takes; a third distribution lets one payout overlap two
others' shares, a third download separates "one over the limit" from "any number", a third
file makes a generation start, be overtaken and start again with fewer or more pages. One
attempt before blocking is enough, since counters are compared, never read as numbers; the
bound of `AttemptsAreBounded` is stated for any `MaxAttempts`. The four statuses contain the
submission, the review and the publication that the rules single out; the others are
written under the same guard as `published` or `draft`. Deadlock is not checked: requests
are bounded. A restart is an action of `Preview`, which keeps a set in memory; elsewhere a
lost request (`LoseVisit`, `LoseDownloads`, `RefuseTeamRequest`, ...) is what a restart does.

Fairness is `PreviewFairness` alone: Node runs the generation it started, ten minutes pass
without a write, and readers come back to a preview in preparation. No fairness is assumed of
uploads, failures, the team or restarts. All other properties are safety.

Three findings belong to these components:

| Run | What the code says | What it does |
|---|---|---|
| `withdrawal_refused` | a request withdraws the whole available balance | the shares are read outside any RLS context, which shows the deployed role none: every request is refused |
| `two_superadmins` | two setups launched at once must not make two superadministrators | both read nobody under Read Committed, both commit |
| `author_elsewhere` | a work has the publisher of its author, always | `update` writes the author it is given and leaves the publisher |

The role of the database. `docker/postgres/init/01-app-role.sh:36-43` creates the API's role
`NOSUPERUSER NOBYPASSRLS`, and `docs/DEPLOYMENT.md:66-69` and `docker-compose.yml:29-31` say
that the API connects with it and must: every policy binds. `Team` and `Editorial` run with
`PoliciesBind` and `WorkPoliciesBind` true. `Payouts` runs with both settings, because under
the deployed one there is little to see: `eligibleSaleDistributions`
(`payouts/payouts.service.ts:219`) opens no context, `sale_distributions_select` then shows it
no row, and every request is refused (`withdrawal_refused`; `NothingIsWithdrawnUnderPolicies`
proves that no payout is ever created). The balance displayed to the author is read with a
context (`commissions/commissions.service.ts:242`), so shares are shown as available and
refused. Opening a context for that read would not be enough: `sale_distributions_update`
(migration `20260829010000`) lets only the platform write, so the claim would write no row.

All that the payout properties say of claims, reviews and transfers therefore arises only for a
role that bypasses the policies, which the deployment document forbids. For such a role `refund`
cancels the shares still `available`, those a pending payout claims included, and `markPaid`
writes `paid` on whatever the payout claims: a share claimed, then refunded, is paid all the
same, with an amount that counts it. `CancelledIsPaidIfCounted` says, however requests overlap,
that this is the only way: the payout claimed the share, counted it and was not rejected.

Properties stated in the modules without a standing run: `OnlyManagersUnpublish` (`Editorial`)
states the comment of `admin-works.service.ts:168-171` and fails with a single edit: the author
of a published work may give it back the status `draft` or `submitted`, since only the status
asked for is judged. `PreviewIsCurrent` (`Preview`) fails when a file is uploaded while the
preview of the earlier one is being generated: the call finds the format in `running` and
returns, and nothing asks again.

What holds one request at a time fails when two overlap, and each is a window between a
check and a write: two payouts claim and transfer the same shares (`TransferredOnce`, the
equality of `MoneyBalances`), two owners leave together (`OwnerRemains`), an unchanged
`published` written late undoes an unpublication (`OnlyManagersPublish`), a provider becomes
the default while it is removed (`DefaultStands`). So it is in section 3 with the four
properties of `serial`: two attempts at once (`OneAttemptInFlight`), an order paid, then set
back to awaiting payment or cancelled (`SoldIsSettled`, `OnlyAllowedTransitions`), two refunds
sent (`RefundedIsNotRepaid`). These properties do not catch an overlap, and the hazards that
are overlaps name only properties that do, or none. Dropping `Limit = 1` from the properties,
or raising `MaxInFlight` in `OrderPaymentSerial.cfg`, shows the traces.

## 6. `Payouts`

| Code | Variable |
|---|---|
| `sale_distributions.payout_status`, `payout_id` | `share`, `claim` |
| `calculated_at` against `payoutDelayDays` | `ripe` |
| `payouts`: status, and the shares summed in its amount | `payout` |
| requests in progress: what each read | `request`, `review` |
| money that left by bank transfer, outside the platform | `transferred` |
| whether the database role is subject to the policies | `rlsEnforced`, chosen by `Init` in `RlsSettings` |

| Handler | Actions |
|---|---|
| `request` | `ReadEligible` or `RefuseRequest`, `CommitRequest` |
| `approve`, `reject`, `markPaid` | `ReadForReview`, then `Approve`, `Reject` or `MarkPaid` |
| `freezeForOrder`, `refund`, time | `SellOrder`, `RefundOrder`, `Ripen` |

`request` sums what it read, then claims those rows by identifier, so it may take over a
share another request has just claimed; `payout[p].lines` remembers what was summed and
`claim` what is held, and the properties compare the two. `EligibleSaleDistributions` is
`Withdrawable`, or nothing where the policies bind (section 5). Mails and lists are left out.

Proofs (`AfterSaleProofs`): `PayoutsTyped`, `SettledIsCounted`, `RejectionReleases`,
`SharesArePaidForGood` hold for any overlap. `PaidIsTransferred` and `NothingIsLost` are
inductive with `ClaimsStand` (what a payout claims is in its amount, and a payout exists only
from its commit on) and `ReviewsKnow`. `MoneyLeavesOnce` needs `OneAtATime`: the request in
progress is alone, so what it read still holds, and what a standing payout sums it claims.

`MoneyIsAccountedFor` proves `MoneyBalances` with the lemmas of `Sums`: the shares marked as
paid are each counted by a payout that has left, so they are worth no more than what left
(`SumOfParts`), whatever overlaps. One request at a time the two are equal: every share
that a payout counted is marked (`LeftIsPaid`), and no share is counted twice.
`OnlyCountedIsPaid` proves `CancelledIsPaidIfCounted`: a share that a refund cancelled is paid
only by a payout that claimed it, counted it and was not rejected, since a rejection releases
all that its payout claims. `NothingIsWithdrawnUnderPolicies` gives the extent of
`withdrawal_refused`: where the policies bind no payout is created, no share claimed and no
money sent, whatever the shares, the delay and the threshold (`NothingDoesNotSuffice`: an
amount of no shares is not above zero).

## 7. `Library`

`download` is followed `await` by `await`: `CheckAccess`, `FindFile`, `CountDownloads`,
`RecordDownload` or `FailToRead`, `SendFile`. `recorded` stands for the rows of `downloads`,
`access` for `reader_library.access_status`, `downloadLimit` for the setting. A download that
was counted before a refund is still served: nothing in the code says otherwise. The proof
(`DownloadsAreLimited`, in `AfterSaleProofs`) strengthens `LimitHolds` with the downloads
counted and not recorded yet: recorded plus counted stay below the limit plus the number in
progress (`LimitInv`), since the last one admitted saw the count below the limit.

## 8. `Auth`

| Code | Variable |
|---|---|
| `users.email_verified_at`, `status` | `verified`, `enabled` |
| `email_verifications`, `login_otps` | `link`, `codes` (numbered in the order of sending), `lapsed`, `sent` |
| `login_attempts`, per scope | `counter` |
| requests in progress | `visit` |
| history: wrong codes of the window, sessions opened by each code | `tried`, `opened` |

| Handler | Actions |
|---|---|
| `login` | `Login`, `WrongPassword` or `RightPassword`, `FindPendingCode`, `Hit`, `Count`, `DropCodes`, `IssueCode` |
| `resendLoginOtp` | `Resend`, then as above |
| `verifyLoginOtp` | `Verify`, `RightCode` or `WrongCode`, `Consume`, `Admit` |
| `verifyEmail`, `resendVerification` | `FollowLink`, `ResendLink` |
| time, operators, failures | `LapseLink`, `LapseCode`, `CloseWindow`, `SwitchAccount`, `LoseVisit` |

`hit` reads the window (`Hit`) and writes it (`Count`) in two steps; `send` deletes the codes
it sees and inserts its own at one commit (`DropCodes`, `IssueCode`). The counter by address
stands for the one by IP, written by the same calls. Hashes are left out: a code matches its
own number only.

Proofs (`AuthProofs`): `AuthTyped`; `SessionsAreVerified` by `EntryInv` (a code exists, is
sent or is consumed only once the address is verified); `CodesOpenOnce` by `SingleUse`: the
sessions a code opened, with the visits that found it right and have not entered yet
(`Holders`), are at most the visits in progress, and a code that can still be found has
opened nothing.

`AttemptsBounded` holds for every `MAX_ATTEMPTS` and any number of overlapping visits. Of the
visits that may still count a wrong code, those that found no window (`Stale`) will restart
the counter at 1, the others (`Trying`) will increment it. `TriesInv` keeps a budget: the
codes already tried, those left to the present round (`Round`: up to the limit one visit at a
time, then every place not held by a stale visit), and those of the rounds that the stale
visits will open (`Rounds`), each with one place more than the one before. Twice their sum
never exceeds `authLimit * (2 * MAX_ATTEMPTS + authLimit - 1)` (`Budget`), hence the bound of
`AttemptsAreBounded`: `MAX_ATTEMPTS` itself when visits do not overlap, more when they do,
since the code reads the counter before it writes it.

## 9. `Team`

`member` is `tenant_members`; `ask` a request from the guard that resolves the caller's role
(`ResolveCaller`) to its check (`CheckRole`, `CheckRemoval`) and its write (`WriteRole`,
`WriteRemoval`, or `Invite`); `AcceptInvitation` is the invited member's. The five roles that do
not manage the team are one (`editor`). `Sees`, `MayInsert` and `MayWrite` are the policies of
the table in their latest form, which judge the caller again at the write where `PoliciesBind`
is true: `tenant_members_insert` lets the founder insert an owner's row of its own (migration
`20260825000000`), `tenant_members_update` lets an invited member accept (`20260829020000`,
`AcceptInvitation`), and `tenant_members_delete` lets anyone leave (`WriteRemoval`). So a
founder removed between the guard and the write of an invitation of itself may come back as an
owner: the exception in `OwnersMakeOwners`, for requests that overlap. It takes a third
membership, which `back_office` does not give: a run of `TeamSpec` alone with three (10,075,980
states) passes `TeamTypeOK`, `OwnerRemains` and `OwnersMakeOwners`, and the theorem holds for
any number.

Proofs (`AdministrationProofs`): `TeamTyped`, `AnOwnerRemains`, and `OwnersMakeOwnersAlways`,
which assumes `PoliciesBind`. Both use `OneTeamRequest`: when requests run one at a time the
role read for the caller still stands and what was checked of the row still holds. When they
overlap, that who makes an owner manages the team at that moment, or is the founder, rests on
the policies alone: without them it is false. What the code itself ensures, policies or not, is
`OwnersComeFromOwners`: an owner is made by a request whose caller was an owner, or the
platform, when the guard read its role (`OwnersAsked`), and still is one request at a time.

## 10. `Terms`

A publication is one transaction of three statements: `ReadLatest`, `Deactivate` (which waits
for rows another transaction has updated), `Publish` (refused by the unique version:
`RollBackPublication`). `ReadTerms` and `CreatePublisher` are the creation of a publisher that
accepts the version it read. `LatestAlone` is proved from `VersionsFollow`: versions are
`1 .. n`, only `n` is in force, and a publication that may still insert `n + 1` has locked
what is in force; one that read an earlier version fails on the constraint.

## 11. `Editorial`

`work` is one row of `works`; `edit` a request between its read and its write; `chosen`
remembers whether the last visibility written was asked for, `writer` the role that wrote
last. Roles are the direction (`manager`: owner, admin, platform), `editor`, `author` (of its
own works), and the others. `CanWriteWork` is `assertCanWriteWork` and, where
`WorkPoliciesBind`, the policies of the table at the write. Titles, slugs, categories and
translations are left out. `VisibilityFollowsStatus` is inductive as it stands: every write of
a status writes the visibility too. `OnlyManagersPublishAlways` needs `OneEdit`: alone, what
the role was allowed still applies to the status of the row. `StatusesAreGivenAlways` says
the same of every status: the direction gives any, an editor begins the review of what was
submitted, and the author of the work gives `draft` or `submitted` whatever the status was.
So an author who takes back its published work is the only way `OnlyManagersUnpublish` fails
while edits run one at a time.

## 12. `Preview`

`files` counts the full files of a format; a page is the file it was rendered from;
`generation` is the background task and `running` the set in memory. `generate` is
`ReadLatestFile`, `MarkPending`, `OpenFile`, `ClearPages`, `RenderPage` for each page,
`PublishPreview` or `FailPreview`, `LeaveRunning`; it starts from `TriggerPreview` (after
`StoreFile`) or `VisitPreview`. `ResolvePreviewPolicy` is `resolvePreviewPolicy`, checked for
every visitor, work and settings (`Visitors`, `PolicyWork`, `PolicySettings`) in every
reachable preview.

Proofs (`EditorialProofs`): `PreviewTyped`, `NoPageIsMissing` and `RightsNeverSubtract`, for
files of any length, any caps and any number of uploads and restarts. `PreviewInv` follows
the task statement by statement: from `MarkPending` until the last page is written the format
is not ready (`HiddenWhileReplaced`), the pages rendered so far are the first of the file
that was read (`RenderedSoFar`), and a ready format has exactly the pages of one generation
(`ReadyIsComplete`), even if a file was uploaded meanwhile. `RightsNeverSubtract` needs no
more than the type invariant: the comparison is `resolvePreviewPolicy`'s. `PreviewSettles` is
liveness and model-checked only.

## 13. `Providers` and `Setup`

`Providers`: `removed`, `active`, `missing` (required credentials not recorded) and `default`
(the setting); a request finds a row (`FindProvider`), checks it (`CheckDefault`,
`CheckRemove`) and writes (`SetDefault`, `RemoveProvider`, `UpdateStatus`, `SetCredential`).
`TheDefaultStands` is proved with `JudgedStill`: credentials are never erased, so what
`setDefault` checked holds at its write however requests overlap; that a default is not
removed needs one request at a time. A default may be deactivated: the code allows it.

`Setup`: `OpenSetup` and `StillNone` are the two readings of `createSuperadmin`,
`CreateSuperadmin` its commit; `AskWipe` and `WipePlatform` the reset. The property a run checks
is the finding above. Proofs (`AdministrationProofs`): `SetupTyped`; `SuperadminsAreBounded`,
that there are never more superadministrators than requests at once (`SuperadminsInv`: those
created, with the requests that saw nobody and have not committed, `Convinced`); and
`OneSuperadminWhenSerial`, that the comment is true for one request at a time. Both assume that
the requests are finitely many, and the second that they are at most one.

## 14. What is not modelled, and why

- The creation of orders: prices are copied, numbers are drawn at random with a bounded
  number of retries, the stock is compared and never reserved. There is no state for a later
  step to contradict, beyond the unique constraint that makes a request fail.
- Sessions after they are opened, changes of profile and password, the active tenant, settings,
  tenant settings: independent writes of one row or cookie.
- Formats, covers, translations, categories, authors, contact, catalogue: single-row writes
  and reads without a state machine.
- The counter of samples (`sample-throttle.service.ts`): one synchronous function over one map.
- Bodies of provider drivers and payout drivers, storage, scan, rendering, mail,
  cryptography: I/O, taken as succeeding or failing where a handler waits for them.
- The other row-level policies: with the contexts the handlers open they hide no row those
  handlers rely on. Policies are a parameter of each module they matter to.
- The front end (`src/frontend`, about half of the implementation's lines): pages over
  the API. No state of it is relied upon by the API.

## 15. What is proved, and what is only model-checked

The theorems hold for all values of the constants under the named assumptions of their
modules. Those with a further hypothesis state it:

| Theorem | Hypothesis | Without it |
|---|---|---|
| `ClaimsAreReal` | `Simulated = {}`: every provider settles a transaction once | false, unless requests are serial |
| the six in `WhenSerial` of `OrderPaymentProofs` | `MaxInFlight = 1` | false (`ClaimsAreRealWhenSerial`: see `ClaimsAreReal`) |
| `NothingIsWithdrawnUnderPolicies` | `rlsEnforced`, in the statement | false: withdrawals then work |
| `OwnersMakeOwnersAlways` | `PoliciesBind` | false when requests overlap; `OwnersComeFromOwners` is what remains |
| `SuperadminsAreBounded` | finitely many requests | no bound to state |
| `OneSuperadminWhenSerial` | one request | false: the run `two_superadmins` |
| `FormulaIsFollowed` | typed rules, and a part of the fee that is an integer | discharged in `CommissionsAreDue` |

`TransferredOnce` (a theorem only), `OwnerRemains`, `OnlyManagersPublish` and the removal in
`DefaultStands` carry their condition (one request at a time) in the property itself.

Every invariant and every action property of a passing run is stated by a theorem. Of the six
findings, each a property that a run refutes, four have a theorem that says how far the code
departs (`AnsweredIsCutOnlyFor`, `ShortSalesAreNotRefused`, `NothingIsWithdrawnUnderPolicies`,
`SuperadminsAreBounded`), and two that they need an overlap (`CancelledUnservedWhenSerial`,
`OneSuperadminWhenSerial`); `author_elsewhere` takes one request and needs none.

Only model-checked: `CapturedIsAnswered` and `PreviewSettles`, liveness under fairness. The
induction that sums need is proved over sets (`Sums`); no other property needs one.
