# FlipTrybe Ads Campaigner: formal models

TLA+ models of the parts of this repository that move money or decide who may:
the campaign wallet and the life of a campaign, orders of airtime, data, bills,
printed PINs, phone numbers, growth and digital access, foreign-exchange
settlements, payouts, guests' purchases, invoices, vouchers and rewards. Each is
model-checked with TLC on small instances, and its main safety properties are
proved with TLAPS for every instance. What is left out, and why, is listed at
the end.

- [1. The system](#1-the-system)
- [2. What is modelled](#2-what-is-modelled)
- [3. The runs, their bounds and what they show](#3-the-runs-their-bounds-and-what-they-show)
- [4. Fairness](#4-fairness)
- [5. The proofs](#5-the-proofs)
- [6. Findings](#6-findings)
- [7. What is not modelled](#7-what-is-not-modelled)

## 1. The system

A TypeScript monorepo. `apps/api` is a NestJS server with one service per
domain under `src/modules`; `apps/worker` runs BullMQ jobs and schedules;
`apps/web` and `apps/admin` are Next.js front ends with no state of their own.
`packages/*` are libraries (the Prisma schema, the ledger arithmetic and the
saga runner of `payments`, the provider adapters of `providers`, `auth`,
`notifications`, ...) and `services/*` domain logic without I/O (trust engine,
growth orders, digital access). PostgreSQL holds all durable state. Redis holds
the job queues, and the API goes on without it: a job that cannot be queued is
dropped and the drop is logged.

Components interact in four ways:

- **through rows.** `Wallet`, `LedgerEntry`, `VtuOrder`,
  `SettlementInstruction` and the others are read and written by HTTP requests,
  jobs, scheduled sweeps and webhook handlers of several processes at once.
  The isolation level is PostgreSQL's READ COMMITTED (only digital access asks
  for Serializable), so that a value read before a lock, or in an earlier
  transaction, may be stale when it is used. Row locks (`FOR UPDATE`) are taken
  by managed ads, digital access and platform; other spenders take none.
- **through unique keys.** `LedgerEntry.idempotencyKey`,
  `(provider, providerEventId)` of webhook events, and the keys of intents,
  holds and invoices are what makes a retry harmless: a second `create` with
  the same key fails its transaction, a second `upsert` changes nothing.
- **through queues**, from the API to the worker.
- **with providers outside** (Korapay, the VTU providers, Fincra), by calls
  whose replies can be lost and by webhooks that can be repeated, reordered or
  lost.

Every amount a workspace owns is a fold over the ledger
(`calculateAvailableBalance`: CREDIT + RELEASE + REVERSAL - DEBIT - HOLD); no
balance is stored.

| Component | State it keeps | Operations | What makes it correct |
| --- | --- | --- | --- |
| Campaign funds | ledger, holds, invoices, payment intents, webhook receipts | adjust, hold, release, capture, invoice, pay, verify, webhook | no money is spent twice, a hold is settled once, a payment is credited once, an invoice is paid exactly |
| VTU orders | orders, charges, refunds, jobs, processed events | purchase, poll, sweep, webhook, operator resolution, reversal | refunded at most once, REVERSED means refunded, DELIVERED means delivered, every order ends |
| Settlement | instruction, ledger entries, webhook events | create, submit, poll, webhook, reconcile | FAILED gives back one amount, COMPLETED means paid and arrived, what is in flight is compared with the provider |
| Campaign lifecycle, approvals, automation | campaign status, placement, report, reviews, the hold of a submission | submit, control, review, place, report, expire, settle the hold | a review is EXECUTED only for an approved campaign, a settled hold is backed by entries, an expired campaign ends |
| Virtual numbers | orders, charges, numbers, the provider's leases | buy, renew, compensate, release, expire | given back exactly when FAILED; an expired number is released |
| Digital access | requests, charges, approvals | request, update, ask for a refund, decide, execute | a refund takes two operators and never touches what was fulfilled |
| Financial products | quotes, remittances, withdrawals, exceptions | quote, send, withdraw, webhook | the amount stays held while the payout may have happened; a quote pays once |
| Foreign exchange, RMB | RMB orders, their reversals, Sogo's events | order, submit, webhooks | given back only if Sogo rejected, cancelled or refunded |
| Guest checkout | guest transactions, payments | pay, verify, fulfil, retry | nobody is served unpaid; a payment is noticed |
| Vouchers | vouchers, claim links, credits, PINs | create, share, claim, reveal, redeem | credited once |
| Invoices, payment links | invoices, links, payments, receipts | send, mark, void, pay, webhook | paid online only by a completed charge of its own |
| Rewards | campaigns, tasks, slots, entitlements, credits | submit, verify, claim a slot, fulfil, resolve | every entitlement has a slot; credited once |
| Growth services | orders, reservations, the supplier | order, refresh, update | an order that ended has the entries of its status |
| Telecom gateway | orders, reversals | buy, ask for the status | given back at most once and only on the provider's word that it failed |
| Webhooks | receipts | route, apply | each event is applied by the model of the component it is for |
| VTU quotes and routing, digital value, trust engine, sessions, marketplace, notifications, provider administration, views, stubs | see section 7 | | |

`PROJECT.json` ("components") names the source files of each, and ("hazards")
the places where a test would hardly reach: which properties watch over each,
or why none does yet.

**What is hard here.** Interleavings of requests over one row: the check of a
balance and the entry that spends it; the read of a status and the write that
follows a call to a provider. Replies lost, webhooks repeated, reordered and
refused. Crashes between two database calls that belong together. Retries of
what was done already. Jobs that were never queued. All of it is invisible to
unit tests that await one call after the other.

## 2. What is modelled

One module per component. In each, a process of `Procs` is one running handler
(a request, a job, a webhook delivery); `pc` says how far it is and `job` what it
was asked for and what it read. A step of the model is one transaction or one
call made outside a transaction: everything the code awaits by itself can be
interleaved with everything else. `Crash` may strike between any two steps; it
returns a handler to `idle` and drops its locks, as the end of a database
connection does. The variables named external are the provider's own record.

### CampaignFunds, WalletAccount

`CampaignFunds.tla` is the money part of `managed-ads.service.ts`, for one
workspace and one currency.

| Model | Code |
| --- | --- |
| `ledger` | the `LedgerEntry` rows: a total for each kind, and the keyed entries by key |
| `hold`, `invoice`, `intent` | `CampaignBudgetHold`, `CampaignInvoice`, `PaymentIntent` |
| `receipt` | the `EventOutbox` row a Korapay webhook is recorded in |
| `walletLock`, `intentLock` | `SELECT ... FOR UPDATE` of `lockWallet`, `lockPaymentIntent` |
| `Begin...` | what a handler does before its transaction: unlocked reads, early returns for a known key |
| `LockIntent`, `LockWallet` | the locks, in the order the code takes them |
| `Admit`, `Refuse` | the checks under the lock (`assertWalletCanPay`, the hold still ACTIVE, the amount due) |
| `Commit...`, `RecordStatus`, `AlreadyCredited`, `MarkReceipt` | the writes of the transaction, and the receipt written after it |
| `BeginPurchase`, `CommitPurchase`, `ReversePurchase` | the VTU debits and refunds on the same wallet, which take no lock |
| `GatewaySettles`, `events` | Korapay (external) |

`WalletAccount.tla` is the abstract specification: an account with deposits,
withdrawals, reservations given back or spent once, and payments banked once,
where no withdrawal or reservation takes more than there is. `ImplementsAccount`
states that the requests, with their locks, stale reads and crashes, implement
it; the refinement mapping is the balance without purchases and their refunds,
the holds, and the intents that are credited.

Abstractions: amounts are small naturals. The statuses CANCELLED and FAILED of
the gateway are one value, since `completePaymentIntent` treats them alike.
Re-posting a keyed entry is a no-op (`upsert`); unkeyed entries are capped by
`LedgerCap`. Purchases and their refunds are modelled here only as what they do
to the ledger; their order is the next module.

### VtuOrders

`VtuOrders.tla` is a VTU order through `vtu.service.ts`, the worker's
`vtu-processor.ts`, the queue producer, the saga runner of `packages/payments`
and the adapters' way of reporting outcomes.

| Model | Code |
| --- | --- |
| `order`, `charge`, `refunds` | `VtuOrder.status`, `VtuWalletCharge.status`, the REVERSAL entries |
| `polls` | attempts left of the `poll_status` job in Redis |
| `stale` | `updatedAt` is older than the sweep's window |
| `processed` | `ProviderWebhookEvent` |
| `Charge`, `Purchase`, `RecordPurchase`, `RejectPurchase`, `EnqueuePoll` | `buyAirtime` and its siblings; a printed-PIN product differs in what a lost reply becomes |
| `BeginPoll`, `BeginReconcile`, `Answer`, `NoAnswer`, `RecordPoll`, `RecordReconcile`, `FinishPoll` | `processPollStatus`, `processReconcile`, `markAmbiguousForOps` |
| `BeginWebhook`, `HandleCompleted`, `HandleRefunded`, `MarkProcessed` | `handleVtuWebhook` |
| `FindCharge`, `PostReversal`, `MarkRefunded`, `WriteReversed`, `FailReversal` | `reverseVtuCharge`, call by call |
| `BeginResolve`, `ResolveDelivered`, `ResolveReversed`, `RollBackResolve` | `adminResolveOrder`, one transaction |

`Answers` contains what a handler can be told, THROWN included; `Lost` is what
each product's adapter makes of a lost reply. Assumptions: the provider's final
outcome does not change; an operator resolves an order by that final outcome, or
once the provider turns out never to have heard of it (`adminResolveOrder` itself
asks nobody, so `DeliveredIsKept` rests on this); a purchase request lives shorter than the sweep's 15-minute window;
`POLL_MAX_ATTEMPTS` is 8 in the code and `MaxPolls` here.

### Settlement

`Settlement.tla` is `fx/settlement.service.ts`.

| Model | Code |
| --- | --- |
| `status`, `reference`, `reported`, `failed`, `completed`, `recon` | columns of `SettlementInstruction`: `status`, whether `providerReference` is known, `providerStatus`, whether `failedAt` and `completedAt` are set, `reconciliationState` |
| `entries` | the HOLD, DEBIT and REVERSAL entries, one key each |
| `received` | `SettlementWebhookEvent`, unique under the id the controller passes |
| `Create` | `createSettlementInstruction` |
| `BeginSubmit`, `Transfer`, `RecordReply`, `FailSubmit`, `BreakSubmit`, `ReverseSubmit`, `LoseReversal`, `RecordFailure` | `submitSettlement`: the read, the call, the transaction, and the three ways through its `catch` block |
| `BeginPoll`, `Answer`, `NoAnswer`, `RecordPoll`, `RecordPollFailed`, `FailPoll` | `pollSettlementStatus` |
| `BeginReconcile`, `RecordReconcile` | `reconcileSettlement` and its ten-minute schedule |
| `ReceiveWebhook`, `FindInstruction`, `HandleWebhook`, `HandleFailed`, `FailWebhook` | `handleSettlementWebhook`; `MapWord` is its mapping of Fincra's words |
| `Transfer`, `Answer`, `ProviderMoves` | the provider: one transfer per idempotency key, a final outcome that does not change |

All entries of an instruction carry its amount, so that an entry is its
instruction and its kind. A webhook word the code does not know is stored and
ignored and is left out. A transfer that failed at once comes back with an
`errorReason` (the mock provider) or as an accepted transfer with the status
FAILED (Fincra): both are modelled. `Exact` tells for which instructions the
provider reports the amount as the instruction has it. What an instruction has
taken from the balance (`Taken`) is its entries folded as
`calculateAvailableBalance` folds them, in units of its amount; what the
instruction gives back is stated of that, not of the presence of an entry.
`InFlight` is the query of `reconcileInFlightSettlements`.

### Handlers, PaidOrder

`Handlers.tla` is what the handlers of the remaining modules have in common:
`Start`, `Goto`, `Learn` (an answer arrives), `Return`, `Crash`, and `DbError`, a
failed call whose error the handler catches. `job[p]` is a record: `op` the
handler, `of` the row, `saw` what it read before it waited, `got` what it was
told. `faults` counts crashes and caught failures together.

`PaidOrder.tla` is the abstract specification of a sale from the wallet: an order
is paid once, served only while it is paid for, and given back at most once,
after which nothing happens to it. `SellersKeepPromise` in `MCServices` states
that orders of numbers, digital access requests and withdrawals implement it; a
phone number alone may be given back after it was served, because the saga
compensates whatever fails after the provider's answer. Two kinds of order do not
implement it. Those of RMB have two reversals with a key each, so that the webhooks
`cancelled` and `refunded` may post both. Those of the telecom gateway may be given
back by a poll that overtakes their purchase, and be delivered after that.

### Campaigns

`Campaigns.tla` is the life of a campaign in `managed-ads.service.ts`, the queue
of `approvals.service.ts`, the sweep of
`managed-ads-automation-processor.ts` and the workflow that pauses.

| Model | Code |
| --- | --- |
| `cpStatus`, `cpApproved`, `cpExpired` | `Campaign.status`, `approvedAt`, `endsAt` |
| `cpLaunched`, `cpReport`, `cpReview` | placements, `CampaignReport`, `ApprovalRequest` |
| `cpHold`, `cpEntries` | the hold a submission makes, and its ledger entries by key |
| `BeginControl`, `BeginAdminStatus`, `SetStatus` | the client's pause, resume, changes, stop and start, the operator's status: checked when read, written later by `changeCampaignStatus` |
| `BeginSubmit`, `Assess`, `HoldBudget`, `AskReview` | `submitCampaign` |
| `BeginReview`, `DecideReview`, `ExecuteReview`, `MarkReviewed`, `ReviewFails`, `SyncReview` | `decideAndExecute`, `execute`, `syncExternalDecision` |
| `CreateManualPlacement`, `AdvanceReport`, `PauseByWorkflow`, `TermEnds` | placement, report, `executeAction`, time |
| `BeginSettle`, `Settle` | `releaseBudgetHold`, `captureBudgetHold`, under the wallet's lock |
| `SweepCampaign`, `CloseCampaign` | `completeExpiredCampaign`, up to its search for holds and from there on |

Amounts are left out: `CampaignFunds` has them. What a submission's risk is, is a
free choice in `Assess`. Row locks are the steps between which a transaction is
open (`RowFree`, `WalletFree`).

### AccessRefunds

`daStatus`, `daCharge` and `daApproval` are the request, its charge and the
`ApprovalRequest` rows. `CreateAccessRequest`, `UpdateAccessStatus` and
`PerformRefund` are Serializable transactions, one action each; `AskRefund` the
request for an approval; `BeginDecide`, `Decide`, `ExecuteApproval`,
`MarkExecuted`, `MarkExecutionFailed`, `ExecutionError` are
`approvals.service.ts`, which reads and writes without a transaction. The
unified queue's endpoint decides without executing (`approve_only`).

### VirtualNumbers

`vnOrder`, `vnCharge`, `vnNumber` are the rows, `vnTerm` how far `expiresAt` is,
`vnLease` what the provider has leased to us. `PurchaseNumber`, `RenewNumber`,
`DebitRenewal`, `Provision`, `StoreNumber`, `FulfilOrder`, `TrackMargin`,
`ExecuteFails`, `CompensateNumber` are `chargeAndProvision` and `renewNumber`
under `runChargeSaga` with the policy "compensate"; `ReleaseNumber`,
`ReleaseExpired`, `ReleaseAtProvider`, `MarkReleased` and `LifecycleSweep` the
release and the worker. A number is named by the order that bought it.

### Payouts

Remittances and withdrawals of `financial-products.service.ts` under the policy
"hold_and_flag", and their webhooks. `ReadQuote`, `ClaimQuote` (one conditional
update) and `DebitRemittance` come before `SendTransfer`; `RequestWithdrawal`
holds instead. `RecordTransfer`, `FailRejected`, `HoldAmbiguous`,
`OpenException` are what follows each class of answer
(`classifyFallbackSafety`); `BeginTransferEvent`, `UpdateTransfer` the webhook,
which knows remittances only.

### RmbOrders

`rmb.service.ts` and the Sogo part of `provider-webhooks.service.ts`. The debit
comes with the row (`CreateRmbOrder`); `rmReversals` holds the REVERSAL entries
by the key that posted them, `rmRefund` the one the order names. `ReadRmbOrder` and
`WriteRmbRefund` are one READ COMMITTED transaction that locks nothing, split
where another may commit.

### GuestCheckout

`gtPayment`, `gtFulfilment`, `gtReference`, `gtReceipts` are columns of
`GuestTransaction` and the webhook's receipts; `gtOwner`, `gtGateway`,
`gtServed` are external. `InitiatePayment`, `AttachPayment` begin a payment, each
replacing the reference; `BeginWebhook`, `VerifyPayment`, `ApplyPayment`,
`MarkProcessed` are `handleKorapayWebhook`; `LookAtFulfilment`,
`BeginFulfilment`, `PurchaseForGuest`, `RecordFulfilment` are `fulfil`, which
`RetryFulfilment` also calls.

### Receivables

Invoices and payment links. `BeginOwner`, `SendInvoice`, `MarkPaid`,
`VoidInvoice`, `DisableLink` are the owner's; `OpenCharge`, `StoreCharge` the
payer's; `ReceiveEvent`, `FindRow`, `VerifyCharge`, `CreditRow`, `ProcessEvent`
the webhook. Both services handle it alike and differ in the row: an
invoice has one reference, a link a payment for each charge.

### Vouchers, Rewards, Growth, Telecom

`Vouchers.tla`: `BeginVoucher`, `SealVoucher` (`createVoucher`, after the PIN was
bought), `ShareVoucher`, `ClaimVoucher`, `RevealVoucher`, `RedeemVoucher`.

`Rewards.tla`: `BeginUpdateCampaign` and `UpdateRewardCampaign`, the check of an
owner's update and its write; `SubmitTask`, `VerifyTask`, `ResolveTask` (webhook, operator),
then `Qualify`, `LookForEntitlement`, `ClaimSlot`, `CountSlots`,
`CreateEntitlement`, `CompleteCampaign`, `EnqueueFulfilment`, which are
`checkQualificationAndReserve` and `tryReserveSlot` await by await; the worker's
`BeginFulfil`, `PendFulfilment`, `CreditReward`, `MarkAmbiguous`,
`FailEntitlement`; and `ResolveEntitlement`, an operator's word.

`Growth.tla`: `BeginGrowthOrder`, `ReserveFunds`, `HoldForReview`,
`SupplierCreates`, `FailGrowthOrder` are `createGrowthOrder`; `BeginRefresh`,
`TakeSnapshot` the refresh of a list; `BeginGrowthUpdate` the operator; all three
end in `ApplyTransition`, which locks the wallet and upserts the entries of
`EntriesOf`.

`Telecom.tla`: `BuyTelecom`, `SubmitTelecom`, `RecordTelecom`, `RecordUnanswered`,
`RereadTelecom`, `MarkTelecomAmbiguous` buy; `BeginPoll`, `AskProvider`,
`AskFails`, `ReverseTelecom`, `WriteTelecom` are `getOrderStatus`, the only thing
that settles an open order. The row is created with our own reference as its
`providerReference`, so it can be asked about from that moment on: while the
purchase is under way, after it threw, after a crash. What comes of the question
depends on the provider. ClubKonnect (`ByRequestId`) is asked by our reference and
may call an order FAILED that it does not have (`Answers`); `tgDenied` remembers
which, a history variable the steps never read. Reloadly is asked by its
`transactionId`: until that is stored (`tgKnown`) the question ends in an error.
Assumed of both: of an order it has, a provider says what is so or that it cannot
tell, its final outcome does not change, and a purchase reaches it before the
request goes on or not at all.

### MC modules

`MCCampaignFunds`, `MCVtuOrders`, `MCSettlement` extend the first three and define
amounts, products and the symmetry set of the processes. `MCServices` extends the
other eleven. They share the ledger but no row, so each of its behaviours
exercises one of them (`focus`), with two handlers of that service at any point
of each other's awaits, and the state spaces add up instead of multiplying. Two
services are explored in two parts each: invoices and links, which share only
their webhook's code, and a campaign's review and delivery, whose operations are
too many for one state space; both parts of a campaign contain its submission,
the operator's statuses and the workflow. No cfg replaces a definition of the
modules; they give values to constants only.

## 3. The runs, their bounds and what they show

| Run | Checks | Shows |
| --- | --- | --- |
| `funds_holds` | `LockedSpendingCovered`, `HoldSettledOnce`, `HeldBalanceMatchesLedger`, `ImplementsAccount` | two requests hold, release, capture and adjust over one wallet beside a purchase, one may crash: no double settlement, no overdraft by those that lock, and the wallet is the account it promises to be |
| `funds_payments` | `TypeOK`, `InvoiceMatchesLedger`, `CreditedOnce`, `CheckedStillHolds`, `CompletedIsFinal` | two payments of one invoice, verified and delivered repeatedly and out of order, race each other and the invoice's payment from the wallet |
| `funds_live` | `ReceiptHonoured`, `RequestsFinish`, `PaidIsCredited` | nobody waits for a lock for ever; money paid arrives despite a crash, and no receipt says so before it has |
| `funds_purchases` | `SpendableFromBalanceOnly` | violation, finding 1 below |
| `vtu_safety` | `TypeOK`, `RefundedOnce`, `DeliveredIsDelivered` | two orders, two handlers, a crash anywhere |
| `vtu_live` | `DeliveredIsKept`, `DeliverySticks`, `FailureRefunded` | no order but a printed PIN is both delivered and given back; the sweep, the worker and the operators bring every order the provider settled to its end |
| `settle` | `TypeOK`, `FailedGivesBack`, `CompletedIsPaid`, `InFlightReconciled` | submissions, polls, webhooks and reconciliations of one instruction race, with a crash or failed call and a lost reversal: FAILED gives back one amount and leaves the debit of an accepted transfer, COMPLETED is so, and the schedule compares what is in flight with the provider |
| `settle_refund` | `FailedRestoresBalance` | violation, finding 2 |
| `services_safe` | `TypeOK`, `VNSettled`, `RefundNeedsTwo`, `RmbRefundJustified`, `PayoutsHonest`, `RewardsCovered`, `GrowthBacked`, `TelecomHonest`, `ReceivablesHonest`, `VoucherHonest`, `ReviewHonoured`, `HoldBacked`, `SellersKeepPromise` | every service but the guests', with two of its handlers anywhere in each other's awaits and a crash or failed call anywhere: what a row says of money and delivery is so, and three of them implement `PaidOrder` |
| `services_live` | `GuestServedIsPaid`, `ExpiredIsReleased`, `GuestPaymentNoticed`, `ExpiredCompletes` | numbers, guests and campaigns reach the end the sweeps and the gateway's repetition promise, and no guest is served unpaid |
| `campaigns_sweep` | `HoldReturnedOnce` | violation, finding 3 |
| `growth_refund` | `GrowthReturnedOnce` | violation, finding 4 |

**Bounds, and why they are enough.**

- Two processes everywhere. Every race of this code is between two handlers of
  one row: one that read and one that wrote meanwhile. A third adds no check
  and no write that the pair does not have, and the safety proofs hold for any
  number.
- One or two holds, invoices, intents and orders: enough for two different
  amounts over one wallet (`funds_holds`), two payments of one invoice
  (`funds_payments`), the two printed-PIN products (`vtu_safety`). Orders and
  settlements share nothing but processes, so one is enough in the other runs.
- Amounts 1 and 2: a capture can be partial, an invoice can be paid in part, and
  a balance can be enough for one request and not for two.
- `LedgerCap` bounds the total of each unkeyed kind, so that the state space is
  finite; it is at least what two requests need to collide. It is zero in the
  runs about payments and liveness, where unkeyed entries play no part.
- `MaxPolls = 2`: a first attempt, a last one, and the difference between them.
- `MaxCrashes` is 1 where crashes matter and 0 in the runs about a race or a
  disagreement that needs none. In `Settlement` the same bound counts a failed
  database call in a submission. One failure already separates any two steps; the
  safety invariants are proved for any number.
- `MaxFaults = 1` in `settle`: one best-effort reversal may be lost, after which
  `FailedGivesBack` promises nothing, since `failedAt` is set and no poll gives the
  money back any more. It is 0 in `settle_refund`, which has one process and no
  crash: the shortfall needs neither a race nor a fault.
- In `MCServices`, one row of each service, and two where rows compete: two
  participants for the slots of one campaign (`RwTotals = {2}`), two remittances
  for one quote, two payments of one guest, two charges for one invoice or link,
  two reviews of one campaign, two approvals and two operators for one request
  (an approval somebody may not decide, and one somebody may), a number and its
  renewal. `MaxFaults = 1` counts crashes and failed database calls together.
  `MaxReturns = 1`: one slot given back by an operator separates the claimed
  slots from the entitlements, and the proof holds for any number.
  `RwStatuses = {"ACTIVE"}`: the owner of a reward campaign asks for the one status
  that can hand out more slots, opening a campaign again by an update that was
  checked before it completed; the other statuses only stop what can happen, and the
  proof holds for all. Of two telecom orders one is ClubKonnect's, one Reloadly's.
- `services_live` lets operators set one status only (`AdminStatuses`), which
  is enough to interfere with the sweep, and leaves one review.
- Symmetry, in runs without liveness, over `Procs`, and in `MCServices` also over
  `Charges`, `Participants` and `Reviews`; none occurs in a definition by name.

`CHECK_DEADLOCK FALSE` is said in the VTU, settlement and services runs because
these systems stop: once every order or instruction has ended and the provider
has nothing more to say, only new customers could go on, and their number is
bounded. Deadlock is checked in the runs of the funds.

## 4. Fairness

- `CampaignFunds!FairSpec`: strong fairness of a request's own steps. PostgreSQL
  queues the waiters of a row lock, so a request that can get the lock time and
  again gets it, and an async handler runs to its end. Korapay sends an event
  until it is acknowledged, so `BeginWebhook` is strongly fair. No request need
  ever begin on its own.
- `VtuOrders!FairSpec`: a handler that began goes on; the provider answers a
  question asked time and again (`SF_vars(Answer)`), but need never settle an
  order and need never send its webhook; the worker comes back to a poll job
  that is queued, the repeatable sweep to every order it selects, and the
  operators to every AMBIGUOUS order. The sweep takes a hundred orders per run
  in no stated order: that it comes to every one is an assumption.
- `Settlement!ScheduledSpec`: a request that began goes on (weak fairness);
  `reconcileInFlightSettlements` runs every ten minutes and takes up an instruction
  that is in flight time and again, oldest first (strong, since a turn may find it
  out of flight for a moment); and the provider answers a reconciliation that is
  asked time and again. The schedule runs only if
  `ENABLE_SETTLEMENT_RECONCILIATION_SCHEDULER` is set, and takes a hundred
  instructions a turn: one that is compared leaves the query, so the others move
  up, as long as the provider answers. Nobody need poll, no webhook need come, and
  nothing is promised of the outcome: a reconciliation records neither failure nor
  completion, and what it marks SYNCED it never looks at again.
- `MCServices!FairSpec` adds up three conditions. In each, a handler that began
  goes on (weak fairness of its own steps, one formula for each process: an
  async function is resumed when its awaited call returns).
  `VNFairness`: the worker's lifecycle sweep runs again and again, and a release
  job of a number that is EXPIRED time and again runs (strong fairness, since a
  renewal or another release may interfere). `GTFairness`: Korapay sends an event
  until it is acknowledged (strong, since both handlers may be busy whenever it
  comes). `CPFairness`: the sweep every fifteen minutes finds a campaign that is
  live time and again (strong, since controls and operators may hold its row or
  change its status in between). Nobody need buy, renew, pay or submit.

## 5. The proofs

Eight modules hold the theorems. Each component has its own inductive invariant,
which TLC checked on the runs' instances before it was proved.

| Module | Proves |
| --- | --- |
| `CampaignFunds_proofs` | `TypeOK`, `LockedSpendingCovered`, `HoldSettledOnce`, `CreditedOnce`, `CheckedStillHolds` |
| `CampaignLedger_proofs` | `HeldBalanceMatchesLedger`, `InvoiceMatchesLedger`, `ReceiptHonoured`, `CompletedIsFinal`, and the refinement `ImplementsAccount` |
| `VtuOrders_proofs` | `TypeOK`, `RefundedOnce`, `DeliveredIsDelivered`, `DeliveredIsKept` |
| `Settlement_proofs` | `TypeOK`, `FailedGivesBack`, `CompletedIsPaid` |
| `Campaigns_proofs` | `ReviewHonoured`, `HoldBacked` of `Campaigns`, `RewardsCovered` of `Rewards` |
| `Approvals_proofs` | `RefundNeedsTwo` of `AccessRefunds`, `PayoutsHonest` of `Payouts` |
| `Services_proofs` | the invariants of the seven smaller services |
| `MCServices_proofs` | the composition: `TypeOK`, all its safety invariants, and the refinement `SellersKeepPromise` |

They hold for any number of processes, orders, holds, invoices, amounts, crashes
and failed calls, from the `ASSUME` of each module: amounts are positive, the null
value is not one of the others, sets that are counted or summed are finite (of the
payments, those for one invoice), the bounds are natural numbers. Nothing else is
assumed.

**CampaignFunds.** From `FundsInvariant: Spec => []FundsInv`. None of the
properties is inductive alone. A commit trusts what it read when it
was admitted, so the invariant carries `CheckedStillHolds`: while a request is
admitted the money is there, the hold is still ACTIVE and the amount due is the
same. That survives the steps of others only because they need the wallet's
lock to change any of it, which is `LocksHeld`; and a payment is credited once
because between its check of `creditedAt` and its commit it holds the intent's
lock (`PaymentsUncredited`). Purchases write without the lock: they are kept
apart by `Secured`, and `RefundsBounded` says that giving them back never
creates money.

**CampaignLedger_proofs.** From `LedgerInvariant: Spec => []LedgerInv`, which adds
to `FundsInv` that a hold is as large as it was asked for (`HoldsAsAsked`), that
the debit of an invoice is posted only by the step that records it
(`BillsRecorded`), that a webhook of a successful payment is about to mark its
receipt only if the payment is credited (`DoneIsCredited`), and the two sums.
`MapThenSumSet` is a recursive function on the subsets of a finite set. The
library's induction theorems cannot be instantiated, so its lemmas (`SumAdd`,
`SumZero` and the others) take a smallest set for which they fail, which
`FS_StrictSubsetOrderingWellFounded` and `WFMin` provide (`Smallest`), and
contradict it. `FundsImplementAccount` maps a commit to the account's operation and
every other step to a stutter (`UnseenSteps`); a purchase and its refund, which
lock nothing, are kept out of the account's balance by `Secured`. The account asks
for more than a commit looks at, for instance that a payment is banked once: that
much follows from `FundsInv`.

**VtuOrders.** From `VtuInvariant: Spec => []VtuInv`. There are no locks, so the
invariant says what each handler's program counter guarantees: `Working` (who can
be where, with what), `ReversalsPosted` (past the posting, the refund is in the
ledger) and `AnswersTrue` (what a handler was told of a delivery, however long ago,
is still so, because an outcome is final). `DeliveredIsKept` needs the converse of
failures (`FailuresTrue`), and there "the provider never heard of it" is not final:
it stays true only because nobody can resolve an order while its purchase is with
the provider (`CallingAlone`).

**Settlement.** From `SettlementInvariant: Spec => []SettlementInv`. A webhook or
poll may write long after it read, so that a FAILED instruction has its REVERSAL
(`FailedIsReversed`) needs that whoever saw `failedAt` set, or is past the
reversal of a submission, has a reversal in the ledger (`FailuresReversed`),
which lasts because entries are never taken back (lemma `OnlyGrows`). That
nobody works on an instruction without its HOLD (`HeldFirst`, lemma `HeldStep`)
makes of it what `FailedGivesBack` says: a HOLD and a REVERSAL cancel out and the
debit, if there is one, remains.
`CompletedIsPaid` needs that a known reference comes with a debit or a failure
(`ReferencePaid`) and that news of an arrival is true and stays true
(`AnswersTrue`, lemma `ProviderFinal`).

**Campaigns and Rewards.** A handler marks a review EXECUTED long after it set the
status, which others may have changed since; what lasts is `approvedAt`, so
`CampaignsWorking` says that a handler past its approval works for a campaign that
has one. A hold's entries are written with its status, by the sweep too. Rewards
count entitlements, and a slot is claimed two awaits before its entitlement exists,
so the invariant counts both (`SlotsTaken`): entitlements plus handlers between
claim and creation are at most the claimed and returned slots.

**AccessRefunds and Payouts.** A decision is written over whatever the approval says
by then, so the invariant is about the handler: between its read and its write the
decider is somebody else than who asked (`AccessDecided`), and a charge is given
back only by a transaction that found the request unfulfilled. At each step of a
withdrawal its handler is the only one (`WithdrawalsHandled`), and a quote that was
claimed has one remittance past the claim (`QuotesClaimed`), which is why a
conditional update is enough without a lock.

**Services_proofs.** Seven services, each with an invariant of what its handlers
carry across an await. Telecom: an order is submitted once (`SubmittedOnce`), and
what a poll was told stays so (`TelecomKnows`), be it of an order the provider has
or of one that ClubKonnect denied. Growth: whoever is past the
reservation works on a reserved order. Vouchers: a credit lasts, and a PIN is
bought by the one handler that will seal it. Numbers: past the debit the order is
charged and nobody else works on it (`NumbersCharged`). RMB: what an event said
stays true of the order (`RmbTold`). Guests: a payment's owner is fixed, and a
handler past the verification works for a completed payment (`PaymentsOwned`,
`PaymentsVerified`). Receivables: a reference belongs to the row that stores it
(`ChargesOpened`), what is PAID was completed at the gateway (`ChargesVerified`),
what a handler verified stays so (`ReceivablesWorking`), and a link's count covers
its paid payments (`PaymentsCounted`).

**MCServices_proofs.** `ServicesInvariant: Spec => []ServicesInv`: the service in
focus keeps its own invariant (`InFocus`, from the lemmas `NumbersInductive`,
`AccessInductive` and so on, one for each service), the others are still initial
(`AtRest`), and faults are bounded. `ServicesSafe` derives the twelve safety
invariants of the composition from it. `SellersImplementPaidOrder` is the
refinement of `PaidOrder`: each kind of order has a lemma (`NumberSold`,
`AccessSold`, `WithdrawalSold`) that a step changes at most one
order, and that one as `Moves` allows; `SoldElsewhere` keeps the others. They need
the invariants: a number can be given back only by the handler that charged it, and
a withdrawal ends only from HOLD because its handler is the only one.

**Only model-checked.** Liveness (`RequestsFinish`, `PaidIsCredited`,
`DeliverySticks`, `FailureRefunded`, `InFlightReconciled`, `ExpiredIsReleased`, `GuestPaymentNoticed`, `ExpiredCompletes`): fairness and
ENABLED are out of the prover's reach. The four properties of the violation runs
are false of the code. Everything else the runs check is a theorem.

## 6. Findings

Each of these is a run TLC finds violated; `PROJECT.json` quotes the lines.

1. `funds_purchases`: two purchases add up the ledger before either has debited
   it, and spend the same money.
2. `settle_refund`: an accepted transfer is debited beside its HOLD, which nothing
   releases, and its failure posts one REVERSAL: the instruction says FAILED, and the
   balance stays one amount short. A transfer that arrives has cost two amounts.
   `FailedGivesBack` says exactly what comes back, and
   `FailedSettlementsGiveBack` proves it.
3. `campaigns_sweep`: the sweep of expired campaigns releases a hold that a
   request is capturing, so it is given back twice. `HoldsSettledOnce`, proved of
   `CampaignFunds`, is about requests, which lock the wallet; the sweep, which
   does not, is in `Campaigns`.
4. `growth_refund`: a refunded growth order is refunded again, and its
   reservation released a second time.

Facts of the code met while modelling, visible in the modules and not kept as runs:

VTU orders and settlements:

- A poll that read an order before the webhook resolved it writes its own
  answer over the resolution (`RecordPoll`).
- A lost reply of a printed-PIN purchase is refunded at once, though the PINs may
  have been issued (`Lost`).
- A second reversal of a VTU charge that looked the charge up before the first
  one posted is an error, not the no-op of the comment at `vtu.service.ts:998`
  (`FailReversal`); the money is safe (`RefundedOnce`).
- An order whose poll job was never queued and whose provider never decides
  stays SUBMITTED: the sweep leaves it (`RecordReconcile`), the operators may
  resolve AMBIGUOUS orders only (`BeginResolve`).
- A settlement that was compared with the provider while in flight is SYNCED, and
  the schedule never looks at it again (`InFlight`): how the transfer ends is
  learned from a webhook or from an operator's poll, or not at all.
- A second concurrent submission of a settlement reverses the first one's
  transfer (`ReverseSubmit`).
- A settlement whose submission timed out is reversed and FAILED
  (`ReverseSubmit`, `RecordFailure`), where
  `docs/SETTLEMENT_LAYER_ARCHITECTURE.md:38` has it PROCESSING.
- A settlement's second webhook event is refused as a duplicate, because the
  controller stores events under the transfer's reference (`ReceiveWebhook`).
- A webhook stores the provider's word, a reconciliation compares it with the
  mapped status: after a webhook of a final status every reconciliation
  diverges (`HandleWebhook`, `RecordReconcile`).
- The endpoint that retries FAILED settlements calls `submitSettlement`, which
  refuses all but PENDING ones (`BeginSubmit`).

The other services:

- A refund and a cancellation of one RMB order that overlap post a REVERSAL
  each, under different keys (`WriteRmbRefund`).
- `tryReserveSlot` adds one to a count that contains the slot just claimed
  (`CountSlots`), so a reward campaign completes one slot early; the next claimer
  of a slot finds it no longer ACTIVE and throws after creating the entitlement,
  which is then never queued (`CompleteCampaign`). A participant whose two tasks
  are verified at once takes two slots for one entitlement (`CreateEntitlement`),
  and a stalled fulfilment job marks a paid entitlement FAILED
  (`FailEntitlement`).
- A withdrawal left PROCESSING is settled by nothing, and a remittance that
  fails keeps its debit (`RecordTransfer`, `UpdateTransfer`).
- A telecom order whose reversal was posted before a crash never says REVERSED
  (`ReverseTelecom`).
- ClubKonnect may call an order FAILED that has not reached it yet (`Answers`): the
  price is given back, then the purchase is delivered, and `RecordTelecom` writes
  DELIVERED over REVERSED.
- An owner's update of a reward campaign that was checked before the campaign
  completed opens it again (`UpdateRewardCampaign`); every entitlement still takes
  a slot of its own (`RewardsCovered`).
- Two deliveries of one event count a link's payment twice (`CreditRow`; the
  invariant says that no payment is missing from the count, and no more).
- A guest who begins a second payment and pays by the first one's page is not
  noticed, and the FAILED of one payment overwrites PAID (`AttachPayment`,
  `ApplyPayment`).
- An approval says EXECUTION_FAILED though the refund was made, when the mark
  after it fails (`ExecutionError`).
- A crash after the debit of a number leaves its order CHARGED for ever
  (`Provision`): no job looks for such orders.
- A redeemed voucher is reopened by sharing, claiming or revealing it
  (`ClaimVoucher`, `RevealVoucher`); its credit's key keeps it from being paid
  again. A PIN whose voucher row failed to be stored belongs to nobody
  (`BeginVoucher`, `Crash`).
- A workflow pauses a campaign whatever its status (`PauseByWorkflow`), what is
  PAUSED may be resumed, and `startCampaign` asks for no status at all
  (`Controls`): a rejected or unreviewed campaign comes to run.

## 7. What is not modelled

Left out everywhere: HTTP, request validation, formatting, catalogues, prices,
logging, notifications of people, fraud scores, language-model calls, user
interface, and views that only read. They are the larger part of the repository's
lines, and no property of state depends on them.

In the modelled components:

- Wallets of other currencies; each is a wallet of its own.
- Budget transfer and spend allocation of campaigns: budgets are written as
  absolute values outside a lock, and no line says what their sum has to be.
- Beneficiaries and alerts of settlements; cards, virtual accounts and KYC among
  the financial products, of which cards are issued and funded under the policy
  of holding that `Payouts` has.
- Delivery of outgoing webhooks, messages received by rented numbers.

Components left out, with the reason:

- **VTU quotes and routing.** `consumeQuote` reads that a quote is unused and
  marks it in a second call (`vtu-quote.service.ts:146-180`), so that two purchases
  may use it; each of them is debited at its price. Routing is a ranking.
- **Digital value.** Gift cards are bought as payouts are sent and sold as
  digital access is refunded; crypto stores deposit addresses.
- **Trust engine.** One job that scores and then writes a verdict; what it does to
  a campaign is `Assess`.
- **Sessions and authorization.** The models begin behind them.
- **Marketplace, notifications, provider administration, administration views,
  STARRIA, AI brain, service stubs, web and admin.** One row edited by one
  operator, pure I/O, types, or no state.
