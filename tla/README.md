# TripBng, specified in TLA+

TripBng is a B2B travel platform: agencies hold a prepaid or credit wallet, top it up through a
payment gateway, and spend it on flights, buses, hotels and more. The API (`src/apps/api/src`) is an
Express service over MongoDB, Redis and BullMQ; several processes of it run at once, next to workers
and cron jobs on the same collections. This directory holds TLA+ models of the parts of that API
where money and seats can go wrong between two round trips, TLC instances that check them, and
proofs that TLAPS checks. Paths below are relative to `src/apps/api/src` unless they start with `src/`.

1. [Reading order](#reading-order)
2. [The system](#the-system)
3. [The modules](#the-modules)
4. [The runs](#the-runs)
5. [Fairness](#fairness)
6. [What is proved](#what-is-proved)
7. [What the code does that its comments deny](#what-the-code-does-that-its-comments-deny)
8. [What is not modelled](#what-is-not-modelled)
9. [The plan](#the-plan)

## Reading order

`AtomicWallet` (one page: what a wallet promises), `WalletWriters` (how three services keep the
promise); then the users of the wallet, each on its own: `PaymentTxn`; `FlightBooking`, extended by
`FlightAmendment`; `HotelBooking`, extended by `HotelCancellation`; `BusBooking`, extended by
`BusCancellation`; `WalletDesk`, extended by five small modules that `BackOffice` puts together. Every
one of these components has a module of proofs, named after it: `WalletWritersProofs`, `PaymentTxnProofs`,
`FlightBookingProofs`, extended by `FlightAmendmentProofs`, `HotelCancellationProofs`, `BusProofs`,
`BackOfficeProofs`; what they need to know about sums over finite sets is in `SetSums`. Each opens with the idea of its proof and its inductive
invariant and ends with the theorems; what lies between is one lemma per group of actions.
`tlc -config WalletWriters_books.cfg MCWalletWriters.tla` runs an instance, `tlapm PaymentTxnProofs.tla`
checks the proofs of a module. `PROJECT.json` lists the runs, for each property a
mutated definition that breaks it, for each definition the lines it models, the hazards and the findings.

## The system

| Component | State | Operations | Talks to |
|---|---|---|---|
| Wallet lock (`utils/wallet-lock.ts`) | Redis key `wallet:lock:<owner>` with a token and a time to live | acquire with a budget, release by compare-and-delete | Redis |
| Ledger (`services/wallet/ledger.ts`) | `Wallet`, `WalletTransaction`, `Agency.walletBalance` | `postCredit`, `postDebit` | lock, `utils/mongo-txn.ts` |
| Waterfall (`services/wallet/waterfall.service.ts`) | the same, `CreditSettlement` | `applyPayment` | lock, transaction |
| WalletService (`services/payment/wallet.service.ts`) | `Wallet`, `WalletTransaction` | `credit`, `debit`, `transfer` | transaction, no lock |
| Payments (`services/payment/payment.service.ts`) | `PaymentTransaction`, `WebhookEvent` | `initiateTopup`, six `markX`, `sweepStalePayments` | gateway, wallet, `queues/payment-webhook.worker.ts`, `queues/payment-recon-sweeper.worker.ts` |
| Settlement (`services/payment/reconciliation.service.ts`) | `SettlementBatch` | `reconcileOneRow` | payments, CSV parser |
| Flight bookings (`services/booking.service.ts`) | `Booking`, `Inventory` | hold, confirm, issue, cancel | supplier adapters, wallet, `queues/hold-expiry.worker.ts` |
| Inventory (`services/inventory.service.ts`) | `Inventory` | create, update, copy | bookings |
| Amendments (`services/amendment.service.ts`) | `Amendment`, `Booking` | create, approve, reject | wallet, inventory |
| Hotels (`services/tbo/*`) | `HotelBooking`, `HotelCancellationJob` | pre-book, book, approve, poll, voucher, cancel | TBO, wallet, five workers |
| Buses (`services/bus/*`) | `BusBooking`, `BusCancellation` | book, cancel, operator cancel | SeatSeller, wallet, approvals |
| Distributor transfers (`services/wallet/distributor-transfer.service.ts`) | `DistributorTransfer` | request, approve, recall | two wallets |
| Top-ups, adjustments (`services/wallet/topup.ts`, `adjust-approval.service.ts`) | `TopupRequest`, `PendingAdjustment` | request, approve, reject | wallet |
| Deposit incentive (`services/wallet/di-incentive.service.ts`) | `Incentive`, ledger rows | credit, TDS debit | wallet, its worker |
| One-step bookings (`routes/products.routes.ts`, `routes/hotels.routes.ts`, `routes/booking.routes.ts`) | `HolidayBooking`, `VisaBooking`, `HotelBooking` of the mock supplier | quick-book, unified cancel | WalletService |
| Travel approvals (`services/approval/*`) | `ApprovalRequest` | request, decide, consume, expire | buses, its sweeper |
| Credit, integrity, monitoring (`services/wallet/*`) | flags on `Agency` and `Wallet` | recompute, remind, verify | cron |
| Alerts (`services/alerts/*`) | jobs, `Notification` | resolve, dispatch, retry | queues |
| Middleware | Redis | idempotency keys, freeze, limits | every request |

The components meet in three places. They call each other's functions in one process; they queue jobs
for each other in BullMQ, whose retries may repeat a job; and, above all, they write the same MongoDB
documents. A handler reads a document, awaits other systems, and saves. Mongoose's `save()` writes the
fields that were assigned and compares no version (except for replaced arrays), so another handler's
work between the read and the save is overwritten without notice. Where the code does protect itself,
it is by one `findOneAndUpdate` with the expected status in its filter, by a unique index, or, in the
wallet, by a version number inside a transaction.

What makes each component correct, and hard:

* **Wallet.** Every change of a balance is explained by a row; no update is lost although leases expire
  under running calls; a debit that must be covered is covered by the balance it is committed on; a
  reference posts once. Hard: three writers with different protocols, lease expiry, crashes, retries.
* **Payments.** One credit per capture, for captured money only; nothing shown as paid without it; one
  reversal per completed refund; a captured payment reaches the wallet in the end. Hard: webhooks lost,
  repeated and out of order, racing return pages, polls and timeouts.
* **Flights.** One debit, one ticket, no ticket before the debit, no refund without a debit; seats not
  sold twice; lapsed holds end; a cancelled ticket is cancelled at the supplier as well. Hard: confirm
  against expiry, cancel against both, failures half-way, crashes.
* **Hotels.** A room is booked once and paid once; a failed attempt is refunded; a voucher is that of a
  confirmed room; a cancellation is refunded once, and only for a room the supplier gave up; a pending
  booking is polled until it is decided. Hard: a lock that expires before the supplier answers, an
  approval path without that lock, repricing, polls and vouchers on one document.
* **Buses.** A booking stands on an approval used once; a ticket whose answer was lost is found before
  its debit is refunded; the rows of partial and operator cancellations add up. Hard: lock and mark that
  may be lost, decisions saved over decisions, a poller beside the agent.
* **Amendments.** While one is open nobody else moves the booking; the document tells whether it was
  refunded; seats are released once. Hard: an operator beside a second one, beside the creator, and
  beside every operation on the booking.
* **Back office.** Money moves between two wallets and is neither made nor lost; an approval is posted, a
  posting approved; recalls and incentives happen once. Hard: two clerks on one document, legs without a
  common transaction, compensations that fail, retries after half a job.

The hazards in `PROJECT.json` list, line by line, where each of these can break, with the properties
that would notice.

## The modules

### WalletWriters, AtomicWallet

A *caller* is one call of `applyLedgerEntry`, `applyPayment` or `applyMutation`. It chooses a request
(`Call`), takes the lease (`Acquire`, `AcquireTimeout`; WalletService skips it), reads its snapshot and
checks it (`Begin`), writes inside its transaction (`Write`, invisible to others in `staged`), and
commits (`Commit`: document, legacy copy, rows and settlement at once). `Conflict` is Mongo's write
conflict, the failed version filter, or a competing unique key; it makes the driver run the callback again
(`Retry`) or the call fail (`Abort`). `Release`, `ReleaseFails`, `LeaseExpires` and `Crash` complete the
picture. The definitions `ToCredit`, `ToWallet`, `Legs`, `NewDocument` and `CacheChange` are the
arithmetic of the three services: the waterfall settles outstanding credit first, LEDGER and WATERFALL
increment, SERVICE overwrites with what it computed from its read and leaves the legacy copy alone. So
`CacheAgrees` does not say that the copy is right, which it is not; it says that it is off by the rows of
WalletService (`ServicePosted`) and by nothing else.

`AtomicWallet` is the abstract specification: one posting at a time, decided on the balance it changes.
`WalletWriters!Sequential` maps the committed documents and rows to it, and `ImplementsAtomicWallet` says
that every commit is such a posting and every other step a stutter. This is why the other modules
treat a wallet call as one step.

### PaymentTxn

A *handler* is a webhook job, a browser return (`Inline`), a sweep, a settlement row (`Reconcile`), or, of
the ICICI gateway, a return page or a payment advice with an event of its own. Each ends in a `markX`
method: `Read` (findById and the transition check), `Credit` or `Debit` (the wallet), `Save`, then `Return`
or `Throw`. The three are separate steps, as the awaits are. `Posted` is the idempotency key of the wallet,
`CreditRef` the key markSuccess chooses, `Dirty` the rule by which Mongoose leaves a field out of a save.
Deliveries may be lost, repeated (`Repeated`) and reordered; a job is retried up to `MaxAttempts`; `Crash`
loses an inline call and re-queues a job. The gateway is two variables: what it decided about the money and
about a refund.

The events of ICICI are `notice`. `ReturnPage` saves its event as PROCESSED before it calls markSuccess, as
`routes/payments.routes.ts:157-166` does, and the call may throw or the process die after that; `Advice`
marks its event when the call is over (`Noted`). What a poll learns depends on the id the document holds:
`Asked` is `gatewayTxnId ?? txnCode`, and `PollAnswer` is unknown for a session id. The constant
`SessionId` says what initiate() stores: the order's own id for pgpay, a session for PhonePe and ICICI.

### FlightBooking

A *call* is a request or a run of the sweep. `HoldSeats` and `CreateBooking` are holdBooking; `Claim` up
to `SaveFailed` confirmBooking; `ReadManual`, `IssueManually` and `IssueConflict` issueManually;
`ReadForCancel` to `SaveCancelled` cancelBooking; `ExpireHold` and `ReleaseSeats` the expiry sweep;
`ReadInventory`, `SaveInventory`, `EditRefused` updateInventory. `Claim` and `ExpireHold` are atomic in the
database and have their filters as guards. Every other save is `Save`, which overwrites whatever is there
and, if the status is no longer the one the call read or wrote last, puts the booking into `clobbered`.
That history variable separates what the claim protects unconditionally (`DebitedOnce`, `TicketedOnce`,
`RefundNeedsDebit`) from what holds only until such an overwrite happens (`TicketIsPaid`, `MoneyComesBack`,
`NoForgottenTicket`, `SeatsConserved`). The overwrites are real behaviours of the code and stay in the
model.

`SupplierOf` tells the adapters apart where a booking can: SERIES has seats of ours, TBO tickets on
confirm and cancels by request, LCC is a TBO booking with a synthetic reference, KAFILA tickets at
the hold and has no cancellation. A failing cancellation of a SERIES booking is allowed too,
although that adapter's own `cancel` does nothing.

### FlightAmendment

Extends `FlightBooking`: createAmendment is `ReadToAmend`, `CreateAmendment`, `LockBooking`;
approveAmendment is `ReadAmendment` and the five awaits from `RefundAmended` to `SettleAmendment`;
rejectAmendment is `RejectAmendment` and `RollBack`. Every action of `FlightBooking` stays possible on the
same documents, seats and money. `torn` holds amendments on which two calls worked or a call died;
`strayed` the bookings of which an amendment was asked for outside HOLD and TICKETED (the code lets CANCEL
through in every status), or that were rescheduled in the middle of a cancellation.

### HotelBooking, HotelCancellation

A *call* is a request (`LockDraft`, `ReadForApproval`, `ReadForCancel`) or the delivery of a job
(`ReadPending`, `ReadHeld`, `ReadJob`). executeTboBook is `Debit`, `SaveInterim`, `Book` with its five
answers, `Refund`, `SaveOutcome`, `EnqueueNext`; the polls and the voucher follow their workers. The poll
counts in one step (`PollAgain`) and enqueues in the next (`RequeuePoll`); its answer is the state of the
room, or an error, which the mapper takes for a failed booking whatever the supplier has (`FetchError`). A
room is given up against a refund (`processed`) or without one (`forfeited`); in the second case nothing is
credited and the booking is CANCELLED all the same. A save or an enqueueing that throws (`WriteFails`) ends
a poll for good, whose job has one attempt, and tears the booking. The lock
expires at any time (`LockExpires`). Saves push to `statusHistory`, which increments the version, but only
the save that replaces the guests compares it (`VersionConflict`); any other overwrites what it finds, and
if somebody saved since the call read, the booking goes into `torn`, as it does when a call dies between
a posting or an answer and its save. `refused` are bookings whose refund the wallet refused, which the
code logs as fatal.

### BusBooking, BusCancellation

One approval, a few attempts to book on it. `ReadToDecide`, `Decide`, `SweepExpired` are the approval
service; `Acquire` to `DeleteLock` createBusBooking with its Redis lock, whose release is a GET and a DEL;
`Check` is the look-up of a ticket whose answer was lost. `ReadForCancel` to `Transition` cancelBooking;
`PollOperator`, `FetchTicket` the daily poller. The booking and its earlier cancellations are two reads
(`ReadForCancel`, `ReadSeats`), and the row is created, credited and saved in three steps. The save of
COMPLETED sits in the try of the credit: when it throws, the catch saves FAILED on a row that holds a
refundTxnId, which the model writes MISFILED; the second save may throw as well (`SaveCancellationFails`).
The poller asks for tickets cancelled from two days back to thirty ahead; a ticket whose status could not be
fetched in that time leaves the list (`WindowPasses`). History: `torn` as above, `unguarded` (the lock or the mark
on the approval was lost), `overruled` (a decision was saved over another), `unverified` (booked, and
nobody could tell), `drift` (the fare difference that a failed attempt does not return). `FareOf` is what
the supplier is taken to refund at most: the code credits the amount SeatSeller names.

### WalletDesk, BackOffice and the five between

`WalletDesk` has two wallets, an agency's and its distributor's, and *clerks*, the requests and jobs that
read a document, post and save. On it stand `ManualApproval` (top-ups and adjustments),
`DistributorTransfer` (transfers, recalls, transfers without a document), `DepositIncentive` (the job with
its attempts and stalls), `ProductBooking` (quick-book and the unified cancel) and `KeyedTransfer`
(WalletService.transfer). `BackOffice` composes them over the same wallets and adds `Crash`. History:
`torn`, `stranded` (money that left a wallet and reached no other, which the code logs for manual
reconciliation), `contested` (a recall under another one), `overlapped` and `untaxed` (incentives),
`minted` (reversals of transfers that had arrived), `external` (what came from outside).

**About the history variables.** They never restrain an action; they say from where on a document cannot
tell the truth any more, because of an overwrite or a crash the code does not guard against. A
property that excludes them says: *as long as nothing overtook this document, all orders, failures,
refusals and retries keep it right*. What happens past that point is the code's behaviour, is in the
model, and is listed as a hazard. In the runs with a `CONSTRAINT` TLC stops there.

## The runs

| Run | Instance | Shows |
|---|---|---|
| `wallet_books` | 2 wallets, one of them CREDIT, 2 callers, amounts 1 and 2, one reference, all three writers | rows explain both buckets, covered debits, settlements backed, references once, the legacy copy is off by what WalletService posted, refinement of `AtomicWallet`, calls return, leases are freed, and by nobody but their holder |
| `payment_safety` | 1 payment, 2 handlers, five event types, the completed refund twice, one attempt, timeouts | one credit and one reversal, only for captured and refunded money, no paid status without a credit, no event done with before its effect |
| `payment_liveness` | 1 payment, 2 handlers, success events, the return page and the advice of ICICI, two attempts, no session older than an hour, polls by an id the gateway knows | a capture reaches the wallet although every webhook and notice may be lost; a PROCESSED advice moved its money, a PROCESSED return page left the payment open |
| `payment_session` | the same, polls by a session id | a captured payment that no poll brings in (violation) |
| `payment_waterfall` | `WATERFALL_LIVE` on | two credits (violation) |
| `flight_safety` | 1 SERIES booking, 2 calls, one seat | one debit, one ticket, money follows the booking, no forgotten ticket, lapsed holds end |
| `flight_seats` | 2 bookings, 2 calls, one seat, an edit to two seats, one amendment | seats are not sold or released twice, amendments tell the money and lock the booking |
| `flight_lcc` | 1 booking of that supplier | a refunded ticket nobody cancelled or flagged (violation) |
| `hotel_safety` | 1 booking, 2 calls, 2 debits, 2 polls, jobs delivered twice | a debit has one outcome, rooms are booked once, vouchers are real, cancellations settle once, pending bookings resolve |
| `hotel_reprice` | the same | a second attempt fails and keeps the money (violation) |
| `bus_safety` | 1 approval of 2 seats, 2 attempts, 2 calls, 2 cancellation documents | bookings are paid, approved, found again; cancellations add up; operator cancellations arrive |
| `backoffice_safety` | 2 clerks; any two of a request, two transfers, a deposit, a product, a keyed transfer | money is conserved, documents tell what was posted and moved |

Several properties are conjunctions of named parts (`MoneyFollowsBooking`, `CancellationsTellSeats`,
`TransfersTellMoves`): each part has its own comment, and TLC evaluates them all. The type invariants
are theorems (below), so the runs spend their time on the rest.

**Why these bounds.** Every race in this code is between two calls on one document: a third call adds
no new pair of steps, since nothing waits for a quorum or a queue position.

* *Wallet:* one request per caller; amounts 1 and 2 against an opening balance of 2 and an outstanding
  credit of 1 produce refused and accepted strict debits and all splits of a deposit.
* *Payments* share no state but the wallet, whose keys are per payment, so one is enough. One attempt in
  `payment_safety` still lets a job crash and come back (a stalled job is not an attempt); the second
  attempt is in `payment_liveness`, and so are the notices of ICICI. That run asks with the order's id
  (`SessionId = "order"`), for the property is false with a session: `payment_session`.
* *Flights:* one seat for two bookings makes them compete; the edit to two seats makes both fit.
  `ReadForCancel` starts no cancellation once an inventory shows more seats than it has, and
  `SaveInventory` follows no edit computed from such a read. `InOrder` ends `flight_seats` at a clobbered
  document or an amendment out of order, where its properties say nothing, and leaves out refused refunds,
  failed supplier cancellations, which touch no seat and are in `flight_safety`, and edits beside an
  amendment.
* *Hotels:* two debits (`MaxBooks`) allow for one price change; two polls for one that re-enqueues and
  one that is the last. `NothingTorn` ends a behaviour at the first torn booking.
* *Buses:* two seats make partial and stacked cancellations, two attempts a second booking on a used
  approval. `LittleWork` weighs attempts and cancellation documents as one and mishaps (a refused posting,
  a lost lock, an overruled decision, an unverified booking) as two, up to `MaxWork` = 3. The updated fare
  is dearer than the approved one; that a cheaper one changes nothing is part of the theorems.
* *Back office:* two documents of any kind at a time (`MaxDocuments`), one mishap (`MaxMishaps`), two
  postings of one document (`MaxRepeats`): what two clerks can do to each other on one document, and
  through the balance on two.

A `CONSTRAINT` cuts behaviours, which matters for liveness: `PendingResolves` and
`OperatorCancellationArrives` are checked for the behaviours that stay inside. Both name the torn
bookings as an exception already; for buses, behaviours with more work than `MaxWork` are not covered.
Symmetry permutes callers, handlers, calls, documents or equal bookings, in runs that check no liveness.

No run checks deadlock: callers finish, documents reach final states, and the system rightly stops.

## Fairness

Safety runs use `Spec`. `FairSpec` assumes no more than the platform gives:

* a running call is scheduled on (Node's event loop): weak fairness of `Proceed`; a crash is never forced;
* Redis expires keys: weak fairness of `LeaseExpires`;
* the sweeps are repeatable jobs that come back every minute or five: strong fairness of `ExpireHold`,
  since a hold may be claimed and given back between two sweeps, and of the `Sweep` that gets an answer
  from the gateway, which asks that the gateway answers infinitely often while the payment is PENDING. It
  binds only where the sweep can learn something: by a session id it never does;
* in `PaymentTxn`, strong fairness of the look-up, the credit and the save of a handler, because a crash
  may take each of them away;
  this also says that the wallet does not refuse a credit for ever;
* the jobs of a hotel are repeated by the queue and the bus poller by its cron: strong fairness of
  `ReadPending` and of `PollOperator`, and of a `FetchTicket` that is answered, because another call may
  hold the worker, and the supplier may fail to answer, any number of times but not for ever. For buses
  this binds only while the ticket is on the list: `WindowPasses` may take it off at any time, and
  `OperatorCancellationArrives` then claims nothing of it.

Nothing is assumed about webhooks, requests, customers, managers or operators.

## What is proved

Every theorem is about the specification that the runs check (`Spec`; `AmendmentSpec` beside
amendments), for all values of the constants
that satisfy the assumption of the module: sets of documents and calls of any size (finite where the model
counts them, which a platform of finitely many processes justifies), any prices, fees, taxes, bounds and
suppliers. A theorem that needs more says so in its `ASSUME`, and the table repeats it.

| Module | Theorem | Says, of the property in parentheses |
|---|---|---|
| `WalletWritersProofs` | `TypeCorrect` | types; outstanding credit is never negative |
| | `DocumentExplained` | rows explain both buckets (`LedgerExplainsDocument`); `NoLostUpdate` and `CreditExplained` are its two halves |
| | `DebitsCovered` | (`StrictDebitsCovered`) |
| | `DualWriteAgrees` | (`CacheAgrees`) for any of the writers |
| | `LeaseKept` | (`OnlyHolderReleases`, an action property) |
| | `PostsOnce`, `SettlementsTold` | (`ReferencePostsOnce`, `SettlementsBacked`) |
| | `Implementation` | the refinement of `AtomicWallet` (`ImplementsAtomicWallet`) |
| `PaymentTxnProofs` | `TypesKept` | types |
| | `CreditsOnce` | (`CreditedOnce`) with the waterfall off; on, it is false: `payment_waterfall` |
| | `CreditsMatch`, `ReversalsFollow` | (`CreditsMatchCaptures`, `ReversalsFollowRefunds`) |
| | `AcknowledgedTookEffect`, `NoticesTold` | (`AcknowledgedEventsTookEffect`) of webhooks, (`NoticesTookEffect`) of return pages and advices |
| | `RefundsStayFinal` | (`RefundsAreFinal`, an action property) with the waterfall off |
| `FlightBookingProofs` | `TypesKept`, `DebitsOnce` | types, (`DebitedOnce`) |
| | `TicketsOnce` | (`TicketedOnce`) for a positive price and no KAFILA booking |
| | `MoneyFollows` | (`MoneyFollowsBooking`) at every supplier |
| | `NoTicketForgotten` | (`NoForgottenTicket`) for SERIES and TBO; for LCC it is false: `flight_lcc` |
| `FlightAmendmentProofs` | `AmendmentTypesKept` | types |
| | `AmendmentsTellMoney` | (`AmendmentTellsMoney`) |
| | `BookingsStayLocked` | (`LockedUntilDecided`) |
| | `SeatsAreConserved` | (`AmendedSeatsConserved`, and with it `SeatsConserved`) for finitely many bookings |
| `HotelCancellationProofs` | `TypesKept`, `DebitsHaveOneOutcome` | types, (`DebitHasOneOutcome`) |
| | `RoomsBookedOnce`, `VouchersReal` | (`BookedOnce`, `VoucherIsReal`) |
| | `CancellationsSettleOnce` | (`CancellationSettlesOnce`); a cancellation that ends is credited, or logged as refused, or forfeited |
| `BusProofs` | `TypesKept`, `LostTicketsAreFound` | types, (`LostTicketIsFound`) |
| | `BookingsAreApproved` | (`OneApprovedBooking`) |
| | `BookingsArePaid` | (`BookedIsPaid`) for finitely many attempts and calls |
| | `CancellationsAreTold` | (`CancellationsTellSeats`), for any fares and any number of cancellations; the one exception to "refunded at most once" is an operator that names no refund for a ticket whose seats agents have cancelled before, and it is bounded by their part |
| `BackOfficeProofs` | `MoneyIsConserved` | (`MoneyConserved`) |
| | `KeyedTransfersSettle` | (`KeyedTransferSettles`) |
| | `TypesKnown`, `RequestsPosted` | types, (`RequestsArePosted`) |
| | `ProductsPaidOrRefunded` | (`ProductPaidOrRefunded`) |
| | `IncentivesOnceNetOfTax` | (`IncentiveOnceNetOfTax`) |
| | `TransfersTold` | (`TransfersTellMoves`) |

**Assumptions.** Each module with constants has one named assumption (`WalletsAssumption`,
`HotelAssumption`, ...), which gives their types, keeps the model values apart from each other, and asks
for finite sets where a proof counts. TLC evaluates them in the runs. A theorem about a property that
names a history variable is a theorem about the documents before the overwrite or the crash that the
variable remembers; nothing is assumed to get there.

**How the proofs go.** None of the properties is inductive alone. Each module defines an inductive
invariant (`IInv`, or one per service), which TLC has checked on small instances, and proves that `Init`
gives it and that every action keeps it: one lemma per action, or per group of actions that touch the same
state, and under it one step per conjunct.

* *Wallet.* That a commit continues the chain of rows depends on the committer having read the document it
  replaces. `IInv` supplies that: a staged document belongs to a caller about to commit
  (`StagedByCommitter`); that caller's snapshot is the current document (`CommitterIsFresh`); documents only
  move to higher versions, so a caller whose version matches has the current one (`VersionsIdentify`); what
  was checked at the read holds of the snapshot (`CheckedAtRead`). The books change only in `Commit`, so the
  theorems about them argue about one action. The lease appears in none of these proofs: version and
  transaction alone keep the books, which is what the comment on `withWalletLock` hopes for.
* *References, refinement.* `RefInv` adds that two open transactions never hold the same key
  (`KeysDistinct`), that the key of a committer is in no committed row (`KeyOfCommitterFree`), and that a
  deposit whose read is current has no settlement yet. With that a commit is a step `Post` of
  `AtomicWallet` under the mapping, and every other step leaves the mapped variables alone.
* *Payments.* A `markX` looks once and saves what it decided then, so the status proves nothing later on.
  What does is what never goes back (`Grows`): a row, a verdict of the gateway, a processed event.
  `JobKnown` says for each step which of these a call has behind it, `EventKnown` for each state of a
  webhook.
* *Flights.* The atomic claim carries the proofs. `Claimed`: one call at a time is past a claim of a
  booking, it knows whether it has debited, and only one that has not gives the booking back. That needs no
  history variable, and gives `DebitedOnce` and `TicketedOnce`. `Owned`: until a save clobbers the document
  its status says who is at work, the claimer or the one call that cancels.
* *Amendments.* `AmendmentInv` is about one booking at a time. An amendment that is not torn has one call
  at its desk at most, and the step of that call tells what was refunded (`RefundTold`). In an orderly
  booking every save finds the status its call has read, so the status tells who is at work: a claimer has
  TICKETING_IN_PROGRESS, and in CANCEL_REQUESTED it is either the one call that cancels or the one
  amendment that holds the booking, from the lock to its decision or the end of the roll-back (`Holding`,
  `HeldKnown`). A step touches one booking and one amendment (`OneStep`); that the others keep their part
  is proved once, for the operations of both modules.
* *Seats.* `Takes` says when the seats of a booking are out of the inventory: its status, a call carrying them
  one way or the other, or an amendment that holds it and has not released them. `SeatsFit` sums them over the
  bookings that do. Each step leaves that set alone, adds a booking whose seats it takes from the
  inventory in the same step, or removes the one whose seats it returns; what is left is that nobody
  returns the seats of a booking twice, which the freshness of an orderly booking and `ReleaseKnown` give.
* *Hotels.* Freshness: a call that nobody saved under since it read knows the status of its document, and a
  stale one tears the document when it saves. So until a booking is torn its status only moves forward;
  one call at a time runs the attempt that money hangs on (`OneRuns`), one call or waiting job polls
  (`OnePolls`), and one holds the cancellation. The lock is not used: it may expire under any call.
  Debits are counted: what was taken, less what was given back, is one debit for a booking that stands and
  none for one that failed, corrected by the calls between posting and save.
* *Buses.* A block key belongs to the call that blocked it until its row is BOOKED, and only then to
  cancellations; so no call finds the row in another state than it left it in (`AttemptKnown`), and a key
  whose answer was lost is looked up by the call that lost it. As long as the lock holds, its holder is
  the only call between the approval and the mark on it (`ApprovalUnused`). For the money, `Books` writes
  what was paid as the drift of fares plus two sums, over the kept rows and over what the calls hold; a step
  changes one row and one call, and `HeldKnown` says that a call holds what its row is about to cost.
* *Cancelled seats.* `CancelInv` has three layers. `CallTold`: a cancelling call has seats nobody else has,
  its row says what it credits, and a copy that is not stale is what the documents say. `CallsApart`: two of
  them share neither seats nor a row, and one is the poller's. `AttemptTold`: the refunds come to at most the
  fare of the seats whose refund may be posted (`RefundsFit`), the credits to two sums over rows and calls
  (`CreditsTold`), and a booked ticket has lost the seats of the rows and of the calls yet to write one
  (`SeatsTold`). That stacked cancellations end in CANCELLED rests on staleness: of two calls on a booking
  the one that saves last is stale, and tears it. The fares of disjoint seats add up to at most the fare of
  their union, for each part is rounded down (`FareJoins`).
* *Sums.* The library's induction theorems take an operator, which the provers cannot instantiate. But a
  property of finite sets that fails somewhere fails at a set minimal for inclusion, and that one exists by
  the library's well-founded ordering of subsets: so `SetSums` states a property as a set of sets and
  proves what the folds of the models are of no element, of one more, of one changed and of a union.
* *Back office.* A clerk works on a document of the service its step belongs to (`StepMatchesDocument`), so
  a step of one service leaves the documents and clerks of the others alone (`MovesOnly`, `DocsFrame`): the
  five services are proved one by one although they share two wallets. `MoneyConserved` is then a count:
  what left one wallet is in the other, with a clerk on the way, or `stranded`. For the documents,
  `Waiting` counts the clerks between a posting and its save; a document is out by that number.

**What the proofs changed.** `HotelAssumption` now asks for finitely many calls, since debits are counted
over them, and keeps `None` apart from the job names. The properties of `FlightAmendment` excluded torn
amendments themselves, but not what a torn amendment does to the others of its booking: its second operator
may reject, and roll a paid booking back to HOLD. Their condition is now `Orderly`. The run could not
notice, because its constraint ends behaviours at a torn amendment. `BookingAssumption` asks for finitely
many bookings and `BusAssumption` for finitely many attempts and calls: without that the sums have no value.
`BusCancellation` let the supplier refund one unit per seat, whatever the fare: after a cheaper updated fare
an agency would have got back more than it had paid. The run could not notice, because its updated fare is
dearer. A refund is now a part of the fare (`FareOf`). The credited rows are summed over their places
instead of folded over the filtered sequence, of which no lemma could be proved.

**Only model-checked.**

* Liveness: `HoldsEnd`, `PendingResolves`, `OperatorCancellationArrives`, the credit of a capture, the
  return of wallet calls. Neither fairness nor ENABLED is within reach of the prover.

No module with a theorem reaches a RECURSIVE operator.

## What the code does that its comments deny

With a run that shows it:

* With the waterfall live, webhook and poll credit one payment under two keys (`payment_waterfall`).
* A ticketed LCC booking is cancelled as if it were unsold (`flight_lcc`).
* After a price change a hotel booking that fails keeps the second debit (`hotel_reprice`).
* The sweep of a PhonePe or ICICI payment asks with a session id and never learns anything, against
  `src/docs/icici-orange-pg-migration.md:101` (`payment_session`).

In the models without a run of its own (the definition named has it):

* WalletService updates the wallet without the legacy balance (`CacheChange`); `CacheAgrees` counts by how
  much.
* The return page of ICICI is PROCESSED before its money moves (`ReturnPage`); when the call then fails,
  nothing delivers it again.
* An error answer to the poll of a pending hotel booking refunds and fails it although the room may be live
  (`adapters/tbo/mappers/book.mapper.ts:94`, `FetchError`).
* A bus cancellation whose save fails after the credit is FAILED with its money paid
  (`services/bus/cancellation.service.ts:262-266`), and the next one does not count its seats.
* An operator cancellation that names no refund pays the whole fare, also when agents have cancelled a part
  before (`services/bus/cancellation.service.ts`, processOperatorCancellation).
* A payment that timed out is not found by the settlement file (`PaymentTxn!Reconcile`).
* The cancellation fee is subtracted from the refund and debited as well (`booking.service.ts:849`,
  `ChargeFee`).
* A KAFILA ticket is refunded but neither cancelled nor flagged (`SupplierOf` = KAFILA).
* The poll of a hotel cancellation ends after one failed status call (`queues/tbo-cancel-poll.worker.ts:31`,
  `StatusFails`).
* An incentive whose tax posting failed stays untaxed, for the retry finds the credit and returns
  (`untaxed`).
* A transfer that arrived is reversed to its sender when the link of its rows fails (`minted`), and the
  debit key of a failed transfer is used up, so that a request with it can never succeed (`KeyedOutThrows`).
* The unified cancel pays the price of a BOOK_FAILED product out (`ReadToCancel`).
* Two operators, or an operator and a creator, on one amendment refund and release twice (`torn`); an
  amendment refunds the price of a booking that was never paid (`RefundAmended`).

Observed outside the models: a failed refund leaves a credited payment FAILED (`payment.service.ts:710`); a
save that read PENDING can overwrite a later status, against the transition table of
`adapters/payment/types.ts`; a hold that crashes between two writes loses its seats although the header of
the sweep calls the release atomic; a claim that crashes stays TICKETING_IN_PROGRESS with its debit; the
unified cancel credits a TBO hotel without asking the supplier (`routes/booking.routes.ts:1332`); the cap of
a manual refund is checked per call, not in sum (`routes/booking.routes.ts`, around line 1395); the
idempotency middleware answers repeated requests only once the first has ended, so overlapping ones both
run.

## What is not modelled

* Tenants, roles, signatures and validation: every call is authorised and well formed, and so is every
  message of a gateway.
* The return of maybeIssueRefund for a booking without an agency (`services/tbo/cancel.service.ts:222`): a
  booking that was debited has one, since loading the draft attaches it (`services/tbo/book.service.ts:412`).
* A save that throws, outside of hotels (`WriteFails`), bus cancellations (`SaveCancellationFails`) and the
  notices of ICICI: elsewhere it ends its call like a crash at that place, which every module has.
* Development fallbacks: a single-node Mongo without transactions, the fake ticket of a failed supplier.
* The inline processing of a webhook when the queue is down (in the models, such a webhook is lost).
* Amount mismatches in settlement files, batches, reports, invoices, documents and wording.
* Charges: policies, slabs, rates and fees are choices from small sets or one unit.
* Approval chains, thresholds and four-eyes rules: who may decide is not asked.
* The creation of wallet documents: instances start with one per agency.
* Search, pricing, supplier wire formats and their circuit breaker: pure or external.
* The web application (more than half of the repository's lines), PDF rendering, admin screens, reports
  and CRUD routes: they keep no state on which two steps could disagree. This is why the share of lines
  the models stand for is small although the components that move money or seats are modelled.
* Components with status `not_modelled` in `PROJECT.json`, each with its reason.

## The plan

Done: the wallet, payments, flights with amendments, hotels and buses with cancellations and the back
office are modelled and checked, and every safety property that a passing run checks is a theorem. What
remains: the liveness properties, which stay with TLC, and the parts listed as `partly` or `not_modelled`
in `PROJECT.json`, of which the idempotency keys and the poll of flight cancellations move state that the
models could be joined to.
