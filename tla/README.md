# Verification of coti's API core

coti turns a customer's request for quotation into a quote: the seller reviews its lines, sends it
over one or more channels, the customer answers through a public link, and an accepted sale is paid
and invoiced at ARCA. This directory holds TLA+ models of the core of `src/apps/api`, the TLC
configurations that check them on small instances, and TLAPS proofs that hold for any instance.

Paths below are relative to `src/apps/api/internal/` unless they start with `src/`.

## The system

Every service runs in one Go process (any number of replicas) over PostgreSQL. There are three ways
in: HTTP handlers for sellers, public handlers for customers, and tickers and scheduled jobs. What
they share is the database: transactions with row locks, conditional `UPDATE`s, unique indexes and
advisory locks. Providers (WhatsApp, mail, ARCA, storage, AI) are called outside transactions.

| component | state it keeps | operations | modelled |
|---|---|---|---|
| Quote lifecycle (`services/quote_service.go`, `services/quote_version_clone.go`, `repository/quote_repo.go`) | status, archive flag, current version, expiry, payment mark; the versions and which are frozen | accept materials, edit lines, transition, reactivate to resend or to edit, archive, mark paid | yes |
| Representation (`services/quote_representation_service.go`) | one snapshot and PDF per version | Ensure: freeze, render, store | yes |
| Delivery and public link (`services/quote_delivery_service.go`, `repository/quote_send_repo.go`, `repository/client_action_repo.go`) | one row per idempotency key and channel; the customer's answers | Send (ensure, prepare, dispatch, confirm), replay, respond | yes |
| Auto-archive (`services/quote_auto_archive_job.go`) | none of its own | two sweeps | what they select |
| Conversation batches (`services/conversation_*`, `repository/message_batch_repo.go`) | messages, windows and batches, handler decisions | append, close, claim, handle, settle, retry, release, reclaim, discard | yes |
| Invoicing (`services/invoice*_service.go`, `repository/invoicing_repo.go`, `arca/invoicing/`) | vouchers, their numbers, ARCA tickets | hold, authorize, settle, recover, credit | yes, without tickets, fiscal settings and amounts |
| RFQ pipeline (`services/rfq_service.go`, `services/public_rfq_service.go`) | orders, items, AI generations | intake, inline interpretation, draft, edit | intake and edits of a draft; not what matching finds |
| Attachment extraction (`services/attachment_extraction_job.go`, `services/rfq_attachment*.go`) | a claimed queue of files | upload, claim, read, fold, close, expire | yes |
| Scheduled jobs (`services/job_service.go`, `repository/job_run_repo.go`) | job runs | lock, run, record | the lock and its connection |
| Pools and advisory locks (`repository/db.go`) | two finite pools | transactions, nested locks | locks as variables; pools planned |
| Authentication (`services/auth_service.go`, `services/token_service.go`, `services/customer_*`) | sessions, refresh and one-use tokens | login, rotate, consume | planned |
| Inbound channels (`services/*inbound*`, `services/gmail_*`) | reserved messages, mailbox cursors | receive, reserve, sync, route | reservation and retries |
| Client contacts (`services/client_contact_*`) | contacts, verifications, merges | verify, merge, associate | planned |
| Discount engine (`services/discount_engine.go`, `services/discount_sweep.go`, `services/rfq_service.go`, `services/conversation_review_service.go`, `repository/quote_discount_repo.go`) | the discounts of a version, its total | evaluate, sweep after each edit, type, suppress, restore, copy to a new version, adapt to a request, discard the handler's changes | yes, without the archive flag |
| Catalog, prices, search, branches, reports, exports | rows | maintenance | no: data |
| Storage, mail, PDF, AI, messaging adapters | none | I/O | no: they answer or fail |
| HTTP layer, `src/apps/webapp`, `src/apps/backoffice`, `src/packages` | none | presentation | no |

How they interact. `Send` calls `Ensure`, which commits its own transactions, then prepares the rows
in a transaction, calls the providers outside any, and confirms in a last one; two advisory locks
held on connections of their own keep a second send or a second rendering of the quote out.
Customers answer in one transaction that may open the next draft and queues their message; the batch
handler moves the quote in one transaction, calls the model, and writes what it proposed in another.
The invoice service reads an accepted quote, holds a voucher and calls ARCA. The sweeps that archive
update quotes conditionally. The one that reads attachments does not: it reads the quote, asks the
model for minutes and opens a version (`persistDraftVersion`) on whatever the quote has become, so
every module that keeps a quote's versions has that step.

What is hard: a request spans several transactions while every other actor goes on; a provider may
have acted although the process died; an advisory lock may be lost with its connection; several
links of the same version are live at once; a quote may be reopened while an answer or a
confirmation is on its way. PROJECT.json lists each hazard at its line with the properties that
would catch it.

## Modules

`QuoteLifecycle.tla` is the abstract specification: status, version shown, whether it is a draft,
whether the sale stands. It says nothing of who acts or of how a delivery works.

`QuoteDelivery.tla` is one quote with everything that happens to it. A step is one database
transaction or one call outside the database.

| code | model |
|---|---|
| row of `quote` | `status`, `archived`, `current`, `expiry`, `paid`, `invoiced` |
| rows of `quote_version` and their lines | `versions` (the numbers taken), `frozen`, `content` |
| rows of `quote_representation` | `representation[v]`, the content rendered |
| rows of `quote_send` | `sendVersion[k]` and `tracking[k][c]` by idempotency key and channel; `lapsed` |
| rows of `client_action` | `actions` |
| a message batch waiting | `batch` |
| a run of `attachment-extraction` that read the quote as a draft | `folding` |
| a seller request being served | `request[r]`, with the local variables of `sendLocked` |
| advisory locks | `deliveryLock`, `representationLock` |

Seller transactions are one action each (`EditLines`, `AcceptMaterials`, `Transition`, the two
reactivations, `Archive`, `Unarchive`, `SetPaid`). A `Send` is `StartSend`, then `Represented` or
`Freeze` and `CreateRepresentation`, then `PrepareNew` or `PrepareReplay`, `Dispatch` and `Commit`;
`StartGenerate` is the request that only makes the PDF. `Abandon` ends a request at any point: a
refusal, an error, a rollback or the death of the process, which all leave what was committed.
`LoseDeliveryLock` and `LoseRepresentationLock` are the connection that holds a lock dying while its
handler goes on. The customer's side is `Lapse`, `Respond`, `RequestChange` and `Reply`, the batch
handler's `HandleBatch` and `RefuseBatch`, the archiving sweeps' `AutoArchive`, and `HoldInvoice` and
`ReleaseInvoice` say when a voucher stands. A run of the attachment sweep is `FoldReads` (the quote is
an unarchived DRAFT), then `FoldVersion` or `FoldEnds` at any later moment. Every new version is
`OpenVersion`, which the two unique indexes refuse beside a draft.

`MCQuoteDelivery.tla` adds the symmetry the runs use; keys, requests and contents are
interchangeable and no property orders them.

`QuoteDelivery_proofs.tla` holds the theorems.

Abstractions worth knowing when reading QuoteDelivery against the code:

- Lines, prices and discounts of a version are one value of `Contents`; `content` of a number not yet
  in `versions` has no meaning.
- Deadlines are not clocks: `Lapse(k)` may happen at any time after the send is completed, in any
  order between sends, because the seller picks the validity of each. The quiet time of the sweeps
  is likewise left out, so `AutoArchive` may happen whenever its selection allows.
- `invoiced` is what `HasLiveInvoice` answers. How a voucher gets there is `Invoicing.tla`.
- Sending to the customer portal cannot fail in `dispatch`, so a batch always has a success and the
  branch of `sendLocked` without one is unreachable.
- An idempotency key that belongs to another quote makes `CreateBatch` conflict
  (`loadConcurrentReplay`); with one quote that is an `Abandon`.
- `Reply` may follow any live link, where the router picks the latest: it only sets `batch`. What the
  handler writes after the model answered is an `EditLines` step.
- Status history, recipients, seller copies, the waiver of an invoice and handler decisions are written in
  the transactions modelled and never read by a guard of theirs. `RecordClientAction` has no caller
  outside tests.

`SaleBooks.tla` is what invoicing promises for each sale: ARCA's record and Coti's books move in
turns, nothing is authorized that the books do not wait for, nothing is booked or dropped against
ARCA's record, and a billed sale is not reopened.

`Invoicing.tla` is the vouchers of one branch: the quotes that share its numbers, the account's
switch and connection, the rows of `invoice`, ARCA, and the handlers being served.

| code | model |
|---|---|
| `quote.current_status`, `archived_at`, current version, `invoice_waived_at` | `accepted`, `archived`, `version`, `waived` |
| a current version without prices, as the attachment sweep opens it | `unpriced`: `invoiceIssues` refuses it, no freeze or reactivation takes it |
| `account.invoicing_enabled`, the row of `arca_setup` | `enabled`, `connected` |
| rows of `invoice`, in order of `created_at` | `voucher[r]`; `stale` says `updated_at` is older than `ReconcileAfter` |
| the partial unique indexes | `ActiveQuoteTaken`, `CreditNoteTaken`, `PendingSeriesTaken`, `NumberTaken` |
| a request or an answer of FECAESolicitar | `wire[r]` |
| what ARCA authorized in a series | `arca[kind]`, a sequence: a number is a place in it |
| the locals of `Issue`, `IssueCreditNote`, `Recover` | `worker[w]` |

`Issue` is `IssueOpens` (the first transaction), `ClaimRecovery`, `ReadBack` and `Reconcile` when a
stale row is found, `Hold`, then the adapter's `TakeNumber`, `ClaimNumber` or `ClaimFails`, `Solicitar`
and `Answered`, or `BreaksOff` and `RecoverIssued`, and at last `Settle`. `IssueCreditNote` is
`CreditNoteOpens`, the same steps, and `HoldCreditNote`; `Recover` is `RecoverOpens` and the
reconciliation alone. `Stops` ends a handler anywhere with nothing written: a death, a deadline, an
error of the database. The other actions are the quote's and the account's handlers (`Accept`,
`Price`, `ChangeRequested`, `Reactivate`), the attachment sweep's `FoldVersion`, ARCA, the network,
another billing system and the clock.

What the model abstracts:

- A voucher's receiver, total and day are the sale it bills: `matchesPending` compares them, so two
  sales never look alike here. `LookAlikes` says for which sales another system may issue a voucher
  that does; such a voucher is adopted as the sale's own (below), so what the record and the books
  promise is stated of the other sales, `Distinct`. The confirmation the seller sends (fingerprint, type, total) always matches.
- One ARCA environment and one letter per kind of voucher, so a branch has one series per kind.
- Deadlines are the flag `stale`. `GoesStale` assumes what `config.Load` requires, `ReconcileAfter`
  longer than `IssueTimeout`, so nobody is still asking ARCA for a row that goes stale; that ARCA takes
  or drops a request before `ReconcileAfter`; and that the first two transactions of `Recover` lie
  closer together than it. A handler that has its answer may still be slow to write it.
- The reactivation of a paid sale is QuoteDelivery's matter, and so is whether a version is frozen, but
  for the sweep's, which cannot be: `Reactivate` here may happen more often than in the code, and so
  may `FoldVersion`, which asks only that the current version is priced.

`MCInvoicing.tla` adds the symmetry of workers and of sales. `Invoicing_proofs.tla` holds its theorems,
`InvoicingBooks_proofs.tla` the one that it implements SaleBooks.

`CustomerInbox.tla` is what the conversation queue promises for each message of a customer: it is
answered by a run of the handler before it counts as handled, what is handled stays so, and what was
given up may come back.

`ConversationBatches.tla` is the conversation of one sent quote. The quote moves as `QuoteLifecycle`
allows, which `QuoteDelivery` implements; its `LateDraft` is the attachment sweep's.

| code | model |
|---|---|
| rows of `quote_message` | `batchOf[m]`: unsent, without a batch, or its batch |
| rows of `message_batch` | `batch[b]` with status, attempts, failure reason and whose claim it is; `order` by `closed_at` |
| `last_message_at` and `window_deadline` of the open window | `window`, in ticks |
| rows of `handler_decision` | `undecided`, and `runs[b]` since the attempts were last counted from 0 |
| one pass of the sweep, with the locals of `Handle` | `worker[w]` |

The transactions of the customer and the seller are `AppendMessage`, `ChangeRequest`, `Freeze`,
`QuoteMoves`, `SetArchived`, `RemoveLines`, `DiscardAIChanges` and `RetryBatch`; the sweep is `Tick`,
`CloseDue`, `ReclaimStuck` and, in a worker, `Claim`, `Prepare` or `PrepareRefused`, `Propose` (the call
of the model), `Apply`, `RecipesExhausted`, `ApplyRefused` or `HandleFails`, then `Settle`. `Release` is a
shutdown that hands the claim back, `Dies` a death anywhere or a settlement that is not written. A
worker whose claim was reclaimed goes on: only `Held` tells it so.

What it abstracts: what a recipe writes on a line is data, and `moved` says that lines a pass read
are not on the draft any more. A claim's expiry is not a clock: `ReclaimStuck` may happen at any time.
What the model shows besides the properties: a batch may be handled twice, when a worker dies after
`Apply` and before `Settle` (`RunsAreCounted` says the first run was counted); a change request that
waited for the quote's lock closes its batch with an earlier `closed_at` than batches already taken
(`late`); a seller's retry takes the place the batch had, so that retries without end keep the next
batch waiting.

`ConversationBatches_proofs.tla` holds its theorems.

`OrderIntake.tla` is one order on its way to a quote, from the message or request it arrives as to the
sweep that reads its files.

| code | model |
|---|---|
| row of `rfq`, of `inbound_channel_message` | `rfq`, `reserved` |
| `quote` and its current version | `quoted`, the variables of `QuoteLifecycle`, `archived` |
| rows of `rfq_attachment` | `file[f]`: status, and whose claim `processing_started_at` dates |
| the advisory lock of a message | `lock` |
| a webhook, a public request or a seller's request being served | `delivery[d]` |
| a run of `attachment-extraction`, with its job lock and connection | `sweep[s]` |

`entry` is one of the five ways in. A delivery is `Deliver` or `SellerAsks`, `Reserve` (or `FindEmail`
and `StoreEmail`), `Receive`, `StoreForRFQ` or `StorePendingForRFQ`, `Interpret`, and `Persist`,
`MarkFailed` or `Defer`. A run of the sweep is `StartSweep` (the lock and the claim), `ReadFile` per
file, `Decide`, `Extract` or `ExtractFails`, `WriteDraft`, `WriteVersion` or `FailOrder`, `CloseOut` per
file and `Finish`. `Stops` and `SweepStops` end them anywhere; `LoseLock` and `LoseConnection` are the
connection of a lock dying while its holder goes on.

What it abstracts: `Readings` says what a first attempt makes of a message, not how a conversation or
a name is recognised; `Interpret` and `Extract` may end in every way the pipeline has; the expiry of a
claim is not a clock; the payment mark and vouchers of the quote are left out. A run works on the
files of this order only, so a run that finds none of them is not started.

`OrderIntake_proofs.tla` holds its theorems.

`DiscountEngine.tla` is the promotion evaluator, as operators: candidates of each rule, their rank, the
conflicts between them, suppression. `Discounts.tla` is one quote under it. `DiscountEngine_proofs.tla`
holds the lemmas about the evaluator, `Discounts_proofs.tla` the theorems about the quote.

| code | model |
|---|---|
| rows of `promotion` with conditions and tiers | `rule[p]`; the promotions are numbers in the order of their ids |
| rows of `quote_item` of the current version | `line`, a function from line ids, with product, quantity, price and floor |
| rows of `quote_discount` and `quote_discount_item` | `discount`, a set of records with the lines they name |
| `quote_version.total` | `total` |
| `quote_version.frozen_at` of the current version | `frozen` |
| lines and decided discounts of the version frozen last | `sent`, which `DiscardAIChanges` goes back to |
| `evaluateDiscounts`, `resolveCandidates`, `suppressedBy` | `EvaluateDiscounts`, `ResolveCandidates`, `Free` and `Holding` |
| `discountSweep.settle` | `Settle`, `Persisted`, `Followed` and `TotalOf` |

Every handler that edits a quote ends in a sweep within its own transaction, so each is one action
that writes `Settle` of what it changed: `AddItem`, `UpdateItem`, `DeleteItem`, `AcceptMaterials`,
`Reopen` (the next version, from `SellerDecisions`), `AddDiscount`, `EditDiscount`, `DeleteDiscount`,
`SetSuppressed`, `DiscardAIChanges`. The batch handler's are `ReplaceItem`, `AddsPromotion`,
`AdaptToLowerTotal` and `RunRecipe`. Three kinds of step sweep nothing: `ReplaceRule`, an
administrator's; `Freeze`, `Publish`, `ReactivateForResend` and `TakeUpDraft`, which write neither
lines nor discounts; and `FoldVersion`, the attachment sweep's version, whose lines have no price and
which carries no discount.

What it abstracts: money is a number of the smallest unit and a subtotal is price times quantity. A
condition on a family or a subgroup is the set of its products (`targets`). The branch's prices are
constant. A customer's proposal is one operation, or one with a promotion asked for beside it. The
archive flag is left out, and which runs of the handler a discard rejects is kept by
ConversationBatches: here `DiscardAIChanges` may happen on any draft of a change request. A check
constraint that a sweep would break refuses the whole transaction (`Writable`). Nothing reads the figure of a row that is off, so `Marked` drops it.

## Runs

| run | instance | question |
|---|---|---|
| `quote_resends` | 2 keys, 1 request, 2 contents, 2 versions | what was shown is what is stored; one answer per version; a settled sale stands; on an archived quote only what had begun is finished |
| `quote_requests` | 1 key, 2 requests, 2 contents, 2 versions | two requests on one key with locks lost: inductive invariant, final outcomes, the lifecycle |
| `open_offer_takes_answer` | 2 keys, 1 request, 1 content, 2 versions | something the documentation says, which TLC shows the code does not keep |
| `invoice_races` | 1 sale, 2 workers, 3 rows, 2 versions | the inductive invariant; billed once; a billed sale stands and is not waived; nothing waits unreachable; the refinement of SaleBooks |
| `invoice_series` | 2 sales, 2 workers, 2 rows, 1 voucher of another system | nothing authorized is lost, rows agree with ARCA, sales that share a series do not cross their numbers |
| `batch_races` | 1 message, 2 workers, 2 attempts, 2 versions | with deaths, reclaims and late workers: runs are counted, a lost claim changes nothing, no undecided run on a frozen version; the inductive invariant |
| `batch_queue` | 2 messages, 1 worker, 1 attempt, 2 versions, fair | no message is stranded, batches in order, the refinement of CustomerInbox, every message settles |
| `intake_deliveries` | 5 ways in, 2 deliveries, 1 run, 2 files, 1 version | a message becomes one thing; an order in progress is worked by somebody; a file closed as read was weighed |
| `intake_sweeps` | an upload, 1 delivery, 2 runs, 1 file, 2 versions, fair | a run closes only what it still claims; every file is closed in the end; the inductive invariant |
| `discount_sweeps` | 2 lines, 3 promotions one of which changes, 1 typed discount | each step leaves what a sweep would leave; promotions neither stack nor pass a floor; the first ranked claims; what the seller decided stands; the inductive invariant |
| `reviewed_is_not_rewritten`, `uploaded_file_is_read` | an upload, 1 run, 2 files, 2 versions | something the documentation says, which the code does not keep |

Of the quote's runs: the channels are one external channel and the portal, which is enough for a
batch with a failure and a success. One run of the attachment sweep may be under way, whose version
may land at any later moment. Two contents tell an edited version from the one rendered. Two keys are a send and a later
resend; a third adds no new relation between two sends. Two requests are the most a lost lock
lets overlap for a pairwise race. Two versions let a send be late. The bound
`MaxVersion` stops cloning, so the quote can still do everything else at the bound, and no run
switches deadlock checking off. The proofs below remove all of these bounds.

Of the invoicing runs: two workers are a handler and the one that races it, the second of which also
recovers what the first left behind. Two rows are a voucher and its retry or its credit note, three
an invoice, its note and the invoice again. Two versions let a hold find another one. A voucher of
another system takes a number that a handler was about to claim, and the handler asks again.
`MaxRows` stops a hold, `MaxVersion` a new version, `MaxForeign` the other system. `LookAlikes` is empty in these runs: no
other system issues a voucher equal to a waiting one. With one, the states are too many for a run of
this size; the proofs hold for any `LookAlikes`.

Of the batches: two workers are a late one and the one that took its batch; two attempts let a batch
come back once before it fails. Two messages make two batches, or one of two. The window waits one
tick and lasts two, so that a second message extends it to its cap. `MaxVersion` 2 lets a draft be
frozen and followed. Deadlock is checked.

Of the intake: two deliveries are one that lost its lock and the one that overtakes it; two runs are
the same for the job lock; two files are one that is read and one that is not. One version is enough
where the question is the order and not its quote, two let the sweep write one. Deadlock is not
checked: an order whose request died and whose files are all closed is the end of the behaviour.

Of the discounts: a line promotion with a threshold, a set that takes that line and another, and one on
the total that is also an exclusive rule when it changes are the pairs the resolution decides
between. One discount is typed, of an amount on one line. Quantities are 1 and 2, below and at the
threshold. `HandPrices` is empty: a typed price is in the model and not in this instance. The run's constraint
`OneDecisionEach` keeps what comes after a freeze small: it goes on only from a frozen version that
asks for two bricks and the sand (the quantities that earn every promotion), and while that version and
the draft after it carry at most one decision of the seller each. States before the first freeze are all visited, and a
draft reopened, discarded or opened by the attachment sweep has every edit that keeps to it. A
customer's request that repeats the quantity a line has is left out: it would only sweep again. Deadlock is checked.

The violation runs are three disagreements between documentation and code:

1. The answer of a version is shared by all its sends, so after a reactivation to resend the new
   link replays the old answer and the quote stays SENT (`OpenOfferTakesAnswer`).
2. The sweep reads the quote before the model runs and not again, so a quote frozen or sent meanwhile
   gets a new current version, where `scheduled-jobs.md` says nothing is written
   (`ReviewedIsNotRewritten`).
3. A file added to an order under review never reaches it: the draft version that should hold it is
   refused by `uq_quote_version_draft`, its claim expires, and it is extracted again
   (`UploadedFileIsRead`).

These disagreements are in the models and have no run:

- The version of a late attachment sweep also lands on an archived quote, where the comment of
  `FoldAttachmentsIntoQuote` says archived counts as reviewed, and on an accepted and billed one. Such a
  sale keeps its voucher, but shows a version without prices: it cannot be invoiced again after a
  credit note (`NothingMissing`), edited (it is ACCEPTED) or reactivated (its version is not frozen)
  (`FoldVersion` of QuoteDelivery and Invoicing).
- The version of a late attachment sweep carries none of the seller's discount decisions, where
  `rfq-pipeline.md` says every copy of a sent version does: it is no copy, and nothing brings them back
  (`FoldVersion` of Discounts). A discard loses those taken on the draft too, which the same document
  says of it (`DiscardAIChanges`).
- A send confirms without looking at the archive flag again, and without looking at the version again:
  a late confirmation of version 1 marks an unfrozen version 2 as sent (`Commit`).
- The inactivity sweep looks at the deadline of the last send, so it may archive a quote that an
  earlier link can still accept (`AutoArchive`).
- A quote sent and closed by hand was never frozen and cannot be reactivated
  (`Transition`, `ReactivateForResend`).
- When another system's voucher stands under the number a lost request claimed, the row is neither
  adopted nor released, now or later, and the index on pending series keeps the branch from holding
  another voucher of that kind; when that voucher is for the same receiver, total and day, it is
  adopted as the row's own (`Reconcile`).
- The hold of an invoice does not look at the archive flag again, nor the hold of a credit note at the
  connection.
- A batch that ended in a no-match is recorded on a quote archived meanwhile (`Apply`), where
  `rfq-pipeline.md` fails such a batch at once.
- `markRFQFailed` does not look at what the order has become: an order the sweep drafted a quote for
  ends FAILED when its inline request gives up later (`MarkFailed`).
- An order whose request dies between its transactions, or whose failure `markRFQFailed` could not write
  and only logs, stays as it was and nobody works it (`Stops`).
- A file whose storing fails leaves its order RECEIVED, which `rfq-pipeline.md` reads as "the sweep has
  it" (`Stops` in `storing`).
- An outage of the storage or of the transcription closes a file FAILED as if it were unreadable
  (`ReadFile`).
- The retry of a public file order stores nothing when a seller added a file in between (`Receive`).

- A discount still earned keeps its action and scope when its rule's changes, where
  `discount-engine.md` says a changed rule reaches a quote at its next sweep; a fixed amount above 100
  on a row kept as a percentage breaks a check constraint, so every edit is refused until the seller
  takes the discount off (`Persisted`, `Writable`).
- Of two suppressions on overlapping lines, each holds its lines although restoring it is refused for as
  long as the other holds the line they share: `Holding` lifts one with the others not holding, where
  the comment of `evaluateDiscounts` says a suppression holds only while restoring it would succeed.

The properties that hold say what the code keeps beside these, and name them where they touch:
`ArchivedOnlyFinishes` lets a delivery or an attachment sweep that had begun write once;
`LifecycleSpec` has the sweep's version as a step (`LateDraft`); `BilledSaleStands` lets a billed sale
show the sweep's version after the one that was billed; `SellerDecisionsStand` lists the discard and the
sweep beside the customer's request, and says what a discard gives back; `ReceivedIsWorked` leaves out
behaviours in which somebody died (`mishap`).

## Fairness

QuoteDelivery and Invoicing state safety only: a request may be abandoned at any point, and nothing in
the code retries a send or a voucher; a row of unknown outcome is read back when a seller presses
again. Discounts states safety only: each of its steps is somebody's request. The two queues have schedules, and fair specifications.

`ConversationBatches!FairSpec`: the API's ticker and the scheduled job run the sweep for as long as
some process is up, so time passes (`Tick`), due windows are closed (`CloseDue`), claims that are held
too long are reclaimed (`Reclaim`), and each pass goes on (`Works(w)`), where `HandleFails` stands for the
timeout of a provider that does not answer. Weak fairness is enough: none of these is disabled by
another for ever. `EveryMessageSettles` excludes two ways of going on for ever that the code allows:
shutdowns hand a claim back uncounted, and a seller may retry without end. Deaths it does not exclude:
they are counted.

`OrderIntake!FairSpec`: the schedule fires and in the end finds every claim expired (`Fires`), a run
goes on (`Folds(s)`), and a model that is asked again and again answers some day (strong fairness of
`Extract`, because `ExtractFails` disables it each time). `FilesAreClosed` has two premises: runs do not stop or lose their
connection for ever, since claims are not counted; and the quote does not stay an unreviewed draft,
where `UploadedFileIsRead` shows that the file is never closed. Nothing is asked of sellers, customers or
deliveries in either.

## Proofs

`QuoteDelivery_proofs.tla` proves, for all values of the constants under `DeliveryAssumption`, every
property the two passing runs of the quote check. `DeliveryAssumption` only says that the bound on versions is
a positive number, that a version can hold something, that runs of the attachment sweep are not requests, and
that the markers for "no key", "no content" and "nobody" are not values of their sets.

The invariant `IInv` is needed because the properties are not inductive alone: a snapshot is
faithful because the request that stores it still holds the content it froze
(`RendersTheFrozenSource`); an answer is about what was shown because a send is prepared only for a
version with a snapshot (`DispatchesARepresentation`, `SendsAreRepresented`), and a key has no rows
before it has a version (`RowsAreOfASend`), so nobody rewrites an outcome.

The argument: `StepFrame` says which actions can disturb each group of variables, so each part of
the invariant only looks at those. `FrozenStays` is the centre: lines are written only where the
current version is mutable or at the number a clone takes, which is not frozen. From it follow
`SnapshotStep` and `RenderStep`, from these that answers address what was shown, and
`FrozenIsPermanent`. `OutcomeStays` does the same for the rows of a send. `ArchivedWritesFinish` goes
through the actions that an archived quote still has, each of which ends or advances something under way. `LifecycleStep` maps each
step to a step of `QuoteLifecycle` or a stutter, with `WorkHasDraft` for the batch handler and
`StandingSaleIsAccepted` for vouchers. The temporal theorems combine these with PTL.

`ConversationBatches_proofs.tla` proves every safety property of the conversation queue, for all
workers and any number of messages, attempts and versions. `BatchesAssumption` only says that the
bounds are natural numbers (attempts and versions positive), that a window may be extended past one
quiet period, and that "nobody" is not a worker.

The invariant `IInv` adds to the properties what makes them inductive: windows and batches are
numbered as their messages came (`WindowsFollow`, `BatchesFollow`, which also keeps an attempt for
every batch that is waiting), and a pass that still holds its claim knows whether its run was
written (`HoldersKnow`). Without the last one `RunsAreCounted` cannot be kept: a settlement counts
the attempt of a pass, and only `HoldersKnow` says that this is the pass whose run is on record.

The argument: `QueueFrame` and `PassFrame` say which actions write the rows of the queue and which
move a pass, so each part of the invariant looks only at those. `MessageArrives` and `RowMoves` say
what one append and one change of a row do to the queue; `QueueIsInOrder` follows from where a row
stands (`PlacesStand`) and when its place is taken (`PlaceTaken`); `ImplementsInbox` from what a step shows of each
message (`Shows`). `LateRunsAreHarmless` is the same case split without an invariant: each write
of a pass asks `Held` in the transaction that writes.

`Invoicing_proofs.tla` proves every invariant of Invoicing, for any sales, handlers, rows, versions and
vouchers of other systems. `InvoicingAssumption` only says that the bounds are natural numbers, that
`LookAlikes` are sales and that the marker for "no quote" is not one; the timing that `GoesStale` assumes
is in that action and not in a hypothesis.

The properties are about rows and ARCA's series, and none is inductive without what the handlers know.
`IInv` says it in parts: `JobsHoldRows` (a handler's row was filed), `HandlersDoNotCross` (one handler
issues a row, and nobody reads back a row whose answer may still come), `RequestsFollow` (a request on
its way is for a row nothing was authorized for, an answer has its handler), `NumbersFollow` (the number
a handler holds is the one its row claimed) and `VerdictsFollow` (a verdict of "authorized" names ARCA's
own voucher, one that frees the row finds none). `OneStands` and `OneWaitsPerSeries` are what the partial
indexes keep among rows, `ArcaIsFiled` and `VouchersAreFiled` what a series and a row refer to.

The argument: `RowsAreWritten` says that a step writes at most one row, and how (`Dates`, `Claims`,
`Issues`, `Drops`, `FilesInvoice`, `FilesNote`), and `ArcaGrows` that a series only grows at its end. So the
parts about rows are proved from the row that was written, and the parts about handlers action by
action: what handlers know of other rows is kept (`SameView`, `DatedView`, `GrownView`), and of this row
`AloneWithRow` says that nobody else acts on it. `NothingIsBilledTwice` is then no step argument: what is
authorized was issued or waits (`NothingAuthorizedIsLost`), of those rows one stands per sale
(`OneStands`), and an issued one bears its number (`RecordAgreesWithArca`, which needs that a series is
never rewritten).

`InvoicingBooks_proofs.tla` first reads the books off the rows (`BooksByRow`, `BilledByRow`: whether ARCA
bills a sale is decided by the one row that stands), then maps each way a row is written, and ARCA's
own steps, to a step of SaleBooks or a stutter (`OutcomeBooks`, `InvoiceFiledBooks`, `NoteFiledBooks`,
`AuthorizedBooks`, `SaleBooksMove`).

`OrderIntake_proofs.tla` proves every safety property of OrderIntake, for any deliveries, runs, files and
versions. `IntakeAssumption` only says that there is a way in, that the bound on versions is a positive
number and that "nobody" is neither a delivery nor a run.

Of the properties only `OneOutcome` and `DoneWasWeighed` are close to inductive. `ReceivedIsWorked` is
not: a run that lost its connection and its claims goes on and may end with nothing done, so the
invariant has to name who is bound to settle an order (`ReceivedIsSettled`, `SettlesIt`): a request past
the intake, a run that is about to write or to fail the order or that has lost all of its files, or a file
in the queue. `RunsAreAlone` says that a run with its connection is the only one and that its claims are
its own, which is why `closeOut` may close files without asking for the claim; `RunsAreWeighed` says that
files are closed only when weighed. `IntakeFollows` and `OrderIsThere` tie a delivery, a run
and a quote to the order and to the file of an upload that its request may hand back to the sweep.

The argument: `OrderMoves` and `FilesMove` say how a step may move the order and a file (`Stored`,
`Returned`, `Claimed`, `Closed`), `RunsMove` how it may move a run (it starts, it shrinks, or it knows what
it weighed). The parts about files and runs follow from those; the part about deliveries is split into the
one that moves (`DeliveryFollows`) and the others, of which what they know stays true (`FollowsStays`).
`SettledStep` follows the order from one holder of the duty to the next (`InterpretsOn`, `SettlesOn`,
`WaitsOn`). `RunsCloseTheirOwn` is read off `FilesMove`.

`DiscountEngine_proofs.tla` and `Discounts_proofs.tla` prove every property of Discounts, for any lines,
products, slots, promotions and rules. `RulesAreNormalized` is what the service validates before it stores
a promotion; `DiscountsAssumption` says that ids are ordered, that a version has finitely many lines and
an account finitely many promotions, that scopes and actions are those of the schema, and that no figure
is negative (priorities may be).

The evaluator folds over sets: sums of money, the candidates in the order of their rank, the recipes' plans.
What such a fold computes is proved without an induction theorem, from a smallest counterexample:
`SmallestSubset` and `LeastNatural` take it from the well-foundedness of the strict subset order and of
the naturals, `FoldExists` and `SumIs` say what a fold and a sum are. A CASE whose guards overlap is
an arbitrary choice, and one cannot prove from it which promotion wins; so the model has the order of the
code's own branches (`LineFigure`, `Resolved`).

The centre is `Resolution`: of finitely many candidates, `ResolveCandidates` accepts a set that shares no
line, has at most one on the total, serves the first ranked and is alone where an exclusive one takes the total
(`IsResolution`). It follows from `RanksAreTotal` and `RanksAreTransitive` stage by stage
(`StageGoesOn`). `EngineKeepsFloors` adds each stage's amounts to the headroom the one before left.

`EngineOwned` rows are written in place, so their kind may be of an older rule. The invariant is therefore
about rows and not about rules: `EarnedStaysApart` and the floors hold of what was swept with any
rule, the rest of `PromotionsDoNotStack` and `FirstRankedClaims` only while the rows say what the rules
give (`Swept`). `Shows` is what ties the two: rows and evaluation have the same keys, figures and lines.
`SettledShows` says that a sweep leaves this, `ShownIsSettled` that rows which show it are left alone by
a second sweep, `ShownStayApart` and `ShownKeepFloors` that such rows satisfy the invariant. Every handler
ends in `Settle` or in a marking of what a sweep left (`Sound`), which gives `StepIs` for each
action and `SweepIsSettled` at once. `Keeps` follows a seller's decision through an action in the same way.

What is only model-checked: both liveness properties, since fairness is outside the prover, and the
disagreements above, which are about single behaviours.

## Plan

1. (done) The quote: lifecycle, versions, representation, delivery, answers, and its proofs.
2. (done) Invoicing, its proofs and its refinement of SaleBooks.
3. (done) Conversation batches: windows, claims, reclaims, retries, late workers, liveness.
4. (done) Order intake and attachment extraction, with the reservation of messages and the job lock, and
   the proofs of its safety.
5. Pools and advisory locks: nested locks on a finite pool. Deadlock.
6. Refresh rotation and one-use tokens; then mailbox cursors, contact verification and merge.
7. (done) The discount engine and its sweep, with discards and the attachment sweep's version, and its proofs.

Proofs follow each module: type invariant, its main safety invariant, then its refinement.
Out of the prover's reach and left to TLC: liveness under fairness, and ENABLED. No module has a RECURSIVE
operator, so every safety property that a run checks has its theorem.
