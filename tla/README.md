# Dormitory management: a verification project

TLA+ models of the dormitory-management system: the API (`src/apps/api`, with
`src/packages/db` and `src/packages/shared`), and those pages of the admin web
and of the tenants' LIFF application that keep a state of their own; the TLC
configurations that check them on small instances; and TLAPS proofs of what
matters most for instances of any size.

Paths below are under `src/apps/api/src/modules` unless they say otherwise.

## 1. The system

Companies own properties, units, meters and contracts. Each month they record
meter readings and issue invoices; tenants pay by PromptPay from LINE, upload a
slip, and an admin confirms. Tenants file repair tickets, announcements and
notices go out over LINE. Durable state is in Postgres (through Prisma), Redis
(BullMQ queues) and an object bucket; only the API, a NestJS process, changes it.

### How components interact

* Every authenticated request runs inside **one interactive Postgres
  transaction** at READ COMMITTED. `TenantContextInterceptor` opens it with
  `withTenant`, which sets what the row-level security policies read; the
  exported `prisma` proxy sends every query of the handler to it. Each `await` in
  a handler is a point where other requests' statements take effect.
* `AuditLogInterceptor` inserts an audit row at the end of a mutating request,
  inside the same transaction. If that insert fails the error is swallowed, but
  Postgres has aborted the transaction and COMMIT keeps nothing: the client is
  answered 2xx for what is not there. Every module with authenticated mutations
  has that step; a page then shows, or marks as saved, what it was told.
* Services call `NotificationService` inside the handler, so a job reaches Redis
  **before** the transaction commits.
* BullMQ workers in the same process take jobs and open transactions of their
  own; they retry, and a job whose worker stalled is run again.
* LINE calls the webhook and redelivers what was not answered 200. The LIFF
  application exchanges a LINE id token for a tenant token that no refresh
  prolongs, and redeems invites without one.
* The admin web calls the API from server actions that give up after ten
  seconds, whatever the API goes on to do; some pages show a result before the
  API has agreed, or keep a copy of what they loaded.

### Inventory

| Component | State | Operations | What is hard | What makes it correct |
|---|---|---|---|---|
| Invoices (`billing/invoice.service.ts`) | `invoice.status`, items; partial unique index on (contract, period) where not void | create, update, issue, void | status checked and updated in two statements; the index is entered again by an UPDATE | one live invoice per slot; a draft is only issued or voided |
| Payments and rollup (`billing/payment.service.ts`) | `payment.status`, `idempotency_key` | create, confirm, reject, recompute | retries with one key; two confirms at once; a stale rollup | one payment per key; paid only with confirmed money |
| Batch generation (`createBatch`, generate form) | the plan of a batch | plan, insert, skip, commit | a caught violation aborts the transaction; two batches wait for each other | complete invoices; every batch ends |
| Meters and readings (`meter/`, `reading/`, readings grid) | a reading per (meter, period); rows of the grid | create, correct, save | previous value read before the insert; the grid's rows outlive what they were built from | readings add up; a row marked saved was recorded, unless its own answer was not kept |
| Announcements and notifications (`announcement/`, `notification/`) | `announcement.status`, counters, jobs | broadcast, enqueue, process, onFailed | a worker faster than the commit; retries; a lost counter update; restart | everyone counted once; leaves `sending` |
| LINE webhook (`line/`) | `webhook_event.status`, jobs | receive, reply, mark | redelivery, crash between commit and enqueue, two marks | 200 means recorded; queued once; final status true |
| Tenant invites (`tenant-invite/`, BindPage) | `tenant_invite.status`, `tenant.line_user_id` | generate, peek, revoke, redeem | look-up and change in two transactions; conflict in an aborted one; retries | single use; redeemed exactly when bound |
| Slips and the payment flow (`billing/slip.service.ts`, `storage/`, LIFF pages, payments page) | payment, bucket object, `slip` row, the pages | mint, put, register, poll, decide | four hops that fail apart; polls that fail; token expiry; leaving a page | success means all four, unless the answer was not kept; a slip is final; the decision is shown to a page that goes on polling |
| Contracts, units, properties, tenants (four services, detail pages) | rows, references, unique keys | create, update | overlap check, then insert; references the policies do not compare | no overlap without a race; references stay in the company |
| Plan limits (`common/util/plan-limit.util.ts`) | warning rows | count, warn | not awaited: races the end of the transaction | a warning tells of rows that are there |
| Maintenance (`maintenance/`, detail page) | ticket status, note, photos | file, staff update, tenant update | two writers of one row | final states final; photos kept |
| Sign-up (`auth/`, signup form) | company, owner; the form | probe, submit | answers overtake each other; timeouts; one slug, two visitors | badge and session true; all or nothing |
| Sessions, RBAC, row-level security (`auth/`, `common/guards`, `packages/db`, web shell) | cookies, settings of a connection | log in, refresh, guard, query | what outlives what; a status read a transaction before it is used; two permission tables | no row of another company; who is switched off gets no new session |
| Paged lists (the fifteen `list` methods, `common/util/cursor.util.ts`, the list pages) | the page: its filters, its cursor | open, next | rows inserted or updated between two pages; ties in `createdAt`; what a next link carries | nothing twice, nothing passed over |
| Money, PromptPay, dates (`packages/shared/src`) | none | — | — | not modelled, section 7 |

`PROJECT.json` lists every component with its status, and under `hazards` every
place that is hard to test, at its line.

## 2. Modules

| Module | What it is |
|---|---|
| `BillingData`, `IdealBilling`, `Billing` | billing: data and pure functions; every operation in one step; the two services statement by statement |
| `Metering` | meters, readings, the grid they are typed into, `createBatch` |
| `Broadcast` | `createBroadcast`, the fan-out, `LineNotificationProcessor` and its queue |
| `LineWebhook` | `LineWebhookService`, `LineEventProcessor` and its queue, LINE's redelivery |
| `IdealInvite`, `TenantInvite` | invites: what they promise; `TenantInviteService` and BindPage |
| `Sessions` | staff login to logout, guards, settings of the connection, policies, permission matrix |
| `Signup` | the form, its probes, the two server actions, `AuthService.signup` |
| `Occupancy` | properties, units, tenants, contracts; plan limits; detail pages |
| `Maintenance` | `MaintenanceService` and the ticket page |
| `PayFlow` | a tenant's phone, the four hops, the operator's payments page |
| `Listing` | the paged lists and the pages that walk them |
| `BillingInvariant`, `BroadcastInvariant` | inductive invariants, which TLC can check too |
| `BillingProofs`, `LineWebhookProofs`, `TenantInviteProofs`, `SessionsProofs`, `SignupProofs` | the theorems about the component of that name |
| `BroadcastProofs`, `RecordsProofs`, `PhoneProofs` | the theorems about `Broadcast` and `Listing`; `Occupancy` and `Metering`; `Maintenance` and `PayFlow` |
| `MC...` | the instance of each for TLC |

A definition whose comment begins "A mutant" is a plausible mistake in the
definition it stands before; no specification uses it. `PROJECT.json` says which
property finds which mutant.

Where one module of proofs speaks of two components they share no name, so the
second has its own: `MeterInit`, `PayNext`, `ListSpec`, `listVars`, `saving`. Nothing
of one is used for the other, and each theorem has only its component's
assumption.

The modules share no variable. Where the same code is behind two of them, one
has it in detail and the other as one step: `PayFlow` creates and decides a
payment in a step whose statements are in `Billing`; `Metering` makes and voids
single invoices in a step; `Billing` adds a notification to a set of job ids, and
what a worker does with a job is in `Broadcast`. Each of those steps takes or
leaves what the detailed module proves of it.

### Billing

`invStatus`, `payStatus` and `payKey` are committed columns; a row that is not
inserted is `"absent"`. Row ids are constants, so what never changes after the
insert (whose payment, the amounts, the slot) is a constant function. `tx[r]` is a
request in flight: its next statement, its rows, the status it has read or derived
(`seen`), what it has written and not committed (`invW`, `payW`). `jobs` is the set
of job ids in Redis. `confirmedEver` and `receipts` are history.

An action of the first group (`CreateInvoice` ... `RejectPayment`) is a handler up
to its first write. The actions after it are its statements, in order:

| Handler | Statements |
|---|---|
| `create` (invoice) | insert, commit |
| `issue` | read; UPDATE; enqueue `invoice_issued`; commit |
| `void`, `update` | read; UPDATE; commit |
| `create` (payment) | read invoice; look the key up; insert under a savepoint; look the key up again after a duplicate; commit |
| `confirm` | read payment; UPDATE payment; read invoice; sum confirmed payments; UPDATE invoice; enqueue; commit |
| `reject` | read payment; UPDATE payment; enqueue; commit |

Postgres is modelled as these statements need it: a read sees committed rows and
the transaction's own writes; an UPDATE waits while another transaction has
written the row; an insert waits while another has inserted a conflicting index
entry, and then fails or succeeds; an UPDATE that takes a row out of `void` enters
the partial unique index again. `Rollback` may happen at any statement.
`CommitAborted` is the audit insert that fails. Abstracted: item lines and their
sums, PromptPay payloads, dates, names. `overdue` is in the enumeration but nothing
in the repository writes it.

### Metering

`reading[m, p]` is the row of a meter and a period (the unique index), `rate` a
meter's price, `invoices` those that are not void. A client's request is `Resolve`
(the previous value, which must not exceed the new one) then `Insert`, or `Look`
then `Rewrite`, which keeps the stored previous value. `Load`, `ChangePeriod`,
`Save` and `Tell` are the grid: it builds its rows once, and a change of period in
the address does not build them again. A batch reads invoices, then meters and
readings, then goes contract by contract (`Each`): an insert waits for the batch
that holds its slot; a unique violation is listed as a skip but has aborted the
transaction, so the next insert throws, and `Finish` commits nothing. `Deadlock` is
Postgres failing one of two batches that wait for each other. `SaveAborted` and
`Finish` (its `{}`) are the audit insert that fails: a row of the grid then holds a
value, or after a POST a whole reading (a ghost), that is not there (`holds`), and a
PATCH of a ghost is refused. The operator has one
save under way (the page allows one per row), the others call the API as they like.

### Broadcast

`status`, `delivered`, `failed` are the committed columns; `post[a]` is how far the
POST has got, so two announcements of one `KeyOf` are two POSTs of one key.
`job[<<a, t>>]` is the BullMQ job of a recipient; `late` the jobs whose `onFailed`
listener has called `recordAnnouncementOutcome` without awaiting it; `pushes`,
`missed`, `crashes` are history. `Precheck`, `Insert`, `Enqueue`, `Commit` are
`createBroadcast`: jobs are added while the row is not committed, so a worker may
count on a row that is not there and the update throws. `Take`, `Push`, `Skip`,
`Throw`, `CountOutcome`, `Complete` are one run of the worker; `Count` is the
transaction that increments and flips. `Crash` restarts the API; `Stalled` is
BullMQ, external code: it runs an orphaned job again `MaxStalls` times (its default
is one). A worker takes one job at a time, the default of `@Processor`.

### LineWebhook

A handler goes through its batch event by event: `Precheck` (a known event is
passed over), `Insert` (which waits for a delivery that is inserting the same
event), `Commit` (a transaction per event), `Enqueue`. The worker hydrates (row,
then channel), replies, marks the row, completes. `Throw` keeps BullMQ's rule: a
permanent error marks the row at once, but only the number of attempts stops the
job. `Upsert`, `Remove` and `SetStatus` change the channel and the company
meanwhile. `Crash` loses the handlers, the listener's marks and the job in hand.
What an event loses for good is in the history `lost`.

### TenantInvite

`invite`, `by` and `bound` are committed columns. A call is `LookUp` (by the code's
hash, in a transaction of its own), `Sweep` of an expired invite, `Cas` (which
locks the invite), `Bind` (which waits for the tenant's row and the unique entry of
the LINE account) and commit; the last may be spoilt by the audit row, and then the
client is told 200 of nothing. A page opens a link, confirms, receives an answer or
loses the connection and may confirm again while the first call still runs.
`AssignUser` is the admin's PATCH of a tenant. The bind conflict's own branch runs
in the aborted transaction, so it answers a plain 500 and rolls all back.

### Sessions

The server holds no session: `jar` is each browser's two cookies and a token is its
claims. One pooled connection (`conn`) serves all transactions, so a setting that
outlived its transaction would be seen by the next. `Grants` is the permission
matrix, `Offers` the gates of the shell and the pages with the `@Perm` behind them;
one of them, the form of a new announcement, is shown to more than may send it.
Login looks the company up with the bypass, refresh reads the account again,
`Call` is a bare API request with any company in its path, `Visit` a page.

### Signup

A `tab` is the form's state, `probes` the probes under way, each with the token it
was started with; `calls` the submissions, each a transaction that writes company,
owner and role, and audit row before the tokens are signed. `TimeOut` is the server
action giving up; the call goes on, and so may a second one.

### Occupancy

The four services are one program with different columns, so they share one table:
a row has references, a key, a period and a status. A request is `Find` (of the row
an update goes by), `Check` (references visible, no overlap), `Write` (which waits
for whoever holds the row or the key), `Commit`. `Warn` is `softWarnPlanLimit`, not
awaited: it writes if the transaction is still open. `CommitAborted` is the audit
insert (or the warning's) that fails: answered as done, and not kept. The detail
pages show a clicked status at once, keep it when they are told it is done, and go
back when the change is refused or unheard of. `unkept` is the history of what a
page was told and is not there.

### Maintenance

An update is `ReadRow` (with all that it may refuse) and `Write` of the columns it
decided on, over the row as it is then; `stale` is the history of tickets that an
update wrote after having read an older row. `WriteAborted` answers like `Write`
and keeps nothing, so the copy of the ticket on a page, which only answers replace,
may be of a row that never was; the next update is checked against the row itself.

### PayFlow

A `tab` starts a session (a stored token, or an exchange), goes to the bill, the
pay page, the status page, or is reloaded; leaving the pay page does not stop its
upload. An upload is `Create`, `Mint`, `Put`, `Check` and `Insert`, each of which
may fail, or take effect and lose its answer. A desk registers slips through the
admin API. The payments page has rows loaded once, an expanded panel that fetches,
and decisions whose answers may be lost. A payment, a slip or a decision may be
answered and not kept (`Create`, `InsertSlip`, `DecisionAborted`; `unkept`). The
status page polls (`PollAnswered`, `PollFails`): a failure keeps the last answer but
shows the error in its place; `Polls` is `refetchInterval`, which is off while there
is no answer, so a page whose first fetch fails in all its tries asks no more until
the phone is online again (`Reconnect`) or the page is opened again.

### Listing

`ListTenants` ... `ListAuditLogs` are what a service's `list` may filter by, how it
bounds dates and what it never returns; `InvoicesPage` ... `PaymentsPage` are what a
page of the admin web sends and what its next link keeps. `page` is the one walked,
`walk` its filters and cursor. `Open` and `Turn` read a page of rows: `Where`, then
`After` (the keyset clause), the first `limit` in the order of (createdAt, id), and
`NextCursor`, which is `buildCursorPage`. `Create` inserts a row with any createdAt
(it is the time its transaction began, so a later commit may put a row between two
that were shown), `Change` updates the columns a filter may name. `shown`, `twice`
and `still` are history: rows that were shown, were shown again, were there and
matched all along. A malformed cursor is a 400 and no step.

## 3. Runs

| Run | Instance | States | What it shows |
|---|---|---|---|
| `billing_race` | two invoices in one slot, two payments of 1 on the first, a bill of 2, two keys, two requests in flight | 299 370 | what holds however statements interleave: the slot, the key, the issue gate, no status without the money; every request ends |
| `billing_serial` | a bill of 2 with payments of 1 and 2, a bill of 0 with a payment of 1, three keys; requests on one invoice do not overlap; audit inserts may fail | 151 838 | the services implement `IdealBilling`; a status is what the payments add up to |
| `broadcast` | two POSTs of one key, two recipients and one of them; two attempts, one stall, one restart | 1 145 425 | who is counted, what `sent` means, which broadcast goes out, that it ends |
| `line_webhook` | a batch of two events, a redelivery of one; two attempts, one stall, one restart | 263 816 | what 200 means, how often an event is queued, what a final status means, that it is reached |
| `tenant_invite` | two invites for two tenants, two LINE users of whom one has both links, two calls in flight | 393 084 | redeem is one step; the page is right; every call ends |
| `sessions` | two companies with a staff member each, two browsers, one connection | 153 988 | whose rows; who is still let in; how a session ends |
| `occupancy` | two staff members; a property, unit, tenant, contract and room for one more of each; a property of another company; commits that keep nothing | 73 004 | overlaps, references, warnings, pages |
| `metering` | two meters of one unit, a unit without; two contracts; three months; two batches; four inputs; saves that are not kept | 771 046 | readings, invoice lines, the grid, that batches end |
| `maintenance` | one ticket, two staff members (one at the page), two tenants, two photos, four requests | 3 372 432 | what only an update of an older row can break, and what nothing can |
| `pay_flow` | one phone, one bill, two uploads, one client of the admin API, three mounts of a page; polls that fail | 2 323 059 | what success means, a slip is final, the decision is shown |
| `signup` | two visitors, three slugs (fine, reserved, too long to store), three submissions, three edits | 759 780 | badge and session are true, the form never hangs |
| `listing` | eight pages and clients; three rows over two milliseconds, two values of a column, pages of one and of two, four writes | 188 030 | nothing is shown twice, nothing passed over |

### The properties

* **Billing.** `OneLiveInvoicePerSlot`: the partial unique index against every
  writer of the status, a late rollup of a void row included. `IdempotentCreate`:
  one payment per key (`OneRowPerKey`), and every 2xx names it (`RepliesStand`).
  `NoPaymentOnDraft`: the issue gate.
  `StatusIsEarned`: no status without money an admin confirmed, although rollups of
  two confirms overlap each other, a rejection, a void and rollbacks, so that a sum
  is read while it changes. All these in the race. `RollupAgrees` and
  `ImplementsIdeal` in the serial run.
* **Metering.** `ReadingsAddUp`: what is billed is the difference of the stored
  values, and each reading begins where the one before ended, unless the meter's
  readings were corrected, entered late or raced (the history `disturbed`).
  `InvoiceIsComplete`: a line per meter the batch saw, each billing a reading its
  own period really had. `SavedWasRecorded`: a row marked saved shows a value its
  reading has had, unless the row holds what was answered and not kept.
* **Broadcast.** `TerminalMeansEveryone`: without a restart a terminal status has
  counted each recipient once. `DeliveredWasPushed`: even with restarts.
  `OneBroadcastPerKey`.
* **LineWebhook.** `AckedIsRecorded`, `QueuedOnce`, `ProcessedWasAnswered`.
* **TenantInvite.** `ImplementsIdeal` with `IdealInvite`: an invite is redeemed
  once, by one user, in one step. `SuccessIsTrue`: a page that says "bound" is
  right after replays and lost connections; the one exception, a commit spoilt by
  the audit row, is a screen of its own in the model (`misled`).
* **Sessions.** `RowsAreOwn`. `ClosedDoor`: who gets a token of an account or company
  that is switched off had one before, or had passed the look at its status: a login
  reads the company a transaction before the account, a refresh never reads it.
  `SwitchedOffLosesAccess`.
* **Signup.** `BadgeIsOfSlug`, `SessionIsOwn`.
* **Occupancy.** `RowsAgree`: live contracts of a unit overlap only if transactions
  on that unit's contracts did (`raced`), and no row refers to another company's.
  `WarningIsTrue`, `ShownWasTrue` (a page that waits for nothing shows a status the
  row has had, or one it asked for and was told is done when it was not kept).
* **Maintenance.** `TicketsAreSound`: a time of repair just while resolved, except
  after an update of an older row; assignee, unit and photos are the ticket's own.
  `FinalAndKept`: an up-to-date update leaves final tickets and photos alone and
  gives a reason.
* **PayFlow.** `PagesTell`: a tab its upload brought to the status page is about a
  payment with that very slip, its bytes included, unless the registration was
  answered and not kept; the operator is not offered again a decision that was kept
  and answered; an expanded row shows what its last fetch found. `SlipIsFinal`.
* **Listing.** `NothingTwice`: no row on two pages of a walk, also among rows of one
  millisecond. `NothingSkipped`: a walk that came to its end has shown every row
  that was there and matched all along, also when other rows left the filter
  meanwhile, as confirmed payments leave the pending queue. Its premise, that the
  next link does not narrow what was asked for, is false of one page (section 5).

The types are proved of every module with a proof; the runs `occupancy` and
`metering` check them too (`TypeOK`, `MeterTypeOK`), because there the types say
more (a row refers to the kinds its own kind does; one live invoice per contract
and period).

### Liveness and fairness

Nothing is assumed of clients, of the choice between answers, or of errors.

| Property | Fairness | Why the code justifies it |
|---|---|---|
| `Billing.EveryRequestEnds` | weak for statements that wait for nothing, strong for those that wait for a lock | Node resumes an `await` whose answer is there; Postgres grants a released lock to the waiter first in line. No timeout is needed: the lock order has no cycle |
| `EveryBroadcastEnds` | weak for the worker loop, the listener's promise, BullMQ's stalled-job check | they run as long as the process does. Excepted: a lost job or count, which nothing sweeps |
| `EveryEventEnds` | weak for the handler after it has received, worker, listener | the same; excepted: `lost` |
| `TenantInvite.EveryCallEnds` | strong for the steps of a call | locks are granted in turn |
| `SwitchedOffLosesAccess` | weak for expiry, the server, the user's next page; strong for `Begin` | time passes; the pool serves in turn |
| `EveryBatchEnds` | weak for the steps of a batch | the deadlock detector is one of them |
| `DecisionIsShown` | weak for the steps of an upload, the start of a session, the poll that is answered | a page that goes on polling is answered once, however many polls fail between. Excepted: a page that shows an error and polls no more (`Stuck`), a page that is left, a token that ends |
| `FormSettles` | weak for the debounce timer and for the server action, which answers or gives up after ten seconds | the API itself may hang |

### Bounds

Amounts are chosen so that a part payment, an exact payment, an overpayment and a
total of zero happen; two recipients are the least with which one can be counted
for the other; two batches and two contracts the least that can wait for each
other; three periods the least with a reading before and one after. `MaxCrashes`,
`MaxInputs`, `MaxRequests`, `MaxMounts`, `MaxFetches`, `MaxOf`, `MaxEdits`,
`MaxTries` and `MaxWrites` bound what would go on for ever, each in the guard of
the input it counts; `MaxAttempts`, `MaxStalls` and `PhotoMax` are limits of the
code, made small. Request slots are used again and again, so two of them are not a
bound on the number of requests. `Short` (invites that may expire) and `Revocable`
limit which of a symmetric pair an input may touch. A walk of three rows in pages
of one or two has a page that is full, one that is not and one in between, and a
tie across their border.

`billing_race` uses a `VIEW` that leaves out the queue, `billing_serial` one that
leaves out the queue and the receipts, and `SYMMETRY` on request slots. No action
and no property of the run reads what its view leaves out, and no action changes
only that (an enqueue moves its request on), so states that look alike have the same
futures, the enabled and the fair steps included.

Deadlock checking is on in `billing_*`, where new requests may always come. The
other models stop when every bounded input is used and everything under way is
over; that they stop nowhere else is what the liveness properties say.

### Checked on the same instances, but not listed as runs

Some facts are proved instead (section 4): `TypeOK` of the other modules,
`DraftOnlyIssuedOrVoided`, `TerminalIsFinal`, `FailedWasGivenUp`,
`OneTenantPerUser`, `WholeOrNothing`, `TakenIsTrue`, `ClaimedOnce`. Each can be
added to the configuration of its module, where it holds too; so do, in
`billing_serial`, `DecidedIsFinal`, `VoidNeverPaid` and `FullyPaidIsPaid`, which
races break (section 5), and the invariants of section 4 that are defined in
`BillingInvariant` and `BroadcastInvariant`.

## 4. Proofs

Proved for any sets of rows, users, requests and events, any amounts and limits
that satisfy the named assumptions of the module. Those only say what a constant
is a function from and to, that `None` is none of the values, that limits are
numbers, and that a company has finitely many tenants (`Broadcast`) or a list
finitely many rows (`Listing`).

| Module | Theorem | Statement | Invariant |
|---|---|---|---|
| `BillingProofs` | `TypeCorrect`, `IssueGate` | `[]TypeOK`, `[]NoPaymentOnDraft` | `CoreInv` |
| | `OneLiveInvoice` | `[]OneLiveInvoicePerSlot` | `CoreInv`, `SlotInv` |
| | `OneRowForEachKey` | `[]OneRowPerKey` | `CoreInv`, `PayInv` |
| | `OnePaymentPerKey` | `[]IdempotentCreate`, if `~ AuditErrs` | `CoreInv`, `PayInv` |
| | `OnlyEarnedStatus` | `[]StatusIsEarned` | `CoreInv`, `EarnedInv` |
| | `DraftsAreIssuedOnce` | `DraftOnlyIssuedOrVoided` | `CoreInv` |
| | `RequestsAreSteps` | `ImplementsIdeal`, if `~ Overlap` | `CoreInv`, `SerialInv` |
| | `StatusIsTheSum` | `[]RollupAgrees`, if `~ Overlap` | the above, `AgreeInv` |
| | `PromisesHoldAlone` | `[]FullyPaidIsPaid`, `DecidedIsFinal`, `VoidNeverPaid`, if `~ Overlap` | the above |
| `BroadcastProofs` | `OneBroadcast` | `[]OneBroadcastPerKey` | `KeyInv` |
| | `EveryoneCountedOnce` | `[]TerminalMeansEveryone` | `KeyInv`, `CountInv` |
| | `CountedWasDelivered` | `[]DeliveredWasPushed` | `KeyInv`, `DeliveredInv` |
| | `TerminalStays` | `TerminalIsFinal` | `KeyInv` |
| | `ListsTypeCorrect`, `WalksRepeatNothing`, `WalksMissNothing` | `[]ListTypeOK`, `[]NothingTwice`, `[]NothingSkipped` | `ListsInv` |
| `LineWebhookProofs` | `TypeCorrect`, `AckedEventsAreRecorded`, `EventsAreQueuedOnce`, `FinalStatusIsTrue` | `[]TypeOK`, `[]AckedIsRecorded`, `[]QueuedOnce`, `[](ProcessedWasAnswered /\ FailedWasGivenUp)` | `WebhookInv` |
| `TenantInviteProofs` | `RedeemIsAtomic` | `ImplementsIdeal` | `InviteInv` |
| | `OneAccount`, `PagesTellTheTruth` | `[]OneTenantPerUser`, `[]SuccessIsTrue` | `InviteInv` |
| `SessionsProofs` | `TypeCorrect`, `Isolation`, `DoorStaysClosed` | `[]TypeOK`, `[]RowsAreOwn`, `ClosedDoor` | `SessionsInv` |
| `SignupProofs` | `TypeCorrect`, `BadgeTells` | `[]TypeOK`, `[]BadgeIsOfSlug` | `FormInv` |
| | `SignUpIsAtomic`, `TakenMeansTaken`, `FirstHasTheSlug` | `[](WholeOrNothing /\ SessionIsOwn)`, `[]TakenIsTrue`, `ClaimedOnce` | `CallInv`, `TakenInv` |
| `RecordsProofs` | `LettingsTypeCorrect`, `RowsKeepAgreeing`, `WarningsTellTrue`, `DetailPagesTellTrue` | `[]TypeOK`, `[]RowsAgree`, `[]WarningIsTrue`, `[]ShownWasTrue` | `LettingsInv` |
| | `MetersTypeCorrect`, `ReadingsKeepAddingUp`, `InvoicesStayComplete`, `SavedRowsWereRecorded` | `[]MeterTypeOK`, `[]ReadingsAddUp`, `[]InvoiceIsComplete`, `[]SavedWasRecorded` | `MetersInv` |
| `PhoneProofs` | `RepairsTypeCorrect`, `TicketsStaySound`, `TicketsStayFinal` | `[]TypeOK`, `[]TicketsAreSound`, `FinalAndKept` | `RepairsInv` |
| | `PaysTypeCorrect`, `PagesKeepTelling`, `SlipsStayFinal` | `[]PayTypeOK`, `[]PagesTell`, `SlipIsFinal` | `PaysInv` |

None of these is inductive as it stands; each invariant adds what a step in flight
may rely on.

* `CoreInv`: which statements and uncommitted writes an operation may have, what it
  may rely on of the committed rows (a payment request past its first read is about
  an invoice that has been sent, and one that has been sent stays so), and that no
  two requests hold the same row, key or new row id. `SlotInv`: a request that
  brought an invoice to life has its slot to itself. `PayInv`: one that inserted is
  the first with its key. `EarnedInv`: a derived or uncommitted status is covered by
  payments confirmed, or that the same request confirms. That a client holds the
  answer of a payment that is there needs the premise `~ AuditErrs`:
  `AnsweredIsCommitted` (section 5) is the counterexample without it.
* `SerialInv`, for requests on one invoice that do not overlap: what a handler has
  read stands until it commits, so the status it derives is the one its commit
  makes due. Hence each commit is one step of `IdealBilling` (and an aborted one,
  a rollback or any other statement is none), and what `IdealBilling` keeps, the
  services keep: `AgreeInv`. There the sum in `Credit`, a fold, is reasoned about.
  Only two facts of it are needed, that a payment more adds its amount and that no
  sum of amounts is zero unless it is of none; a smallest set of which they failed
  cannot be, and that is how they are proved. The premise `~ Overlap` is needed:
  the first three rows of section 5 are the counterexamples without it.
* `KeyInv`: of two POSTs of one key at most one holds the index entry, and only a
  POST that inserted queues jobs. `CountInv`: without a restart the counters never
  exceed the settled recipients, and a terminal status was reached by counting as
  many as there are; with finite sets, all are then settled. `DeliveredInv`, also
  with restarts: the worker has one job in hand, and when it is about to count a
  delivery there is a message that LINE took and nobody has counted.
* `ListsInv`: all that a walk has shown is before its cursor in the order of the
  list (`ShownAreBefore`), and all that was there and matched all along is shown or
  after it (`RestIsAfter`). An insert can land on either side, and createdAt and id
  of a row never change; that is what keeps both.
* `WebhookInv`: the types, the four properties, and two parts. `HandlerInv`: behind
  a handler every event is recorded; the one it is about to commit nobody else has;
  the one it is about to queue was never queued. `JobInv`: a job that may still run
  has an attempt left, one about to mark has its reply, and a mark that is due was
  earned.
* `InviteInv`: `LockInv` (an invite that is held is pending and held once; of the
  calls about to commit no two write one tenant or account, and nobody else has
  what they write) and `PageInv` (a call that succeeded was redeemed by its user;
  the call a page waits for is its own). With it each step of the calls maps to one
  step of `IdealInvite`, or none.
* `SessionsInv`: a free connection has no settings, and a handler's has exactly
  those of its user's company. `ClosedDoor` follows from it step by step: every way
  in, a login as far as the company and as far as the account, a refresh, the tokens
  it sets, starts from one who was inside already or from a row that is active.
* `FormInv`: a token is never used for two slugs, and the probe that waits for its
  timer carries the form's token. `CallInv`: a call that has inserted a company is
  alone with the slug, what it has written is what its step says, and when tokens
  are signed the company is there, whole. `TakenInv`: a slug that a call found
  taken is, for good.
* `LettingsInv`: what a request has looked up stays so (rows are never deleted and
  never change company), two creates in flight have two ids, and a request that no
  other crossed has seen the contracts of its unit as they are when it writes. What
  a detail page shows, and would go back to, its row has had or `unkept` names.
* `MetersInv`, in five parts. `ReadingsPart`: a reading of a meter nothing disturbed
  begins where the month before ended. `SavingsPart`: what a request under way has
  resolved is so still, or the meter was disturbed. `GridPart`: what the grid marks
  as saved a reading has had, or the row does not hold what is kept. `BatchesPart`:
  an invoice made, committed or not, has
  a line for each meter its batch saw, each of a reading its own month had.
  `SlotsPart`: no two invoices, committed or about to be, have one slot.
* `RepairsInv`: what a ticket names is its own tenant's unit and landed photos, and
  what an update has read keeps that, whoever wrote the ticket since; what the
  update may do was decided on the row it read, so where that is the row still
  there, it holds of the row.
* `PaysInv`: what each statement of an upload may rely on (its payment is there, the
  bytes it put are in the bucket, a done one is the slip or in `unkept`), that a
  status page is about the payment of its tab's own upload, and that an expanded row
  shows one fetch, unless its panel was closed and opened during it.

**Only model-checked.** Liveness, which this prover does not reach:
`EveryRequestEnds`, `EveryBroadcastEnds`, `EveryEventEnds`, `EveryCallEnds`,
`SwitchedOffLosesAccess`, `EveryBatchEnds`, `DecisionIsShown` and `FormSettles`.
Every safety property that a run checks is proved.

## 5. Where code and comments disagree

The properties in this table are defined in their modules and are in no
configuration: add the name to the configuration of its module (`Billing_race` for
`Billing`, as an invariant or a property, by its form) and TLC shows a behaviour
that breaks it. (The last two of `Billing` speak of the queue and of audit failures:
for `NoPushForRolledBack` leave out the `VIEW`; for `AnsweredIsCommitted` set
`AuditErrs = TRUE`, and leave out `IdempotentCreate`, which that breaks too.) The
first three hold of requests that do not overlap, which is proved
(`PromisesHoldAlone`): it takes a race to break them.

| Property | What is said | What the code does |
|---|---|---|
| `Billing.FullyPaidIsPaid` | payment.service.ts:32-36, paid when the payments cover the total | two confirms each miss the other's payment |
| `Billing.DecidedIsFinal` | payment.service.ts:15-17, no transition after a decision | confirm and reject overwrite each other |
| `Billing.VoidNeverPaid` | payment.service.ts:369-371, never flips void back to paid | a rollup writes over a void it did not see |
| `Billing.NoConfirmOnVoid` | payment.service.ts:42-43, refused on a void invoice | confirm reads no invoice; no race needed |
| `Billing.NoPushForRolledBack` | payment.service.ts:307-309, pushed after the commit | queued inside the transaction |
| `Billing.AnsweredIsCommitted` | audit-log.interceptor.ts:49-50, a failing audit insert does not fail the action | the transaction is aborted, the answer is 2xx |
| `Broadcast.PushedAtMostOnce` | line-notification.processor.ts:59-60, never pushed twice | a push LINE took but did not answer in time is retried |
| `LineWebhook.StatusMovesOnce` | webhook-event-state.service.ts:16-19, pending to processed or failed | a permanent error marks the row failed, a later attempt marks it processed; a late mark overwrites |
| `Metering.GeneratedIsThere` | invoice.service.ts:434-436, 563-565, a duplicate is skipped and the rest goes on | the transaction is aborted and nothing is kept |
| `Metering.SavedOnScreen` | readings-grid.tsx:114-115, rows are re-keyed with the prop | they are built once; a change of period keeps them |
| `PayFlow.OnePendingPayment` | queries/payments.ts:196-197, a retry goes on with the payment | every submission has a fresh key |
| `Occupancy.ToldWasKept`, `Metering.MarkedIsKept`, `PayFlow.RegisteredIsKept` | audit-log.interceptor.ts:49-50, a failing audit insert does not fail the action | nothing is kept: the detail page keeps showing the status it was told, the grid marks the row saved, the phone goes to the status page of a payment without its slip |
| `PayFlow.NoPageIsStuck` | queries/payments.ts:106-109, the page refetches while the payment is pending, so that no manual reload is needed | `refetchInterval` is off while there is no answer: a page whose first fetches all fail shows an error and asks no more |
| `Sessions.OffersAreAllowed` | web `lib/rbac.tsx`, shown only if the user may | the button and form of a new announcement have no gate (announcements/page.tsx:93-98, announcements/new/page.tsx); staff may read announcements and not broadcast them, so their POST is refused |
| `Listing.EveryRowIsShown` | payment-status-filter.tsx:12-14, an empty status parameter is "all statuses", as opposed to none chosen yet | the next link drops the empty parameter (payments/page.tsx:108), so from the second page on the list is of pending payments only (46-48, 77) |
| `Occupancy.OccupiedHasContract` | dashboard.service.ts:41-44, unit status follows the contracts | nothing writes it |
| `Signup.FitsItsColumn` | shared `slug.ts:9`, up to 64 characters | the column holds 32; the insert throws and the visitor is told UNKNOWN |

Noticed on the way, and not stated as properties:

* **Billing.** `payment.service.ts:23-25` promises that a replay returns the
  existing payment, but the status check precedes the look-up, so a replay after a
  void is refused. A late `issue` can overwrite a void, and a late `void` a paid
  invoice. `announcement.service.ts:235-236` says the loser of an insert race
  returns the winner; its look-up runs in the aborted transaction.
* **Invites.** The compare-and-set is documented with an expiry condition it does
  not have. A retry of one's own call that is still running answers that the invite
  was lost to someone else.
* **Webhook.** The reconcile sweep that `line-webhook.service.ts:197-199` mentions
  does not exist. The webhook refuses a suspended company; the worker still replies
  for one. A channel id in use elsewhere is a 500, where the web expects a 409.
* **Sessions.** Refresh does not look at the company's status, and the web never
  calls it. Plan limits of infinity become `null` in JSON.
* **Sign-up.** The form maps errors by an exception name the API does not send, so
  an invalid slug is UNKNOWN. After a timeout the visitor's own company answers
  SLUG_TAKEN. The rate limit counts the web server's address. A Thai name leaves
  the previous suggestion.
* **Contracts.** A PATCH may put the end before the start. Two creates at the plan
  limit each miss the other. Clearing the notes sends nothing.
* **Maintenance.** A PATCH can clear the note of a resolved ticket. Closing one
  clears its time of repair. A no-op move read before a cancellation overwrites it.
* **Lists.** The next link of the units page drops its property and goes on with
  all units. Announcements and the audit log take `limit` as a number without
  coercion, so a limit in the query string is refused. LIFF shows the first page of
  a list only.
* **Payment flow.** The token in `sessionStorage` is not tied to the company. A
  slip error is never cleared. A poll that fails hides the last answer behind an
  error. The comment at queries/payments.ts:110-111 counts on a refetch on window focus,
  which main.tsx:22 turns off.
* **Answered, not kept.** A decision on a payment is offered again after the audit
  insert failed, without a word. A row of the grid whose POST was not kept sends
  PATCH from then on and is refused until the page is loaded again.

## 6. Plan

Done: every module of section 2, and the proof of every safety property that a run
checks: the core (`Billing`, `Broadcast`), with the refinement of `IdealBilling` and
the sum behind the status; `LineWebhook`; `TenantInvite` with the refinement of
`IdealInvite`; `Sessions`; `Signup`; `Occupancy` and `Metering`; `Maintenance` and
`PayFlow`; `Listing`.

Next:

1. An abstract specification of `Broadcast` in which each recipient has one outcome,
   with the proof that it is implemented as long as the API does not restart, and
   what is left of it when it does.
2. The same for `LineWebhook`: an event is recorded, queued and ends, each once.

## 7. Not modelled

* **Money, PromptPay, dates**: pure functions on strings and decimals that unit
  tests reach; amounts are whole numbers here, added exactly, as decimal.js does.
* **Reads** other than the lists: getById, health checks, the dashboard (seven READ COMMITTED
  reads, each of which may see another moment).
* **Company settings**: one single-row update without a state machine. LINE
  credentials are one value in `LineWebhook`; that a PUT the web gave up on may
  overwrite a later one follows from the timeouts but is not modelled.
* **Contents**: message templates, names, addresses, titles, encrypted personal
  data, rent and deposit, slugs character by character.
* **External code**, modelled as the code uses it: Postgres (whose `now()` Prisma
  keeps to the millisecond), BullMQ, LINE, the
  bucket, the browser's timers. Signatures and encryption are taken for what they
  are; whether BullMQ accepts a job id with several colons is not modelled.
* **Pages that only render** what they are given: tables, filters, the
  announcement and settings forms, most of the shell.
* **Scripts** run at deployment; the constraints they install are in the modules.
