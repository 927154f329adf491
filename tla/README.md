# motodesk-server, specified

TLA+ modules for the core of motodesk-server: an Express 5 and Prisma application on
PostgreSQL that runs motorcycle repair shops, one tenant per organization, with
subscriptions at Stripe. TLC checks the modules on small instances; TLAPS proves the
theorems in the `*Proofs` modules for every value of the constants.

Paths below are relative to `src/src/modules/` unless they say otherwise.

## Contents

1. The system: components, state, operations, interactions
2. How the code runs, and how the modules show it
3. The modules and the code
4. The runs, their bounds, and what they show
5. Where code and claims disagree
6. What is proved, and how
7. What is only model-checked, and what is not modelled
8. Plan

## 1. The system

| Component | State | Operations | Hard behaviour | What makes it correct |
|---|---|---|---|---|
| Repair orders (`repair-orders/`) | status, status history, labor lines, statuses of part lines | create; 18 statuses moved by a dozen handlers; approve, additional approval, reopen, cashier, pick up; labor create/start/complete/cancel/delete | status read by the service, written later by a transaction that may or may not compare it; labor completion counts rows of concurrent transactions | the transition table holds; one payment per release; the last completed labor line completes the order |
| Inventory and part lines (`parts/`, `repair-orders/repair-order-part*`) | quantity on hand, reserved, on order; an append-only ledger; quantities and status of each line | adjust, receive, allocate, deallocate, issue, return, damage, count; allocate, deallocate, issue, pull, stage, install, mark for order, cancel, delete a line | quantities read, then stored as sums, in two steps; four quantities per line with different guards | ledger, stock and lines agree; only sales and adjustments take reserved stock; what is not pulled is not installed |
| Counter sales (`sales/`) | sales, their lines, returned quantities, refunded totals, a sequence row per organization | sell, return | recheck before the sequence lock, stock read and written after it; cents and rounding | no overselling, no lost stock movement, no more returned or paid back than sold and paid |
| Memberships, invitations, ownership, seats (`memberships/`, `membership-invitations/`, `organizations/`, `billing/billing-capacity.service.ts`) | memberships (role, status), invitations, the seat limit | add, edit, remove, invite, revoke, refresh, accept, transfer ownership | policies on stale reads; a row lock all but one transaction take | seats within the limit, one seat per person, exactly one active owner |
| Billing webhooks (`billing/billing-webhook.*`, `billing-sync.service.ts`) | event rows with claim, lease and result; the mirrored subscription with `lastSyncedAt` | claim, fetch, complete, release | duplicates, redelivery, crashes, overlong attempts, concurrent synchronizations | the mirror never goes back; an event is acknowledged once, at its version or later, and eventually |
| Plan and seat changes (`billing/*-change*`, `*-user-capacity*`) | the change an organization has under way, one row per quoted change | preview, confirm, confirm again within 23 hours, settle by webhook | Stripe's answer lost, payment pending, a retry or a webhook at the same time | a change takes effect at most once, on the terms quoted, and is recorded as what it was |
| Checkout (`billing/billing-checkout*`) | the claim of a checkout operation and its session on the billing row | claim, create a session, store it, recover it, end the claim by webhook | a session created and not stored; a claim taken over while its owner is slow | never two sessions or subscriptions to pay for |
| Purchase orders (`purchase-orders/`) | orders, lines, quantities received, quantity on order of parts, linked part lines | draft, edit, order, receive, cancel | receive and cancel overlap; a part is read and stored as sums; the rows of a receipt are written before its status | quantity on order is what open orders still owe; status follows the receipts |
| Part returns (`part-returns/`) | returns with type, status, credit | create, edit, ship, credit, close, archive | some updates compare the status and some do not | a return's parts go on the shelf once |
| Scheduling (`scheduling/`) | blocks of an order | schedule, reschedule, cancel | the block is found before the transaction that replaces it | one active block per order, and the order shows its date |
| Technicians, bays (`technician-assignments/`, `service-bays/`) | assignments, occupancies, the status of bays | assign, reassign, remove; occupy, release, take out of service | looking for an active row and creating one are apart | one technician per order, one order per bay |
| Appointments (`service-appointments/`) | appointments with status and the order they became | create, confirm, check in, cancel, convert | conversion and cancellation at once | an appointment becomes one order at most |
| Time clock (`time-clock/`) | time entries, the log of corrections | clock in and out, enter by hand, correct | check then create; a correction writes back every field it has read and is validated after its commit | one open entry per employee; the log explains the entry |
| Authentication (`auth/`) | users, sessions with rotating tokens, one-time codes | log in, refresh, revoke, reset and change a password, change and verify an address | concurrent refreshes; several statements without a transaction | a token is exchanged once; old sessions end with the old password; a verified address was proven |
| Permissions, platform admin, audit, reports, dashboard, CRUD modules, HTTP platform | single rows, append-only logs, or none | CRUD, queries | none beyond the database | checked by ordinary tests |

How they interact: all calls are in one process, and shared state is the database.

- Part lines call `applyInventoryMutationWithTransaction` of inventory, as do sales,
  purchase orders and vendor returns; all of them write the same columns of a part.
- Pulling, staging and receiving call `evaluateRepairOrderReadiness`, which moves the
  order; scheduling moves it too, and an appointment creates it.
- Receiving a purchase order updates the part lines its lines are linked to.
- Setting a password revokes sessions; changing an address withdraws and issues codes.
- Memberships and invitations call `lockOrganizationUserCapacity` and
  `assertOrganizationUserCapacity` of billing; billing changes the limit they read.
- Stripe calls the webhook; webhooks, confirmations and reconciliations end in
  `applyBillingSynchronization`, which also ends checkouts and settles changes.

`PROJECT.json` lists every component with its sources and status, and 40 hazards, each
at the line where it bites, with the properties that cover it.

## 2. How the code runs, and how the modules show it

A request runs in three layers: a controller parses it, a *service* reads rows and
decides, and a *repository* function writes, usually in `prisma.$transaction`, at
PostgreSQL's default READ COMMITTED. Nothing keeps what the service has read from
changing before the transaction starts, and a plain SELECT inside a transaction is not
protected either. What does protect the code is, here and there:

- `updateMany` with the expected status and a test of the count (compare and set);
- `SELECT ... FOR UPDATE` on the organization (seats and billing changes);
- a row written early in a transaction, such as the sale-number sequence, whose lock
  later writers wait for;
- unique keys, leases and version columns (`lastSyncedAt`).

Each module therefore has a set of `Workers`, the concurrent request handlers, and a
variable `req` that holds what a worker's request has read and where it stands. An
action is a stretch of a handler that other requests cannot interleave with: the
service's reads and checks; the reads of a transaction that hold no lock; and the
statements from the first row lock to the commit. When a check fails the request
changes nothing, so a failing first check is no action; failing later checks are
actions that return the worker to `Idle`.

A service that reads several rows in sequence is one step: those reads could themselves
be torn by other requests, which only matters to properties about the *combination*
of what was read. The modules keep apart the reads whose order against writes matters.

Several properties are qualified by a ghost variable that records that a request wrote
over reads that had gone stale, or that a user overrode what the program keeps:
`stale` (PartStock), `overlappedSales` (PosSale), `overlapped`
(Shelf), `overtaken` (Membership), `unkept` (Overlaps: ShopFloor and TimeClock), `late`
(Sessions). The code has no
protection there; the ghost makes explicit what *is* promised: as long as no two requests
cross in the one way named, or of the rows on which they did not. A ghost is set by the
step that writes over the stale read, so a property qualified by it still covers every
interleaving in which a check, a lock or a comparison of the code does its work.
Properties without a ghost hold through all of them. What a ghost excuses is not shown to be
safe: of the hazards in `PROJECT.json` that are two requests crossing without any protection
(two receipts of one purchase order, two clock-ins, a correction over a clock-out, two
reschedules, a code used while the address changes, two assignments, two orders for one
bay), the ghosts excuse most of the overlap, and what remains of the property is that the
checks are right one at a time and through the other requests' steps.

Data is abstract: identities are model values, quantities small integers, money cents
where rounding matters and absent where it does not.

## 3. The modules and the code

`PROJECT.json` maps every definition to its lines. In outline:

### Handlers, Stockroom, Overlaps

What several modules share. `Handlers` declares `Workers`, `None` and `req`; `Stockroom`
adds the inventory parts and the stock they start with; `Overlaps` is for requests that read
and later write without looking again: each carries `stale`, which `CommitOver` sets in
the others when one commits a change of what they have read, and `unkept` records what such
a request has put at odds. Components that extend the same one keep apart by the names of
their operators (`SaleInit`, `SaleSpec`; `StockInit`, `StockSpec`; `ClockInit`, `ClockSpec`).

### RepairOrder

One order. `status`, `releases` and `payments` (how many history rows say
READY_FOR_PICKUP, and how many a cashier wrote), `labor`, `parts`.

- Handlers that end in `updateRepairOrderStatus` go through three steps: the handler's own
  check (`CheckThenUpdate`), the second read and check against the table
  (`UpdateStatusCheck`), and a write that does not compare (`UpdateStatusWrite`).
- Approve, cashier, pickup, additional approval, parts review of additional work, reopen
  and scheduling check (`CheckThenCas`) and then compare and set (`Claim`, `CasRefused`).
- Starting labor writes the order's status from what its service read. Completing labor
  is two steps, because the count inside its transaction does not see uncommitted
  completions of others and the commit is later.
- Part lines keep their status and whether they block work. `LineWrite` allows every
  status a part-line handler can leave; when each is allowed is `PartStock`'s subject.
- Abstracted: the active schedule row that cancelling a schedule needs; amounts, notes,
  people.

### PartStock

Parts with quantity on hand and reserved, the ledger as running sums, and part lines with
their quantities and status. Inventory endpoints check (`AdjustInventory` ...), read the
part inside the transaction (`ReadPart`) and write sums (`CommitMutation`,
`CommitCount`); line handlers do the same and then write the line from what the service
had read (`CommitLineStock`). `PullLine` re-reads its line in its transaction. A counter
sale writes the same columns (`SellPart`, `RollBackSale`), one at a time because of the
sequence row (`Selling`), and looks at what is on hand alone.

Parts start with any quantities, more reserved than on hand included, because `createPart`
stores what it is given; a part created with nothing on hand gets no ledger row, so the
ledger is said to explain the stock *from what the part was created with*, and the balance of
reservations has that as a term. `AddLine` stores any row of the constant `NewLines`, whose
quantities need only be naturals, as the schema asks no more of them
(`repair-orders/repair-order-part.schemas.ts:50`): a line may be created allocated, received,
pulled or installed already. `claimed` adds up what such lines say is allocated.

Left out: `approvedQty` and prices; quantity on order is in Procurement.

### PosSale

Parts' stock, sales with quantities, totals and refunds, and the holder of the
sale-sequence row. `CheckSale`/`CheckReturn` are the services,
`RecheckSale`/`RecheckReturn` the reads before the sequence lock, `LockSequence` the
upsert, `ReadStock`/`WritePart` the inventory mutation of each part, `RollBack` the
exception when stock would be negative, `CommitSale`/`CommitReturn` the commit. Money is
in cents, rounded half up as `money` does. A sale's lines are one per part.

### Membership

The memberships of an organization, its invitations, the seat limit and the holder of the
organization's row lock. `Check...` are the services and policies; `Lock` is the first
half of a transaction: the row lock and everything checked under it (`LockedChecks`);
`Commit...` is the second. `CommitTransfer` takes no lock and checks nothing again.
`Expire` is time passing an invitation's `expiresAt`; `ChangeLimit` is billing.
Left out: tokens, employee links and permissions of members.

### BillingMirror and BillingWebhook

`BillingMirror` is the abstract specification: a subscription that changes, events that
are sent about it, a mirror that only moves forward, and events acknowledged once, when
the mirror is at least as new as the event.

`BillingWebhook` is the code: event rows with a claim token, a lease and a processed
mark; workers that claim, read `lastSyncedAt`, ask Stripe and complete in one
transaction that compares the claim (`Fenced`) and `lastSyncedAt` (`BaselineCurrent`);
failures, the release of a claim, crashes, leases that end during an attempt, and
synchronizations without an event (a confirmed plan or seat change). It implements
`BillingMirror` with `done <- Processed`. A worker's identity stands for the random claim
token: a worker has one request at a time. Events of unsupported types, events of unknown
customers and the outcome of a pending change are left out.

### BillingChange

One organization's plan and seat changes. `billing` is its row with the two active-change
columns, `change` the quoted changes of either kind, `stripe` the subscription with its
pending update and latest invoice, `key` what Stripe remembers of each idempotency key,
`runs` how often a change took effect.

- A confirm request goes through `Confirm`/`Look` (the row, then the subscription at
  Stripe), `Claim` (one transaction under the row lock: `Claims` a quoted change or
  `Resubmits` one whose answer may have been lost, for 23 hours), `Submit` (Stripe applies
  it, holds it for payment or refuses; the answer may not arrive), `Verify` (the
  subscription again), and `RecordRejected`, `RecordPending` or `Prepare`/`ApplyConfirmed`.
- A webhook goes through `BeginWebhook`, `Reconcile` (what the subscription and the invoice
  say about the active change) and `Complete` (synchronization, outcome and event in one
  transaction, refused if another synchronization came first).
- `Die` and `WebhookFails` end either anywhere. `Pay`, `Void`, `Forget` are Stripe and time.

The two kinds share their actions, which follow the same steps in the two repositories;
`Same`, `Active` and `ReleasedClaim` hold the differences. Assumed of Stripe: it keeps an
answer for longer than the program submits under its key, and a change it refuses with
status 400 it refuses always. Left out: prices, changes made to the subscription
elsewhere, the number of members against the new limit (Membership has it).

### BillingCheckout

One organization's checkout. `billing` holds the claim (`operation`) and the stored
`session`; sessions and subscriptions at Stripe carry the name of their operation.
`Begin`/`Recover`/`Look` are what a request finds first, `Claim` the compare-and-set on the
row, `CreateSession`/`Save` the call and the update under the claim, `ClearExpired` and
`ReleaseRejected` the release of what came to nothing; the webhook ends a claim whose session is
complete together with its synchronization. A request may die at every point. Left out: the
trial, the creation of the customer, the claims of webhook events (BillingWebhook).

### Shelf, PurchaseOrder, PartReturn, Procurement

`Shelf` has the part columns both components write and the inventory mutation that stores
sums of what it read (`ReadShelf`, `MoveStock`); the other two extend it, and `Procurement`
composes them over shared workers.

- `PurchaseOrder`: `CreateDraft`, `CheckEdit`/`CommitEdit` (compares the status),
  `CheckOrder`/`ReadForOrder`/`CommitOrder`, `CheckReceive`/`ReadForReceive`/
  `CountReceived`/`CommitReceive` (lines, history rows and stock first, then the status
  from a count of what is still open), `CheckCancel`/`ReadForCancel`/`CommitCancel`. `link`
  holds the repair-order part lines that order lines are linked to.
- `PartReturn`: edit, ship, credit, close (to the vendor, or to the shelf by
  `ClaimClose`/`CommitClose`), archive; each a check and a write, compared or not as in the
  code.

Left out: prices, damaged and back-ordered quantities, which nothing reads; and
`receivePurchaseOrderLineRecord`, which nothing calls.

### Sessions and Accounts

One user. `Sessions`: rows with the current and the previous refresh token; signing in
(`CheckLogin`, `CheckPlatformLogin`, `CheckExternal`, then `CreateSession`), refreshing
(`CheckRefresh`/`Rotate`, `DetectReuse`), signing out of one, the others or all, expiry.
`Accounts` adds the password, the address and the one-time codes: every statement is an
action, because these handlers use no transaction, and `Fail` ends a request before any of
them. A password is the number of times it was set, so a session can be compared with the
password it stands for. Left out: access tokens, the window of recent authentication,
switching the organization, deactivation, and the deletion of expired rows, which nothing
calls. The user has registered, with a password, a session and a code (`InitRegistered`), or
was created by a provider, verified and without a password (`InitExternal`); without one
(`HasPassword`) there is no login, no reset and no change of password or address.

### ShopFloor, Schedule, Assignments, Appointment, Workshop

`ShopFloor` is a repair order as these see it (its status as far as scheduling goes, date,
technician, the appointment it came from) and the requests; `Schedule`, `Assignments` and
`Appointment` extend it, and `Workshop` composes them. `CreateOrder` stores any status, date
and technician, as `createRepairOrder` does: an order may be created SCHEDULED without a block,
or with a technician and no assignment, so the two properties about them speak of orders that
have blocks, and that have been assigned.

- `Schedule`: `CheckSchedule`/`ScheduleOrder` (compares the order's status),
  `CheckReschedule`/`FindForReschedule`/`Reschedule` (compares nothing),
  `CheckUnschedule`/`FindForCancel`/`CancelSchedule`; `MoveOrder` is every other handler
  that moves the order's status, `PatchDate` the edit of an order.
- `Assignments`: a technician is assigned, reassigned or removed by a check and a
  transaction; `PatchTechnician` is the edit of an order. A bay is occupied after three
  reads in a row (`CheckBay`, `CheckUnplaced`, `CheckVacant`, `OccupyBay`), released, or
  taken out of service (`CheckBayStatus`, `CheckOccupied`, `SetBayStatus`).
- `Appointment`: every change is a check and an update that compares
  (`CheckAppointment`, `ConfirmAppointment`, `CheckIn`, `CancelAppointment`,
  `ConvertToRepairOrder`).

All three use `Overlaps`: every commit names the requests that have read what it changes.

### TimeClock

Employees, entries, the log of corrections. `FindBeforeClockIn`/`ClockIn`,
`FindForClockOut`/`ClockOut`, `CreateManual`, `ReadForCorrection`/`Correct`, `Tick`. A
correction stores what it has read with its changes, and appends a row for each field that
differs. It uses `Overlaps` as well. Left out: PINs, notes, `ON_BREAK`, which no code stores,
and the reports.

### MC modules and proof modules

`MCX` extends `X` with the values and symmetries a run needs; `XProofs` extends `X` and
TLAPS with its theorems. Two proof modules are about several components, whose proofs share
lemmas: `StockProofs` about PosSale, PartStock and Procurement (the sums), `WorkshopProofs`
about Workshop and TimeClock (`Overlaps`).

## 4. The runs

Every run is `tlc -config <cfg> MC<module>`. "Faulty variant" operators (`...Always`,
`...WrongEnum` and so on) are not part of any specification: each is a plausible bug, and
putting it in the place of the definition that follows it makes the named property fail.

| Run | Instance | Distinct states | Shows |
|---|---|---|---|
| RepairOrder | 2 workers, 1 labor line, 1 part line, 2 releases | 4.3 million | types; `PaidPerRelease`; `OnlyStaleWritesLeaveTheTable` |
| PosSale | 2 workers, 2 parts, 3 sales, a discount, 7 % tax | 3.5 million | `NoOversell`; `StockConserved`; `RefundsWithinSale` |
| PartStock | 2 workers, 1 part of which more is reserved than there is, 1 line of 5 kinds, quantities to 1 | 3.3 million | `LedgerAccountsForStock`; `ReservationsBalance`; `OnlySalesAndAdjustmentsTakeReserved`; `InstalledWithinPulled` |
| PartStockRequired | 1 worker suffices | violation | `AllocatesOnlyWhatIsRequired` fails |
| Membership | 2 workers, an owner and 2 people, 2 invitations, limits 0 and 2 | 1.5 million | `SlotsNeverOversold`; `NobodyReservedTwice`; `AcceptedForGood`; `OneActiveOwner` |
| BillingWebhook | 2 workers, 2 events, 2 versions, one fault, crash, overlong attempt and confirmed change | 243 thousand | types; `AcknowledgedIsMirrored`; `ClaimHoldsItsLease`; `ImplementsMirror`; `EveryEventIsAcknowledged` |
| BillingChange | 2 workers, 2 changes of either kind, 2 plans, 1 additional user | 5.3 million | `ClaimNamesOpenChange`; `ExecutedOnceAsQuoted`; `OutcomesAreTrue`; `AcceptedIsSettled` |
| BillingCheckout | 2 workers, 3 operations | 2.8 million | `NoSecondSubscription`; `CheckoutIsSettled` |
| Procurement | 2 workers, 1 part, 1 linked part line, 2 orders of up to 2 lines, 1 return | 2.7 million | `OnOrderIsOwed`; `ShelfAccountsForDeliveries`; `StatusFollowsReceipts`; `LinksFollowOrders`; `ReceivedWithinOrdered`; `RestockedOnce` |
| Accounts | 2 workers, 2 sessions, 2 addresses, 2 codes, 3 tokens, 2 passwords | 5.0 million | `ExchangedOnceWhileLive`; `OldSessionsEnd`; `VerifiedBySentCode` |
| Workshop | 2 workers, 2 orders, 1 appointment, 2 technicians, 2 dates, 2 bays | 469 thousand | `ConvertedOnce`; `ScheduleIsKept`; `TechnicianIsAssigned`; `BayHoldsOneOrder` |
| TimeClock | 2 workers, 1 employee, 2 entries, a clock of 2 minutes | 836 thousand | `OneOpenEntry`; `EntryIsExplained` |

What types the other modules' variables have is written in their `TypeOK` (`SaleTypeOK`,
`StockTypeOK`) and proved; TimeClock's are a part of its invariant `ClockInv`.

**Bounds, and why they are enough.** Every race in this code is between a request's stale
read and one other request's write, so two workers meet each of them; a third request is
covered because a worker runs any number of requests one after another while the other
one waits. Two parts are needed for a sale that fails halfway, two invitations for a double
reservation, three people so that someone can overtake a transfer, a limit of two so that
the last seat is contended and of zero so that a subscription can be lost, three checkout
operations so that one can be lost, one expire and a third follow, two lines of an order so
that it arrives in parts, two dates, technicians and bays so that there is something to
change to. A quantity of one makes every boundary (nothing left, all allocated, all
installed) one step away. The bounds themselves:

- `MaxReleases` (RepairOrder): rows of the history that release for pickup; two allow an
  order to be reopened and released again.
- `MaxAmount`, `MaxOnHand`, `MaxPulled`, `MaxClaimed` (PartStock): quantities of a request,
  on the shelf, pulled for a line (two, since pulling and issuing both add to it), and
  said to be allocated when a line is created. `NewLines` has a usual line, one each that is
  allocated, pulled or installed from the start, and a special order that has arrived;
  `InitialAllocated` is two of a part of which one is on hand. `MaxCart` bounds the quantity of a sale's
  line, `MaxQty` what a line of a purchase order orders and receives, `MaxReturned` a return.
- `MaxVersion`, `MaxFaults`, `MaxCrashes`, `MaxDelays`, `MaxConfirms` (BillingWebhook):
  changes at Stripe and each kind of trouble.
- `MaxSeats` (BillingChange): additional users. `MaxTokens`, `MaxPasswords` (Sessions):
  tokens generated and passwords set; three tokens are a login, a refresh and a second
  login or refresh after it.
- `MaxRows` (ShopFloor): rows of one kind kept for an order. `MaxTime`, `MaxBreak`,
  `MaxCorrections` (TimeClock): the clock, a break, and rows of the log.
- The constraints `NothingStale` (PartStock), `NotOvertaken` (Membership), `NotOverlapped`
  (Procurement) and the first conjunct of each `Focused` stop a run at the first state of
  which its ghosts leave nothing to say. No safety property rests on a constraint: all of
  them are proved, without it.
- The rest of `Focused` divides an instance that is too large to exhaust whole: in
  Workshop, one at a time of blocks, technicians, bays and appointments is in use, and the
  requests under way are of one kind, because they meet only in the order's row; a second
  order is there only for bays and appointments, with orders created without date or
  technician, because bays do not look at those; in Accounts, either several tokens or a change of
  address, which share nothing but the user; in TimeClock, corrections of one entry only;
  in BillingChange, either two requests for one change, or one request for each of two,
  where the first was quoted from Pro without additional users, neither preview expires
  and the second is not refused.

`CHECK_DEADLOCK FALSE` stands where a small instance ends: identities run out (PosSale,
Procurement, BillingChange, BillingCheckout, Accounts, Workshop, TimeClock) or all events
are acknowledged and all trouble used up (BillingWebhook). The system itself goes on.

**Fairness.** Only BillingWebhook states it, in `FairSpec`: an attempt that is alive goes
on (weak fairness of its next step), a claim left behind sees its lease end (time
passes: five minutes, `billing-webhook.repository.ts:11`), and an event that can be claimed
is (Stripe redelivers until a request is answered with success, and the handler answers
a failed or busy attempt with an error, `billing-webhook.service.ts:172`, `:246`). No
fairness makes Stripe change or send, a fault happen, or a synchronization succeed. The
numbers of faults, crashes and overlong attempts are bounded, because an event whose
every attempt fails is rightly never acknowledged. No other module has a liveness
property: whether a repair order moves on is up to its users, and that webhooks settle what
requests left open is stated of the state in which none is left (`AcceptedIsSettled`,
`CheckoutIsSettled`): that such a state is reached is what BillingWebhook shows.

## 5. Where code and claims disagree

One has a run, `PartStockRequired`: *remaining required quantity*. Issuing moves units out
of `allocatedQty`, so the check "exceeds the remaining required quantity" forgets them, and
a line is allocated again what it has already issued. No concurrency is needed.

Five more are stated in their modules and not run: name the property in a copy of the
module's cfg, without its constraint, and TLC shows how it fails.

1. *The transition table* (`RepairOrder!TableIsRespected`). "Repair order cannot transition
   from ... to ..." is checked against a status read earlier, and
   `updateRepairOrderStatusRecord` writes without comparing. Two overlapping requests, for
   example a decline and an approval, leave the table. `OnlyStaleWritesLeaveTheTable`
   shows that this is the only way out.
2. *The last labor line* (`RepairOrder!LastLaborCompletesOrder`; needs two labor lines). A
   test says that the order moves to WORK_COMPLETE when all labor is completed; two lines
   completed at once each count the other as incomplete.
3. *Returns of a sale* (`PosSale!ReturnsWithinSold`). The remaining quantity is compared
   before the lock that serializes returns is taken.
4. *"Owners cannot be removed."* (`Membership!OwnersAreNotRemoved`). The policy looks at the
   membership before the transaction, and ownership transfers take no lock.
5. *"Clock-out time must be after clock-in time."* (`TimeClock!NoEntryEndsBeforeItBegins`; one
   worker is enough). A correction of one end of an entry is compared with the other end after
   its transaction has committed (`time-clock/time-clock.service.ts:234`): the request is
   refused, and the entry stays as it was corrected, with its row in the log.

What else modelling the code showed, and the ghosts of section 2 name:

- A schedule block created with a terminal status leaves its order SCHEDULED without an
  active block; starting work, or sending the order back for additional work, leaves the
  old block active, so that scheduling again makes two. Creating an order, and `PATCH`,
  set technician and date without an assignment or a block, and creating sets any status.
- A correction that overlaps a clock-out opens the entry again, whether or not the employee
  has another open one. A correction cannot clear a clock-out: its schema takes null, but
  coerces it to a date first (`time-clock.schemas.ts:54`), so that null is stored as the
  epoch and the entry is closed; in the model that is the earliest time.
- A counter sale, and an adjustment downwards, take stock that is reserved: both look at
  what is on hand alone. Part lines and parts are created with any quantities, more
  installed than pulled or more reserved than on hand included.
- A change whose submission never reached Stripe stays claimed when its 23 hours are over,
  and blocks other changes until someone settles it.
- Two receipts of one purchase order that overlap lose one of them on the line while both
  are on record.

## 6. What is proved

Every safety invariant and every action property of the passing runs, and the refinement of
BillingMirror, is a theorem: it holds for every number of workers, orders, parts, people and
so on, and every value of the bounds, that satisfy the named assumptions of the modules
(`RepairOrderAssumption`, `StockroomAssumption`, `PosSaleAssumption`, `PartStockAssumption`,
`ShelfAssumption`, `PurchaseOrderAssumption`, `PartReturnAssumption`,
`MembershipAssumption`, `WebhookAssumption`, `CheckoutAssumption`, `ChangeAssumption`,
`SessionsAssumption`, `ShopFloorAssumption`, `TimeClockAssumption`). These say of which sort
each constant is, that identities differ from `None`, and that what is added up is finite:
parts, part lines, purchase orders and their lines, returns, members. Lines of purchase
orders arrive with nothing received, as the code creates them. TLC evaluates the
assumptions in the passing runs. No theorem has a constraint: `NotOvertaken`, `Focused` and
the like bound runs only.

| Theorem | Says |
|---|---|
| RepairOrderProofs!TypeCorrect | types |
| RepairOrderProofs!CashieredOncePerRelease | an order is cashiered at most once per release |
| RepairOrderProofs!LeavesTheTableOnlyByStaleWrite | only a write over a changed status leaves the life cycle |
| StockProofs!SalesTyped, PartsTyped, ProcurementTyped | types |
| StockProofs!SalesNeverOversell | no part's stock is sold below zero |
| StockProofs!SalesConserveStock | stock is what sales and returns leave of it |
| StockProofs!RefundsStayWithinSale | no more is returned or refunded than was sold and paid |
| StockProofs!LedgerAlwaysAccounts | the ledger explains what is on hand and what is reserved |
| StockProofs!ReservationsAlwaysBalance | what a part has reserved is what its lines and the counter have reserved |
| StockProofs!OnlySalesAndAdjustmentsTake | only sales, adjustments downwards and overtaken requests take what is reserved |
| StockProofs!InstallsStayWithinPulled | only an overtaken request installs more of a line than was pulled or issued for it |
| StockProofs!ReceiptsStayWithinOrders | no line of a purchase order receives more than it orders |
| StockProofs!PartsGoBackOnce | a return's parts go on the shelf once |
| StockProofs!StatusSaysWhatArrived | a purchase order's status says what has arrived |
| StockProofs!OnOrderIsAlwaysOwed | what a part has on order is what open orders owe |
| StockProofs!ShelfAccountsHold | the shelf holds what was there, delivered and put back |
| StockProofs!LinksAreOwed | linked part lines follow the orders they are linked to |
| MembershipProofs!MembershipTyped | types |
| MembershipProofs!NobodyHoldsTwoSlots | no person holds two seats |
| MembershipProofs!SlotsAreNeverOversold | no seat is taken past the limit |
| MembershipProofs!OwnerIsOneAndActive | one owner, and active |
| MembershipProofs!AcceptedStaysAccepted | an accepted invitation is settled for good |
| BillingWebhookProofs!WebhookTyped | types |
| BillingWebhookProofs!AcknowledgedStaysMirrored | acknowledged news is never lost |
| BillingWebhookProofs!WebhookImplementsMirror | BillingWebhook implements BillingMirror |
| BillingWebhookProofs!ClaimsHold | nobody takes a claim before its attempt or its lease ends |
| BillingCheckoutProofs!CheckoutTyped | types |
| BillingCheckoutProofs!NeverSubscribedTwice | never two sessions or subscriptions to pay for |
| BillingCheckoutProofs!CheckoutSettles | with every webhook processed, the row is right and no completed checkout holds the claim |
| BillingChangeProofs!ChangeTyped | types |
| BillingChangeProofs!ClaimIsTheOpenChange | the billing row names the change that is under way |
| BillingChangeProofs!ChangesRunOnceAsQuoted | a change takes effect once, on the terms it was quoted from |
| BillingChangeProofs!RecordedOutcomesAreTrue | what is recorded of a change is what happened at Stripe |
| BillingChangeProofs!AcceptedChangesAreSettled | webhooks settle every change Stripe accepted |
| AccountsProofs!AccountsTyped | types |
| AccountsProofs!TokensAreExchangedOnce | a refresh token is exchanged once, while its session lives |
| AccountsProofs!OldSessionsAreEnded | what keeps a session alive past its password |
| AccountsProofs!AddressesAreProven | a verified address was proven by a code sent to it, or by the provider that created the user |
| WorkshopProofs!WorkshopTyped | types |
| WorkshopProofs!AppointmentConvertedOnce | an appointment becomes one order at most |
| WorkshopProofs!ScheduleKept | one active block per order, and a scheduled order that has blocks shows its date |
| WorkshopProofs!TechnicianAssigned | an order that was ever assigned names the technician of its one active assignment |
| WorkshopProofs!BayHoldsOne | one order per bay, one bay per order, and the bay in service |
| WorkshopProofs!OneEntryIsOpen | one open time entry per employee |
| WorkshopProofs!EntriesAreExplained | status, minutes and log agree with an entry's times |

Several are qualified by a ghost of section 2, as their comments say.

The arguments:

- **RepairOrder.** `PaidPerRelease` is not inductive: paying is safe only because an order
  in READY_FOR_PICKUP has one release that is not paid yet. `ReleaseUnspent` adds one
  to the payments of such an order; `RequestOK` says that whoever is about to write
  CASHIERED compares with READY_FOR_PICKUP. The unguarded writes do not matter: the
  table leads to READY_FOR_PICKUP only by a write that is itself a release, and a write
  of CASHIERED that is no cashier's is no payment. For the table, `EdgeInv` says that a
  request about to write carries an edge of the life cycle that starts in the status it has
  read (`CarriesEdge`); so a write leaves the table only if the status is another by then.
- **PosSale.** Between the read and the write of a part lies a window. The invariant says
  that only the holder of the sequence row is inside it, that what it has read is the
  committed stock, and that what it is about to write is that stock plus its own change.
  Conservation follows at the commit; no overselling because the value is looked at
  before it is written. `RefundInv` adds what a return has settled
  before the lock: it fits in what it has seen remaining, and its amount, rounded, is capped
  by what it has seen left to refund. A commit over a sale it has seen as it is keeps both;
  any other makes the sale one whose returns overlapped.
- **Sums.** The models add up with `FoldFunction`. `SumOn` is the same fold with its set of
  indices explicit. What is needed of it (a sum is an integer, changes by what one of its
  terms changes, is at least each term) would be an induction on the set; instead, the
  least number of elements for which the fact could fail (`LeastOf`, from the well-foundedness of
  the naturals) leads to a smaller one.
- **PartStock.** Nothing is locked between reading and writing, so `PartInv` ties what a
  request has read to the rows only while the request is fresh (`Fits`: the part it names,
  the stock and the line it has seen). A commit makes stale every other request
  that has read the part or the line it writes; a request that commits unfresh puts part and
  line among the stale ones, of which nothing is claimed. The ledger then needs one part,
  and the balance of reservations one term of the sum over the lines, since a
  handler changes one line. For the shelf and the line, the request also carries what its
  check has compared (`SeesStock`, `SeesLine`), from which two action properties follow: a
  fresh commit other than a sale's or a downward adjustment's leaves no more reserved
  than is on hand, or no more so than it was (`ReservedTaken`), and one that installs has seen
  as much pulled (`Overinstalled`). They are about steps and not states, because parts and
  lines may be created short of what they owe.
- **Procurement.** Four invariants. `ReceiptInv`: a receipt stores what it has compared
  with the quantity ordered, which only editing changes, and an order that is received
  is a draft no more (`Settled`). `ClaimInv`: a claimed return is still pending, has one claim
  at a time, and has not been put back while it is pending. Until
  requests overlap, `StatusInv` (the lines a receipt is about to count are those it
  wrote) and `AccountInv` (what a request has read of the shelf and its order is so) give
  the status, and the three accounts as sums over orders, lines and returns, of which a
  commit changes the terms of one order or one return.
- **Membership.** What a transaction has checked under the lock is a `Promise`: its person
  is free, there is room. It must survive everything that can happen without the lock,
  which is a transfer (roles only, and the exemption it may end was recorded when the
  lock was taken) and time (expiry only frees seats). The cardinality lemmas show that
  each commit takes one seat at most. `OwnerInv`: no request makes an owner but the
  transfer, and edits and removals are of members they have read as no owners, which is so
  until a transfer overtakes them (`OwnerKept`). `AcceptInv`: a transaction about
  to revoke or refresh has seen under the lock that the invitation is not accepted
  (`NotAccepted`), a row about to be created is nobody else's (`RowIsNew`), and accepting
  stores the membership with it (`AcceptedBelong`).
- **BillingWebhook.** An attempt that read `lastSyncedAt` before asking Stripe and finds
  it unchanged has an answer at least as new as the mirror, because any synchronization
  in between would have raised it (`SynchronizeForward`). With that, each step is a step
  of BillingMirror or a stutter. For the claims, the row of a claim that is alive is its
  worker's (`RowOfClaim`): a delivery claims a row only after its lease, and completing and
  releasing compare the token.
- **BillingCheckout.** What is open or paid at Stripe belongs to the operation that holds
  the claim, or the claim was ended by a webhook, which stored ACTIVE with it. While the row
  is claimed or ACTIVE nobody else claims it, and at most one request is creating a session
  for the claim; a claim is given up only after its session was found expired, which is for
  good, or its creation was refused. Hence `OneLive`, from which the cardinality follows.
  `SettleInv` is about the webhooks: what was offered is stored where it is claimed, what is
  paid was offered, and events tell what has happened; so a completed session that
  holds the claim has an event left whose webhook ends it (`WillEnd`), and a row that does
  not show the subscription has one left, or in progress, that puts it right
  (`WillBeRight`).
- **BillingChange.** The invariant follows the change that holds the claim. Only it can be
  submitted under a key Stripe does not know (`SubmitterHolds`), so until it takes effect the
  subscription has the terms the change was quoted from, and from then on the terms it asks
  for (`HolderTerms`, `ReachedIsPaid`). A claim is released by whoever has read, and stores,
  the terms the subscription then has, or by a refusal, which changed nothing
  (`Synchronized`, `Releases`); hence the next change is quoted from true terms. A key that
  Stripe has forgotten is not submitted under again, because the window has closed by then.
  For the webhooks, whatever happened to the holder is told by an event that is left, or is
  known (`OpenHasNews`, `HookTellsNews`): an event about the invoice alone settles a change
  only if its invoice is recorded, and if it is not, the event with its key is still there.
- **Accounts.** Three independent invariants. Tokens: a session's current token is its own
  and has not been exchanged (`TokensUnspent`), so what `Rotate` exchanges is new to the
  history. Passwords: a live session of an older password has somebody who will revoke it
  *and does not keep it* (`WillRevoke`); without that addition the invariant is not
  inductive, since two changes made from one session could each count on the other.
  Addresses: a code that can still be used was sent to the address, or the change of
  address is about to withdraw it (`OldCodesAwaitWithdrawal`).
- **Workshop.** `ScheduleInv`, `TechnicianInv` and `BayInv` have one form: what a request has
  read is so unless it is stale, and what was kept is kept. A step has to show that its commit
  makes stale all who have read what it changes, which is what the code's lack of locks
  leaves to be assumed of the rest. `ConvertInv` needs no staleness: an appointment and its
  order name each other, because the conversion compares that the appointment has no order.
- **TimeClock.** `ClockInv` is of the same form (`ReadKept`). `Explained` adds that the
  log leads from the values an entry was created with to those it has: a correction
  appends one row for a field it changes and none for a field it keeps, so the last row of
  each field holds its value.

## 7. What is only model-checked, and what is not modelled

Only model-checked: `EveryEventIsAcknowledged`, the one liveness property of the passing runs
(liveness under fairness, and the ENABLED in it, are out of the prover's reach), and the
violation of `AllocatesOnlyWhatIsRequired`, which a counterexample shows and no proof.

Not modelled: the components marked so in `PROJECT.json`, with the reason there: permissions,
the modules that keep customers, vehicles, vendors and employees, platform administration,
the audit log, reports and the dashboard (read only), and the HTTP platform. Of the modelled ones,
what each leaves out is said in section 3.
Crashes of the server are modelled where they leave something behind (BillingWebhook,
BillingChange, BillingCheckout, Accounts); elsewhere a transaction that does not commit
leaves nothing, and an idle worker stands for it.

## 8. Plan

Done: the modules of section 3, with the runs and theorems above. Left, in this order:

1. The composition of BillingChange with Membership (the limit a seat change sets against
   the seats taken) and of PartStock with Procurement (one row of a part, two components).
2. The recent-authentication window and the switch of organizations of a session.
