# Verification of the cab-booking backend

This directory holds TLA+ models of the parts of the backend where requests,
webhooks, sweepers, workers and editors of settings touch the same rows, keys and
caches; the TLC configurations that check them on small instances; and TLAPS
proofs, for every value of the constants, of all that is checked but liveness. The
models are written from the source. Where a comment or a test promises something else
than the code does, the claim is kept as a definition of the model that refutes it
(section 9).

## 1. The system

One Express process per instance (several may run), one Postgres database through
Prisma, Redis for caches, one-time codes and locations, BullMQ for background
jobs, a payment gateway that calls back through webhooks, a maps provider, message
providers, and a WhatsApp bot inside the same process. Transactions run at READ
COMMITTED. What makes concurrent handlers safe is a small set of facts:
conditional `updateMany` on a status, unique indexes, two exclusion constraints,
atomic increments, and atomic commands of Redis.

| Part | State it keeps | Operations | How it meets the others |
|---|---|---|---|
| Lifecycle (`lifecycle.service`) | `bookings.status`, fare columns | confirm, markEnRoute, markReached, startTrip, markArrived, completeTrip, expire, recordTripDistance | every move is one conditional update; completeTrip writes the books and releases the car in its transaction |
| Allocation (`allocation.service`, `allocation.model`) | `allocations`, `vehicles.status` | allocate, reassign, release | called by dispatch; release by complete, cancel and class change |
| Class change (`bookingVehicle.service`) | class, fare, length of the trip | changeVehicleClass | quotes again, releases a hold of another class |
| Creation, idempotency, codes (`booking`, `idempotency`, `discount`) | `bookings`, `idempotency_keys`, `discounts` | create, claim, complete, fail, redeem, release | the gate wraps creation |
| Payments (`payment.service`, `webhook.service`) | `payments`, `ledger_entries`, counters of the booking | createOrder, capture, cash, ingest | the webhook feeds it, the payment gate of a completion reads it |
| Collections (`paymentCollection.service`) | `payments`, links and QR codes at the gateway | create, share, resend, cancel | same table, same webhook |
| Books (`billing`, `gst`, `adminPayment`) | invoices, ledger sets, sequence, registrations | finaliseBooking, createRefund, edits | in the completing transaction |
| Companies (`corporate`, `corporateSelfService`) | companies, credit, employees | apply, approve, edit, take and give back credit | credit moves with bookings |
| Quotes (`quote`, `fare`, `surge`, `fareConfig`, `vehicleCatalog`) | rate cards, classes, switches, their cache | list, quote, re-quote; edits | read through `cache.service` |
| Jobs (`queues`, `workers`, `jobs`) | BullMQ, `idempotency_keys` | enqueue, runOnce, send, dead letters | fed by events and sweepers |
| Notices (`notification.job`, `notify.provider`, `push`) | queued notices, device rows | queue, send by text, push and mail; register | templates decide who hears what |
| Bot (`bot/`) | one session row a customer, its draft | messages, sweeps, payment notices | books through the API |
| Accounts (`auth`, `otp`, `passwordReset`, `user`, `address`) | users, refresh tokens, codes and links in Redis, addresses | sign in, refresh, guess, reset, edit, close | a closing looks at bookings |
| Drivers and trips (`driver*`, `location`, `trip*`, `bookingStop`) | drivers, cars, presence, readings, photographs, start codes | sign up, verify, hire, ping, sweep; start, measure, complete | a ping may mark an arrival |
| Enquiries (`maps`, `serviceState`, `city`, `bookingRequest`, `funnel`) | breaker, cache, states served, requests, forms | geocode, route, open and close, track, chase | a quote asks the maps first |
| Sockets (`realtime`, `lib/events`) | connections and rooms | connect, watch, resync, broadcast | hear the events of all others |

`PROJECT.json` lists every component with its status, and under "hazards" each
place that is hard to test, with its line: handlers that read before their
transaction and use the snapshot inside it; duplicated, late and concurrent
webhooks; a process that dies between two statements; a job delivered twice;
clients that repeat a request; limits judged outside the transaction that consumes
them; caches invalidated beside a reader; copies of a session written back whole.

## 2. Modules

| Module | What it is |
|---|---|
| `HoldWindow`, `Dispatch` | the held window; bookings, allocations and vehicles: lifecycle, allocation, class change, cancellation, fleet |
| `Reservations`, `BookingLifecycle` | abstract: a calendar in which no two reservations clash; the phases of a booking. `Dispatch` implements both |
| `Payments` | the money of one booking: orders and links, captures, cash, repricing, cancellation, expiry, completion |
| `Collections`, `Realtime` | links and QR codes call by call, with the gateway; sockets, rooms and who hears what (extends `Collections`) |
| `JobDelivery`, `Notices` | queue, workers, runOnce, dead letters; what a notice becomes, and device rows (extends `JobDelivery`) |
| `BookingCreation` | the idempotency gate, create, a code |
| `Conversation`, `DatePicker` | the bot's session row and its handlers; days and times a customer may choose |
| `Fares`, `Quoting`, `RateCards` | prices as operators; list and quotes as functions of the tables; the tables, their edits and their cache |
| `Corporate`, `Billing`, `GstRegister` | companies and credit; a trip's books (extends `Corporate`); our registrations |
| `Accounts`, `Addresses` | users, tokens, codes, links; a customer's addresses |
| `Drivers`, `Trips` | drivers, cars, presence; codes, readings, photographs, stops (extends `Drivers`) |
| `Maps`, `ServiceStates`, `Enquiries` | cache, lock, breaker, timeouts; states served; pickups, requests, forms (each extends the one before) |
| `MC*` | values of the constants |
| `DataTheorems` | sequences and sums over finite sets |
| `*Proofs` | theorems and proofs: `DispatchProofs`; `PaymentsProofs` (also `Trips`); `CollectionsProofs` (also `Conversation` and `DatePicker`); `JobDeliveryProofs` (also `Notices` and `Enquiries` with what it extends); `BookingCreationProofs` (also `RateCards`); `AccountsProofs`; `BillingProofs` |

### Conventions

- A variable is a table or a column, a set of keys in Redis, or the memory of the
  requests in flight (`req[r]`, `calls[k]`, `visits[k]`, `work[p]`: what a handler
  has read and will use). Variables marked *history* are written only for a
  property to refer to.
- A handler that reads first is a read action and a commit action, in between
  which others commit. A transaction that locks its row before it reads is one
  action; one that reads without a lock and then writes is two.
- `Abandon`, `Lose`, `Kill`, `Stop` are the process dying or a transaction rolled
  back; they forget a request and leave the database alone.
- Definitions headed as faults are plausible bugs. No action uses them; each takes
  the place of the definition it stands before in one mutant of `PROJECT.json`,
  which shows that the property listed with it depends on that code.
- Money is in rupees or paise as in the code, days and hours are counted, names,
  addresses and payloads are members of small sets.

### Correspondence

`PROJECT.json` maps each definition to its lines. What the map does not say:

- `Dispatch`: `Move` is `transition`; `InsertAllowed` is the unique index and the
  two exclusion constraints. `UpdateVehicle` is an admin's free edit.
- `Payments`: `attempt`, `emitted` and `closed` are the gateway, which may try
  several payments on an order, captures at most one, sends an event again until
  it is answered, and takes no payment on a cancelled link. `Ingest` may let two
  deliveries of one unprocessed event through, as the wait of the loser is bounded.
- `Collections`: one step for each request to the gateway and each query. A capture
  answered without a match is not sent again (`early`). The transaction of a
  capture fails on the unique index when another open row has taken the purpose of
  a row cancelled meanwhile (the guard of `Apply`).
- `JobDelivery`: BullMQ is external: take, acknowledge, fail, expiry of a lock.
- `BookingCreation`: `Reopen` is the update by key that reclaim and takeover share.
  `Prune` is `pruneExpired`, which nothing calls yet.
- `Conversation`: an operator maps a copy of the row to the copies its answers may
  leave; `LoadSession` and `Flush` are steps of their own and the last writer wins.
  `Content` is the trip `createBooking` sends: no fare and no quote id is in it.
  `Create` inserts it, and `FailToTag` is what follows: `created.id` is undefined
  (`create` answers `{ booking, ... }`), the update throws, and the customer is told
  that booking failed. So no row has a `botKey`, no session an `activeBookingId`
  from the payment step, and the payment link and PAYMENT_PENDING are not reached.
- `ServiceStates`: `FindDefault` and `CreateDefault` are the two awaits of one round
  of `seedDefaults`; `Abandon` is a failed statement or a death between any two steps
  of an edit. `unseeded` (*history*) is what the seeding which wrote the first row
  had still to write.
- `Enquiries`: a call of a form is a tab (`Tabs`); one rider may have several under way.
- `Corporate`: a staff edit (`Edits`) may set type, company and number, each or not.
  The code lets a RETAIL row keep a company it is given in the same edit.
- `Billing`: an invoice goes to the number typed for the trip, else the account's
  (`RecipientGstin`); a cancellation looks up the card active then (`CardsThen`).
- `Drivers`: a car is its registration number, deleted and made again included. A
  hire looks up number and car before its transaction, a hire of a known driver is
  three writes of their own (`BeginRehire`, `FindCar`, `Assign`).
- `RateCards`: lists and quotes are functions of the tables and the time; the cache
  with its lock is a state machine over some keys.
- `Realtime`: an event of another component is any booking's at any time.

## 3. Runs

Every run passes. A property that has nothing to say about most of a model is
still checked in all its states.

| Run | Properties | Bounds and why they are enough |
|---|---|---|
| `fleet` | `NoDoubleBooking`, `RidesDisjoint`, `CalendarKept` (refinement of `Reservations`) | a nine-hour round trip whose driving takes two hours and a ride that starts at hour seven, two like cars, one driver, two requests, three rows: a hold, its reassignment and a competitor |
| `one` | `InMotionHeld`, `AssignedIsHeld`, `LifecycleKept` (refinement of `BookingLifecycle`) | one booking, two cars of two classes, maintenance by hand, both retirable, two requests |
| `payments` | `LedgerBacks`, `CompletionIsPaid` | a half paid in advance of 2, an order and a link, two rows, one payment with up to three events, another price, two requests |
| `collections` | `AskedOnce`, `MoneyPlaced`, `ToldRightly` | two calls, one of them lost, a balance asked by link or QR code and a payer without a booking, one repricing or cancellation; three users, one socket opened twice |
| `jobs` | `OnceEach`, `ToldTruly`, `DevicesBounded`, `JobsEnd` | two jobs of one key, two workers, two tries (the least at which a retry is not the last), two kills, one stall; one booking with its three notices, two users, two tokens, a limit of one |
| `creation` | `DoneOnce`, `UsesCounted`, `ReplayTruth`, `KeyComesFree` | one key with its own and another body, a code of one use, two requests of which one is lost |
| `conversation` | `DraftFitsStep`, `BookedAsReviewed`, `CancelAsQuoted`, `PickerIsTrue` | two slots over one session, a round trip of one or two people, two cabs of which one takes one, one write that another copy misses; two months from 30 January 2028, the end of a month before a leap day, at 5:55 and 23:45 |
| `prices` | `PathsAgree`, `RetireLeavesPriced`, `EventuallyCurrent` | two cities of one state, four tables of up to three cards with state, city and future cards, ten trips of all types, one reader, one editor, one edit |
| `billing` | `BooksBalance`, `ChargedRightly`, `RegisterTrue` | one booking, private or a company's, with a number typed or not, cancelled 45 or 60 minutes ahead (either side of the threshold), two callers, two calls and three payments, calls and edits of companies in all; at most two registrations of two states and three edits by two editors |
| `trips` | `EvidenceKept`, `StartedByCode`, `QuietGoOffline` | two drivers, one car, two callers, six scenes to start from, among them a retired car to hire and a driver to hire again, readings 4, 5, 9 |
| `accounts` | `RotatedOnce`, `CodesBounded`, `HistoryKept`, `OneDefault` | two users, two requests, limits of one, three tokens and codes; three addresses saved against a limit of two, from two devices |
| `enquiries` | `AnswersComeBack`, `ProbeIsOut`, `OpenStaysOpen`, `ChasedOnce` | two riders, a threshold of two failures, two built-in states, so that a seeding has two rounds to stop between, two processes, two editors, two tabs, two forms, two sweepers |

Every race here is of two handlers over one booking, car, payment, key, row or
copy; a second slot gives all of them, a third repeats roles. Amounts tell
part-paid, paid and overpaid apart. Limits are one or two, so that one more than
the limit is reached. `MaxEffort`, `MaxCalls`, `MaxChanges`, `MaxEdits`,
`MaxRegistrations`, `MaxKills`, `MaxLosses`, `MaxLost`, `MaxLookups` and their like
bound how often something happens, in the guards or the state; the theorems hold
for any value of those the proofs mention.

Machines that share no variable are run in pairs, one instance a pair. In
`conversation`, `billing`, `accounts` and `collections` a step of the one is taken
while the other stands at its start (`Talk`, `Books`, `Profiles`, `Counter`): every
behaviour of either machine alone is one of the instance, and every state shown is
one of either machine beside the other's start. `jobs` does the same with a
constraint (`Apart`), which leaves the fair steps of the queue alone.

Deadlock is not checked: bookings, jobs and conversations end, and rows, attempts
and losses are bounded, so that every instance may stop.

## 4. Fairness

Five properties are liveness; the others are checked, and proved, without fairness
mattering.

- `JobsEnd`: a worker that is not killed goes on (weak fairness of its steps), the
  stalled-job check runs (weak fairness of `Recover`), and a waiting job is taken
  in the end although workers take others in between (strong fairness; the queues
  are first in, first out). Kills and stalls are bounded: a system whose workers
  die for ever promises nothing.
- `KeyComesFree`: a handler that is not lost goes on, time passes, and a client
  without an answer sends its request again (strong fairness, as slots may be
  busy). The last is about the client, for whom the gate exists: nothing on the
  server frees the key of a crashed request until somebody retries.
- `EventuallyCurrent`: a reader goes on, and Redis expires keys (weak fairness).
  Editors are under no fairness: they may die half-way.
- `AnswersComeBack`: each step of a lookup that can be taken is: timers fire
  (weak fairness of `Progress`). The provider need never answer.
- `QuietGoOffline`: the sweep runs (weak fairness of `Sweep`), which a repeated job
  of BullMQ does. No driver need do anything.

## 5. Assumptions about the environment

- Postgres: constraints hold at every commit; single statements are atomic; an
  update with a condition looks at the row again under its lock.
- The gateway captures one payment for an order and repeats an event until it is
  answered with success; webhooks come in any order, any number of times, side by
  side. A closed link or code takes no payment.
- Redis: single commands are atomic, keys may vanish, the server may be away.
- A request is not still between its insert and its end when its key's row expires
  24 hours later (the guard of `Prune`).
- The named `ASSUME` of each module says what validators and schema let in.

## 6. Proofs

TLC checks the instances above. TLAPS proves the following for every value of the
constants that the named assumptions allow: any number of bookings, cars, rows,
users, keys, requests, workers and so on. Each component's theorems rest on one
inductive invariant, which says what the property says and what a request in flight
still knows of the rows it read. `PROJECT.json` lists the theorems; of the 40
properties of the runs 35 are stated by one: every invariant and every property of
steps. The other five are liveness.

`DataTheorems`. What is needed of sequences (append, replacement), and that
`SumFunctionOnSet` over a finite set is 0 for none, and grows by `f[x]` with `x`.
The fold is defined by a choice, so its value is first shown to exist by taking a
minimal set without one (`FS_StrictSubsetOrderingWellFounded`), which needs no
induction over an operator.

`DispatchProofs`. `TypeInv /\ NoDoubleBooking /\ SnapshotsFit`: the constraints decide
each insert, so `NoDoubleBooking` is inductive by itself; `InMotionHeld` needs
`SnapshotsFit`: the row that a reassignment will release is, released or not, of the
booking the new row is for, as a row never changes its booking, so a stale
reassignment releases only its own booking's hold and replaces it in the same
commit. `AssignedIsHeld` follows because a release frees exactly the vehicles of the
rows it ends. Every step is a step of `Reservations` and of `BookingLifecycle`, or a
stutter. `RidesNeverOverlap` assumes `Steady`: no trip on offer is HOURLY, and the
lengths quoted for one trip differ by no more than the hold buffer. Without it the
property is false of the code: a class change that keeps the hold may lengthen the
trip, and the length of a rental is not in the booking (section 9). With it
`HoldsCover` is inductive: the window of a hold contains the ride, also after one
more quote.

`PaymentsProofs`. `Carried` says what a request that has read still knows: cash will
count as paid no more than was recorded when it read and what it adds itself, and a
completion passed the gate on money recorded then. The ledger only grows, so both
still hold at the write, whatever came in between. With `CreditIsCaptured` and
`CountersBacked` this is inductive; `LedgerBacks` and the action property
`CompletionIsPaid` follow. Of the trips: an image has one holder. One that no trip
names yet, or that a trip names no more, is in the hands of one request, which will
name or destroy it; a request that lets go of what it uploaded has seen its
transaction fail. So what a trip names is in storage (`EvidenceKept`). Readings a
request compared are in order with what the row holds when it writes. Guesses of a
code that have passed the check of the limit count as made: `StartedByCode`.

`CollectionsProofs`. `RowsInv`: each row has an instrument to itself, one that asks no
more cannot be paid, and no two rows for one purpose can. `HandsInv`: an instrument a
call has in its hands (to store or to undo) is in no row and in no other call's
hands. `CallsInv`: what a call read of its row still holds when it writes: what was
closed stays closed, captured captured, recorded recorded. `LedgerInv`: the counter
is the sum over the booking's recorded rows. `SocketInv`: a socket is in rooms its
user may be in. From these `AskedOnce`, `MoneyPlaced` and `ToldRightly`. The proof
showed that the model let a capture revive a row whose purpose another row had
taken; in the code the unique index aborts that transaction, and so it now does here.
Of the bot: `RowOK` is a predicate of one copy of the session's row, and every copy,
stored or in hand, satisfies it (`CopyOK`): the answers its step builds on are there,
the trip of a step that confirms is among those any review has put to the customer
(`reviewed`, *history*, which no copy carries) and its cab takes the passengers
(`Stands`), a booking named was made (`Known`). Each operator takes such a row to such
rows, and a row is always written whole, so the writer that comes last does no harm;
one that kept a step and not the draft it belongs to would (the mutant of `Write`).
The trip need not be the last one reviewed, when answers cross, nor its fare the one
shown, as creation prices the trip again (booking.service:424): `DraftFitsStep`, `BookedAsReviewed`, `CancelAsQuoted`. Of its days
and times: `Answered` (a time is asked of a chosen day, a return of a chosen pickup)
is inductive, and `PickerIsTrue` follows of any such state from lemmas about the
calendar, in which every day is in one month and the lengths of months come to those
of years; about the weeks of a month, which share its days; about the pages of a
list, whose rows are numbered by how many come before; and about the nearest day a
phrase fits, where two searches over different ranges meet in one day. The calendar
is that of 1901 to 2099, every fourth year a leap year.

`JobDeliveryProofs`. Effects and claimed keys agree (`KeyInv`), a worker about to send
is the only one for its key and nothing was sent (`SendInv`), a job out of attempts
has failed and stays so (`QueueInv`, `BuryInv`): `OnceEach`, and dead letters are
exhausted. `NoticeInv`: only an admin's confirmation makes a trip remindable, and
what is due, queued or heard of reminders is of such trips: `ToldTruly`. For devices
(`DeviceInv`): unless a trim failed or a device of the user is about to be counted,
what the trims under way will leave is no more than the limit: `DevicesBounded`. Of
the maps (`MapsInv`): a half-open breaker has let a call through which has not come
back and will close or open it: `ProbeIsOut`. Of the states (`StatesInv`): while the table is empty
the built-in states are served, and who is about to write its first row by hand writes the
others of them with it; afterwards what was opened and not closed has an active row, or
is built in and in `unseeded`, without a row: the seeding that wrote the first row has
not come to it, or has stopped. What is so left out is named by the property, and is
the whole of what a stopped seeding can take away: `OpenStaysOpen`. Of the forms (`FunnelInv`): who is
chased was claimed before, and a claim is made once: `ChasedOnce`.

`BookingCreationProofs`. A key claimed only once has one request at work, or a
booking, or neither (`OnceInv`); stored answers are bookings of their key and body
(`AnswerInv`); a request past the comparison of hashes is for the body in the row
(`RequestInv`): `DoneOnce`, `UsesCounted` and the action property `ReplayTruth`.
Of the rate cards (`CardsInv`): no two of one scope, class and type start together
(`OneOfAKind`, the unique key), so that the newest card in force is one. What the
check of a removal found still holds when it commits, as time only brings cards into
force (`ChecksHold`); this assumes one editor at a time, as two that each remove the
other's replacement do leave a city without a price: `RetireLeavesPriced`.
`PathsAgree` is about the operators of the prices: the order of `ListedCards` puts
first what `FindActiveCard` finds, a quote made again of what a quote gave back finds
the same city, class, package and day of return. It is proved of trips that are
`Quotable`, as those of the run are: asked for on terms a quote is given for, and, of
round trips that begin and end in one day's last minute, where that minute is night;
section 9 has the trips that are not.

`AccountsProofs`. A claimed token is revoked, has one claimant and nothing in exchange
yet (`SessionInv`): `RotatedOnce`. Guesses and codes that have passed the check of
their limit count as made (`CodeInv`), and there are no more of them than requests:
`CodesBounded`. Types and `HistoryKept` go along. For addresses, the rows and the
creations under way together stay below limit and devices, and what a request that
no other crossed has found is still so (`Fresh`), from which a list that is settled
keeps exactly one default (`OneDefault`).

`BillingProofs`. `RegisterInv`: what an edit carries was compared with the row it
read, and what a lookup holds is current unless it is late: `RegisterTrue`.
`BillingInv`: companies and customers belong together (`CorporateInv`); quotes and
shares are well formed; a final fare is one of `Charges` (the estimate, with one
surcharge, or what a caller named); a call let through to the commit has what was
paid (`CallsOK`); the books of each booking balance and invoice numbers differ
(`BooksOK`): `BooksBalance` and `ChargedRightly`. That shares and percentages are
whole and come to the total is proved of the operators of `Fares`.

Theorems about a machine that a run explores beside another (`Profiles`, `Books`,
`Counter`) are about the machine's own specification, which that of the run implies.

## 7. Only model-checked

The five liveness properties, `JobsEnd`, `KeyComesFree`, `EventuallyCurrent`,
`AnswersComeBack` and `QuietGoOffline`: fairness and ENABLED are out of the prover's
reach.

TLC also checks every invariant proved, on the instances of section 3, and what the
mutants break.

## 8. Not modelled, and why

- Guests, reviews, contact forms: single-row writes.
- Reports, exports, summaries: read-only aggregation and formatting.
- Audit, storage, upload: only written; the photographs of a trip are in `Trips`.
- The free-text assistant and WhatsApp templates: calls of external providers.
- The HTTP shell: wiring; what its validators let in is in the assumptions.
- Of the parts modelled: mails and layouts, columns that no guard reads (timestamps,
  notes), read-only lists and searches, the permission matrix, the arithmetic of a
  discount, request counters (`rateLimit`, `loadShed`), `compareTripTypes` and
  `quoteTax`, surge rules' editing, images of classes. Each component's note in
  `PROJECT.json` says what it leaves out.
- What nothing reaches: `compareTripTypes` (quote.service:1860) calls
  `isDropInsideCity` (1909), which is defined nowhere, and so throws after its gates;
  `tripOtp.reissue` has no caller; no handler enters the steps SUPPORT_CATEGORY,
  SUPPORT_MESSAGE and BOOKING_FARE_CONFIRMATION.
- An answer of the calendar page that carries its time skips the question of times.

## 9. Where the code and its words differ

Claims of comments that a model refutes. Each is a definition of its module, kept
out of the runs; checking it with the configuration named shows the behaviour.

| Claim | What happens | Configuration |
|---|---|---|
| `DeadBookingHoldsNothing` (allocation.service:149) | reassign (385) does not look at the status again: a booking cancelled meanwhile holds a car | MCDispatchFleet |
| `RetiredNotHeld` (vehicle.service:140) | softDelete trusts a status that another hold's release sets to AVAILABLE, and updates unconditionally | MCDispatchOne |
| `RidesDisjoint` for rentals (allocation.model:66) | an HOURLY booking has length 0: its car is held for the default trip only | MCDispatchFleet, Offers <- HourlyAndOneWay |
| `CaptureRecorded` (paymentCollection.cancel) | the capture of a link cancelled meanwhile is answered and not recorded | MCPayments |
| `ExpiredIsUnpaid` (jobs/scheduled:100) | the sweeper expires a booking paid since it was listed | MCPayments |
| `RecordedIsSent` (notification.job:489) | a worker that dies between record and send leaves a message unsent | MCJobDelivery |
| `UsesWithinLimit` (discount.service:188) | the last use of a code is judged outside the transaction that takes it | MCBookingCreation |
| `ListedIsBooked` (quote.service:2261) | list and quote differ for rentals that a package matches and for trips in town | MCRateCards, Wanted <- RentalTrips |
| `OneBookingPerDraft` (bot/utils/idempotency:5) | the key is never stored (bookingAdapter:52 reads an id the answer lacks): the customer is told that booking failed, and the next tap books again | MCConversation, two BookingIds |
| `AskedBeforeLoss` (sessionTimeout.job) | a message answered on an older copy of the row resets an expired draft without "continue or start new" | MCConversation |
| `FareAsInvoiced` (lifecycle.service:711) | a completion that is refused has rewritten the fare | MCBilling |
| `OneOpenAttempt` (funnel.service:22) | two calls of a rider's form side by side find no open row, and insert two | MCEnquiries |
| `SeedingIsSafe` ("safe to run on every deploy", serviceState.service:191) | a seeding that dies, or meets another's insert, leaves built-in states unwritten, which the rows it did write take out of service | MCEnquiries |
| `LockedAfterTries` (tripOtp.service:55) | guesses side by side pass the check together and are counted after the lock | MCTrips |
| `BookedNotChased` (funnel.service:147) | the sweep marks a form completed since it was listed | MCEnquiries |

Met while reading, and in the models as the code has it: the capture of an
instrument whose row is not yet inserted is answered as unmatched and lost
(payment.service:256, the variable `early`); a second open row for one purpose fails
on the unique index although a comment expects a new link after a repricing; a kept
trip can never change class; the advance is frozen once paid, which leaves an ADVANCE
collectable beside the link of the balance; a ping of any driver that names a booking
may mark it ARRIVED; two crossed edits may make a registration's state and number
disagree; an address list may lose its default to crossing requests or to
`isDefault: false`; a half-open breaker lets every call through; staff may make a customer RETAIL and give
him a company in one edit (customer.service:159); the bot offers days
further ahead than creation accepts (90); `models/booking.model.js` lists statuses without
REACHED. Of prices: a round trip picked up at 23:59 and back the same day is given
back at 00:00 and, priced again, at 21:00 of the next day, so that a night window with
one of the two makes booking and quote differ; `allClassesSchema` lets in a round trip
without a return and a rental without terms, which `estimateSchema` refuses; the
comment of the clamp for late pickups (returnDate.js) promises that the return adds
nothing, but one clamped to 23:59 adds a night allowance to pickups from 21:00 to
21:54, before the night of 21:55, and a pickup at 23:59 makes two days.

## 10. What is left

1. The five liveness properties are shown on instances only.
2. The two hazards without a property (a reassignment that trusts a status read
   before, a capture before its row is inserted) are section 9's: the code does not
   exclude them, so no property can say it does.
3. A larger calendar: clocks other than India's, and years that are no leap years
   though divisible by four.
