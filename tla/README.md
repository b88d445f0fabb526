# A specification of the rental backend

TLA+ modules, TLC configurations and TLAPS proofs for the NestJS backend in
`src/` (TypeScript under `src/src`, schema in `src/prisma/schema.prisma`).

The backend is one Node process over PostgreSQL (through Prisma) and Redis. Every
HTTP handler is an async function: it runs alone up to its next `await`, and there any
other handler may run. Most handlers read rows, decide, and write after one or more
awaits without reading again; a few group statements in a Prisma transaction, and only
`BookingsService.create` asks for a serializable one. That is where the difficulty of
this code lies, and what the specification is about.

## The system

| Component | State it keeps | Operations | What makes it correct |
|---|---|---|---|
| Bookings (`modules/bookings`) | Booking rows, BookingStatusHistory | create, confirm, reject, checkIn, checkOut, cancel | no two reservations overlap; a booking that frees its dates is over; stages are entered in order |
| Payments (`modules/payments`) | Payment, Refund, Transaction rows; the order at the provider | initiatePayment, payFromWallet, capturePaypalPayment, checkMomoStatus, completePayment, processRefund, the unrouted Stripe webhook | no more payments complete than captures made; a paid booking is confirmed; each completion credits the host, no capture twice; refund rows are backed by refunds |
| Disputes (`modules/disputes`) | Dispute rows | openDispute, resolve, escalate | one dispute per booking; resolution moves money once |
| Wallet (`modules/wallet`) | Wallet.balance, pendingBalance | withdraw, topUp, internalTransfer (the last two have no caller) | debits only against a balance |
| Properties (`modules/properties`) | Property rows, AvailabilityBlock rows, the Redis page cache | create, update, remove, approve, suspend, blockDates, findOne, search | no booking of an unlisted property; blocks and stays do not meet |
| Redis service (`redis`) | keys with TTL | acquireLock, releaseLock, cache, session, presence, rate-limit calls | a lock is released by its holder or by its TTL |
| Reviews (`modules/reviews`) | Review rows, the rating columns of the property | create, respondToReview | the aggregate counts only reviews that are there, and misses only those that commit while another is being counted |
| Auth, Users, Admin (`modules/auth`, `modules/users`, `modules/admin`) | User and UserSession rows, lockout counter, one-time keys in Redis | register, login, refreshToken, logout, verifyEmail, password reset and change, 2FA, becomeHost, revokeSession, deleteAccount, suspendUser, activateUser | sessions end with the password or the user; an ended session stays ended; few guesses pass before the lock |
| Search, caches (`modules/search`, `redis`) | the Elasticsearch document, cached pages and lists | indexProperty, removeProperty, reindexAll, the searches and their caches | a copy shows what was committed; stale caches go; unapproved listings are not found |
| Messaging, presence (`modules/messaging`, `websockets`) | Conversation, participant and Message rows; `online-users`, `socket-map`; sockets and rooms | connect, disconnect, join, send, read, mark-read, archive | presence is right again after a clean connection; a message that was not there at the last look counts as unread |
| Files (`modules/files`) | PropertyImage rows (and no objects, see below) | addPropertyImages, reorderImages, setPrimaryImage, deletePropertyImage | at most 30 images; a listing with photos has a primary one |
| Queues, Notifications (`queues`, `modules/notifications`) | Bull jobs, Transaction and Notification rows | reminder, payout and e-mail processors, retries, restarts | nobody is skipped; only a restart repeats an effect; jobs end |
| Pricing (in three services) | – | calculateBookingPrice, calculatePrice, getInvoice, calculateCancellationRefund | the parts add up; the quote covers the charge; earlier notice never costs more |
| Analytics, Health, configuration | cached statistics | reads | – |

How they interact: Bookings and Disputes call `PaymentsService.processRefund`, in two
cases from inside their own open transaction while the refund uses another database
connection; `completePayment` writes booking and wallet rows; check-out, disputes and
payments all write the host's wallet; every write of the property row (view counter,
favourites, rating, edits, approval, suspension, removal) invalidates the snapshot of
the serializable create transactions, because these update that row too; Redis holds
the lock that create takes and loses it to its TTL. The public pages read the property
through Redis and Elasticsearch, which its services invalidate and feed after their
writes, one call at a time, and whose errors they swallow. Accounts meet the rest only
at the guards. Queues and gateway share the process, and so its crashes, with everything.

The behaviours that are hard, each listed with its line under `hazards` in
`PROJECT.json`: handlers acting on rows read before an await; a lock that expires under
its holder or outlives it; transactions that time out while a refund they wait for goes
on; row locks taken in different orders by cancel, resolve and completePayment; refunds
and payouts done in separate commits; users calling routes in any order, several times, and with
references and amounts that nothing checks;
copies filled from a row that has changed since; keys and rows written by a connect and
a disconnect at once; a process that dies between any two statements.

## The modules

Four compositions stand beside each other: `Rental` (bookings and money), `Accounts`,
`Storefront` and `Realtime`. Each has a base module with the state, one module per
service, the module that composes them and states their properties, and an MC module. What
one needs from another is an action without a cause there: a booking that is cancelled
while a reminder waits, a removal the caller was free to ask for.

| Module | Models | How state and actions correspond to the code |
|---|---|---|
| `Platform` | the tables, the request slots, the row locks | one variable per table (`bookings`, `payment`, `dispute`, `history`, `blocks`, `listing`, `balance`/`pending`), one for Redis (`lock`), one for the provider (`order`, `returned`), and `req`, the handlers in flight: `req[r].pc` names the await a handler is at, the other fields its local variables |
| `Bookings` | `BookingsService` | create is five actions (lock, snapshot, commit, abort, release), every other route a read action `XRead` that makes the code's checks and a write action that applies them |
| `Listings` | the parts of `PropertiesService` that meet bookings | blockDates and remove as read and write; approve and suspend as one statement; `TouchProperty` for the writes of other columns |
| `Payments` | `PaymentsService` and the guest at the provider | one action per await of initiatePayment, payFromWallet, completePayment and processRefund; `Guest...` actions are the external provider page |
| `Disputes`, `Wallets` | `DisputesService`, `WalletService.withdraw` | as above; resolve keeps its dispute row locked across the refund |
| `Rental` | the composition | `Arrive` starts a handler, `Resume` goes on with one, `Refused` is a statement a unique index, a status check or the provider refuses, `Drop` a crash or a rejected await, `TransactionTimeout` Prisma's 5 seconds, `Expire` the TTL of the lock |
| `RentalProperties` | the properties, and the refinement mapping to `Calendar` | |
| `Calendar` | the abstract specification: what create promises | a reservation holds its dates until it is over, overlapping reservations exclude each other, none comes back |
| `Claims` | what comments, messages and the repository's README say and the code does not do | |
| `MCRental` | constants of the TLC instances, symmetry | |
| `RentalTypes`, `CalendarProofs`, `PaymentProofs`, `StageProofs`, `LedgerProofs` | the proofs about `Rental`, each building on the one before | |
| `Identity` | the state of one account | `user` and `session` are the rows, `keys` and `resets` the one-time keys in Redis, `req` the handlers in flight with what they read |
| `Auth`, `Users` | `AuthService`, `UsersService`, and `suspendUser`, `activateUser` of `AdminService` | a read action with the checks, then one action per statement |
| `Accounts`; `AccountsProofs` | the composition, its properties; the proofs | |
| `Shop` | the state of one listing's public face | `row`, its copies `cache` and `doc`, what hangs on it (`favorites`, `review`, `images`, `primary`) |
| `Catalog` | `PropertiesService`, `SearchService` and the cached readers | `XRead`, `XWrite`, `XDel`, `XIndex` for the statements of a handler; one operator per reader that says what it may show; `Miss`, `Read`, `Fill` are what all cached readers do |
| `Feedback`, `Gallery` | `ReviewsService`, `toggleFavorite`; `FilesService` | as above |
| `Pricing` | the price formulas of three services | operators only |
| `Mirror` | the abstract specification of a copy | versions are committed, and shown only after that |
| `Storefront`; `StorefrontProofs` | the composition, its properties, the refinement mapping to `Mirror`; the proofs | |
| `Channel` | the state of conversation, sockets, presence and jobs, and `Crash` | `socket[s]` holds how far its connect and disconnect handlers are |
| `Chat` | `AppGateway`, `MessagingService` | |
| `Jobs` | `QueuesService`, the processors, Bull as configured | `job[j].at` is the point of the processor |
| `Realtime`; `RealtimeProofs` | the composition, its properties; the proofs | |
| `MCAccounts`, `MCStorefront`, `MCRealtime` | constants of the TLC instances | |

A call whose checks fail throws before it has written anything and is not a step. A
serializable transaction is modelled by its snapshot: `CreateSnapshot` makes all checks
on the state it finds, `stale` holds the open transactions whose snapshot another
commit of the property row has overtaken, and `CreateCommit` is refused for these, as
PostgreSQL refuses the update of a row changed since the snapshot. Prisma's other
transactions are READ COMMITTED: each commits in one action, and the rows that one holds
locked across an await (`BookingLocked`, `DisputeLocked`, `PaymentLocked`) keep other
writers waiting.

In `Rental`, one property, one host and one guest are modelled. Conflict rules are per
property, balance rules per wallet, and nothing in the code relates two properties. Its price
is one constant; the formulas are in `Pricing`. `Transaction` rows are a log nothing
reads back: their contents are left out, but for the sum of the host's withdrawals
(`withdrawn`), and the failure of writing one is not (`PayThrow`).
A provider's refund call may succeed or throw; what is not positive, and more than was
captured for the payment's own order, it refuses.

Nothing ties a payment to its order: `capturePaypalPayment` and `checkMomoStatus` take the
provider's reference and the payment's id from the client as two values, and do not look at
the payment's provider, status or owner. `CapturePaypal(r, o, b)` and `PollMomo(r, o, b)`
therefore capture or ask for the order of one payment and complete, or fail, any other:
a cheap order completes an expensive payment, a refunded payment becomes COMPLETED again, one
paid from the wallet FAILED. What a payment's own order says of it is not a property of this
code. What is left is a count: an order is captured once, so that each capture completes one
payment at most. With MoMo even that is lost, as a reference can be asked for again.

The bodies of resolve and withdraw are typed inline, so the validation pipe passes whatever
number they hold. `Amounts` is any set of integers: a negative refund takes money from a
wallet, a negative withdrawal adds to one.

Refund percentages are whole numbers as in the code, applied with rounding down. The payout
account of a withdrawal is taken as verified, which is done by hand: no code sets it.

In `Accounts`, one user. A password is the number of the write that stored it; a lock and
a session lie in the future or not. That all refresh tokens of a user match one another
(bcrypt reads 72 bytes, which they share) is modelled: refresh and logout pick any active
session. A guarded request has a valid access token; what the guard asks of the row is
`Authorized`.

In `Storefront`, one listing. A copy is a snapshot, the status and the number of the write:
title, price, amenities and rating are in that number. Photos, responses, view and
favorite counters are not, nor is `isFavorited`, which the cached page keeps from whoever
filled it: the code never deletes a copy for these. What a reader may show is an upper bound;
filters, paging and taste show less. A photo is its row: `FilesService` reads its bucket
as `s3.bucket`, the configuration is registered as `aws`, and without a bucket `uploadToS3`
and `deleteFile` return before any call. A stay in `Pricing` lasts a number of hours,
because both services take times as well as dates: the quote rounds its days up, the booking
cuts them off. That the clocks change within a stay, which moves dayjs's difference by an
hour in some time zones, is left out. Amounts in `Pricing` are whole numbers of hundred-thousandths, in
which every percentage of the code is exact; binary floating point is left out.

In `Realtime`, one conversation, that of a booking (without a booking id nothing keeps
getOrCreateConversation from making two), two participants and a stranger. Redis
commands of the gateway do not fail. A statement or an SMTP call of a job that throws
has had no effect: `RepeatedOnlyByRestart` says what follows. No service adds jobs today;
`Add` is what `QueuesService` exports.

History variables, read by no action's guard: `guesses`, `cutShort`, `late` (in a session)
in `Accounts`; `past`, `excused`, `owed`, `unset`,
`crossed` in `Storefront`; `muddled`, `seen`, `passed`,
`misread` in `Realtime`. They name the exceptions that the properties grant, so that no
property has to be weaker than what the code keeps.

Each `MUTANT` operator in a module is an alternative body of a neighbouring definition,
with a plausible mistake in it; it is used by no specification and shows, put in the
place of that definition, that the property it is paired with can fail.

## What the runs check

Every action of the next-state relations fires in some passing run. The runs of `Rental`
expose the routes and faults their question is about (`Exposed`), all others cost states
only.

| Run | Question | Bounds |
|---|---|---|
| `calendar` | Do create, confirm, cancel, approve, suspend, crashes and lock expiry keep overlapping stays apart? `NoDoubleBooking`, `SnapshotCurrent`, `CreatedOnlyWhenListed`, `ReleaseOnlyOwn`, and the refinement `CalendarSpec` | 2 requests, 2 bookings, 2 overlapping stays with different lock keys; two creates at a time suffice for a collision, the second booking id for a reuse of freed dates |
| `lifecycle` | Does any order of the status routes free dates in silence or skip a stage? `FreedOnlyWhenEnded`, `StagesInOrder` | 2 requests, 1 booking, 2 days, blocks, disputes, crash, expiry |
| `money` | Do refund rows agree with the money given back, whatever amounts an admin types in? `TypeOK`, `RefundRowsAreReal` | 2 requests, 1 booking, PayPal or wallet, amounts 1 and -1; `MaxFunds` stops new resolutions and negative withdrawals that would take a wallet beyond it, since each can credit again |
| `captures` | What can captures and polls complete when any reference goes with any payment? `PaymentsNeedCaptures`, `PaidIsConfirmed`, `HostCreditedOnce` | 2 requests, 2 bookings, PayPal, MoMo and wallet; the smallest instance in which an order can complete the other payment, and a refunded one again; polls until the host has `MaxFunds` |
| `overdraft` | How far below zero can a wallet go, is nobody checked in unconfirmed, and is every credit of the host pending, in the balance or withdrawn? `OverdraftBounded`, `StagesInOrder`, `HostCreditedOnce` | 3 requests, so that two debits overtake a third one's check; 1 booking, paid from the wallet or through PayPal, checked in and out; withdrawals of either sign |
| `progress` | Do all requests end? `RequestsEnd` | 2 requests under `FairSpec`, MoMo payments, timeouts, crashes |
| `accounts` | Which sessions survive a password change, reset or suspension, and how many guesses a lockout lets pass? `SessionsEndWithPassword`, `SessionsEndWithSuspension`, `EndedStaysEnded`, `GuessesBounded`, `AccountsTypeOK` | 2 handlers at a time, 4 in all, 2 sessions, 2 failures to a lock: a login, a failure, an ending and one more; from a new account or an active one |
| `storefront` | What can pages, lists, search results, counters, photos and prices be relied on to show? `PageStaleForAReason`, `CopiesAreMirrors`, `StaleCachesClear`, `ApprovedBeforeShown`, `FavoritesCounted`, `RatingCounts`, `ImagesBounded`, `MainPhotoKept`, `PricesAddUp`, `QuoteCoversCharge`, `RefundGrowsWithNotice`, `StorefrontTypeOK` | 2 handlers at a time, 3 in all, each with up to five statements, crashes anywhere; 2 reviewable stays, limits of 2 images and 1 file; prices at the nights, hours and notices on both sides of each bound |
| `realtime` | Is presence right, does news count as unread, do retried jobs do their work once? `PresenceHeals`, `HeardRightly`, `NewsCounted`, `ReminderTellsBoth`, `RepeatedOnlyByRestart`, `JobsEnd`, `RealtimeTypeOK` | 2 sockets, 2 message handlers at a time, jobs with the 3 attempts and 1 restart of the configuration; `Workloads`: 3 chat events, or 2 with a crash, or 2 jobs, or 1 job with 2 crashes, as a crash is all that conversation and jobs share |
| `claim_overlap`, `claim_refund`, `claim_stripe` | What three statements of the repository say, refuted | the smallest instance that shows it |

`accounts`, `storefront` and `realtime` bound how many requests arrive; after
that the system rests, so deadlock is not checked there. `progress` is where it is: there
requests may go on for ever.

Two requests in flight at a time show every race of two handlers, which is what each
hazard needs; the proofs below remove the bound for all safety properties. A third request to come
after two that raced is what the caches, counters and sessions need to show the
damage. Symmetry under
permutation of requests and bookings is used in the safety runs only.

What the runs show beside the passing properties:

- `claim_overlap`: `confirm` checks PENDING, awaits and updates by id alone. Cancelled
  in between, and the dates booked again, its write revives the cancelled booking: two
  live bookings overlap. `NoDoubleBooking` therefore speaks of reservations that are
  not over (never cancelled, rejected, checked out or disputed): for these, create's
  guarantee does hold.
- `claim_refund`: a reject and a cancel of one booking both read the payment as
  COMPLETED and both refund it; a wallet refund is paid twice.
- `claim_stripe`: nothing receives the Stripe webhook, so a paid Stripe payment stays
  PROCESSING.
- `PaymentsNeedCaptures` and `HostCreditedOnce`: as one order completes one payment, whichever
  that is, no more payments count as complete than guests have paid, and the host gets
  `hostPayout` at least once for each of these and at most once for each order. They say nothing
  of who paid for what, and speak only of bookings without MoMo, without disputes, or both.
- `StagesInOrder` holds with a completed payment in the host's place, but the order that was
  paid for it may be another one's.
- `RefundRowsAreReal`, `OverdraftBounded`: the one debit without any check is the negative
  refund of a wallet payment under dispute, which both leave out.
- `QuoteCoversCharge`: the price calculator taxes the service fee, the booking does not, so
  whole days are quoted above their charge by that tax. With hours more than whole days the
  quote has a night more than the booking. Only after the sixth and the 27th night that night
  can make the quote the smaller one, through the discount it reaches. `PricesAddUp`: guest's
  and host's sums agree, and the invoice subtracts the discount twice.
- `SessionsEndWithPassword` and `SessionsEndWithSuspension` name what outlives the ending:
  a login that had checked the password before, and any session when the process dies
  between the write and the ending.
- `GuessesBounded`: with two handlers `M(M+1)/2 - 1` wrong guesses can pass before the lock,
  not `M - 1`, as the counter is read and written in two statements.
- `PageStaleForAReason`: a stale page comes of a fill that a change overtook, of a lost DEL
  or of a death before it; `ApprovedBeforeShown` leaves autocomplete out, which asks for
  no status.
- `PresenceHeals` holds only of users whose last connection met no other: closing one of two
  sockets takes the user offline.
- `NewsCounted`: a message that commits after the reader's stamp with an earlier time is
  counted as read (`misread`). So is whatever the page that the client asked for does not show
  (`passed`): getMessages stamps `lastReadAt` for all messages, mark-read does without showing
  any. What holds is that news after a look counts as unread.
- `MainPhotoKept`: the exceptions are a deletion of the primary photo, reorderings that crossed
  or died, and a setPrimaryImage in the middle of one. Two primary photos are possible.

Module `Claims` states seven more such sentences, kept for their own runs later:
`CancelOnlyOpen` (canCancel tests a constant), `RejectedIsRefunded`, `PendingCovered`
(check-out takes from pendingBalance what a wallet payment never put there),
`HostPaidOnce` (a dispute can be resolved again and again), `NoOverdraft`,
`BlockedUnbooked`, `RemovedInactive`. TLC refutes them too; the hazard notes
say how.

Fairness. `FairSpec` assumes strong fairness of `Advance(r)`, what happens to a request
in flight without anybody's doing: Node resumes a handler whose await is done, a failed
statement throws, a transaction's five seconds run out. It is strong, not weak, because
a handler may wait for a row lock that others take and give back in turn, and
PostgreSQL queues the waiters of a row. `Storefront` assumes that
Redis expires keys that have a time to live (`Expire`), `Realtime` that Bull's workers take
jobs, go on with them and look for stalled ones (`Process`); weak fairness each, as nothing
disables these steps again and again. `Accounts` states no fairness and no liveness. Users, the clock, crashes and approvals at a provider are under no
obligation. Cancel (booking row held, waiting for the payment row) and completePayment
(payment row held, waiting for the booking row) do block one another, at a distance
PostgreSQL's deadlock detection cannot see; `RequestsEnd` holds because Prisma's timeout
ends one of the transactions, and fails when the timeout is taken away.

## What is proved

Every invariant and every action property that a run checks is also a theorem, and so are
both refinements: `Spec => []Inv`, `Spec => [][A]_vars`, `Spec => AbstractSpec`. They hold
for every value of the constants that satisfies the assumptions, which TLC evaluates on
every run:

- `Platform`, `Rental`, `RentalProperties`: stays have a positive length, day 0 exists,
  prices are positive whole numbers, amounts are whole numbers of any sign, no debit is above
  `MaxDebit`, there are finitely many
  request slots, at least one. Any number of bookings, stays, blocks and days, either kind
  of booking, any set of exposed routes and faults.
- `Identity`: finitely many sessions and slots, at least one attempt to a lock.
- `Shop`, `Storefront`: finitely many photos and slots, a limit of at least one photo, terms
  in whole amounts (`TermsAssumption`; binary floating point is left out of the model).
- `Channel`: at least one attempt per job; sockets are numbers.
- `NONE` is no row, user or status.

`GuessesBounded` is stated for two handlers, as its formula is. Every other property is
proved for any number of handlers in flight.

Most invariants are not inductive: a handler reads a row, waits and writes, so an invariant
of the rows needs to say what of the reading still holds when it writes. Each proof module
therefore has an invariant that relates the requests to the rows, and lemmas that sort all
steps into a few shapes (`NextSteps`, `LedgerSteps`, `HandlerSteps`, `NextMoves`), so that
an invariant is shown for the shapes and not for every handler again.

### Rental

`RentalTypes`, `TypesHold`: `TypeInv` adds to `TypeOK` what a request must hold at the
points that use it (`Shape`: dates while creating and blocking, a booking before
completePayment's read, a status before a history row).

`CalendarProofs`: the argument that create is safe.

- `FreedOnlyWhenEnded`: whatever is not live is over. Every write of a status outside
  PENDING, CONFIRMED and CHECKED_IN leaves a mark (a timestamp, a REJECTED history row, a
  dispute) in the same commit.
- `SnapshotCurrent`: a create transaction that can still commit has seen every open
  reservation in its way. The checks look for live bookings, and by the first part an
  open reservation is live. Later steps either write the property row, and overtake all open
  snapshots, or are `Ordinary`: they touch one booking at most, and only end it.
- `NoDoubleBooking` follows, as only `CreateCommit` opens a reservation.
- `Rooted` (handlers, payments and disputes belong to bookings that exist) and `Dated`
  complete the inductive invariant `CalInv`: without them a status write could bring into being
  a booking nobody checked.

From `CalInv`: `NoDoubleBookingHolds`, `FreedOnlyWhenEndedHolds`, `SnapshotCurrentHolds`,
`CreatedOnlyWhenListedHolds`, and `CalendarImplemented`, `Spec => CalendarSpec`: under
the mapping `heldStays`, `overStays` the initial states and every step of the services
are ones of `Calendar`. The lock plays no part in any of these proofs: it is an
optimisation, the serializable transaction is the guarantee. `ReleaseOnlyOwnHolds` is about
the lock itself, and follows from the release comparing the value it wrote.

`PaymentProofs`: `PayInv` says what a handler of `PaymentsService` may rely on, which is little,
since completePayment works on any payment at any time. `Fits`: an unfinished initiatePayment
has its order for itself and knows its provider. `Alone`: one initiatePayment goes on per
booking. `MoneyTaken`: while a completion is in flight, some order was captured.
`CountInv` then counts: the payments that are complete or refunded or about to be
(`Claimed`) and the handlers that will complete one (`Carriers`) are together no more than the
captured orders. Every step is `Quiet`, captures an order and gains one such handler
(`Gains`), or spends one on a payment (`Spends`); only a MoMo poll gains one for nothing, hence
`NoMomo`. `PaymentsNeedCapturesHolds` follows.

`StageProofs`: a booking never becomes PENDING again, whoever was checked in stays so, and
what confirmed a booking, a history row or the time a payment was completed (`capturedAt`, which
no failure and no refund clears), is never taken back (`Forward`). So the decision a route took before its await is still right when it writes
(`Ready`), which gives `StagesInOrderHolds` and `PaidIsConfirmedHolds`.

`LedgerProofs`: sums.

- `SignInv`: a handler moves a negative amount for a booking in dispute, or for none.
- `HostCreditedOnceHolds`: the host's credit (pending, balance and withdrawals) grows in the
  commit of completePayment alone, which spends a capture; `HostInv` keeps it between what
  `Claimed` is worth and what is left of `Captured` without the `Carriers`.
- `OverdraftBoundedHolds`: `Funded` says that a wallet can still take all debits in flight,
  or that one of those was checked against a balance that covered it. The bound is the
  debits of all others, for whatever amounts; for the guest's wallet while no wallet payment is
  under dispute.
- `RefundRowsAreRealHolds`: what was given back can be divided so that every refund that was
  paid but has no row yet has a part of its own, apart from the part that the rows claim
  (`Covered`). A sum over handlers would need induction; a partition does not. A partition
  wants amounts that are not negative, which `SignInv` provides.

### Accounts

`AccountInv`: an account that does not exist has no handlers; a handler that is to write a
session found it opened; the logins in flight never outnumber the unused rows. With it
`EndedStaysEndedHolds`. `SessionsEndWithPasswordHolds` and `SessionsEndWithSuspensionHolds`
follow the two ending handlers: between storing the password (the status) and ending the
sessions nothing opens a session that does not carry the mark `late`, and a death in between
is in `cutShort`.

`GuessesBoundedHolds`: `Left(r)` is how many times handler `r` can still write a count below
the lock, from the least count it may still repeat. The invariant `Spent` bounds
`guesses + Left(p) + Left(q)(Left(q)+1)/2` for the two handlers, each way round: a guess
costs one of the terms at least one.

### Storefront

`Sound`: a handler that will write to the row, for a user, a stay or a cache has found it.

- `CatalogMoves`, `FeedbackMoves`, `GalleryMoves`: whatever a handler does is one of five
  things to the row's copies: it leaves them, commits a version, writes the index, deletes
  the page, or reads for a cache. Three theorems are shown for these five.
- `PageStaleForAReasonHolds`: the invariant adds that what a reader of the page holds is the
  present row, unless a change since has marked it (`excused`) or is to delete the page.
- `ApprovedBeforeShownHolds`: while the listing is unapproved, its row is not ACTIVE, and no
  copy that lists, searches or statistics could draw on has it ACTIVE (`Passive`).
- `CopiesMirror`, `Spec => CopiesAreMirrors`: all copies, and what requests have read for
  them, are committed versions; the number of the row's version and of the requests still to
  write it never exceeds the requests served.
- `FavoritesCountedHolds`, `RatingCountsHolds` count the handlers between two statements.
  `MainPhotoKeptHolds`: while one reordering is at work alone, the photo it makes the primary one
  is there and the others lose the mark before or after it gets it (`OneSoon`); otherwise some
  photo that no reordering touches has it (`SomeOne`), or there are no photos, or `unset` says
  what happened. `ImagesBoundedHolds` rests on a lemma on unions (`UnionBound`):
  the photos and what any set of handlers will insert are within the limit for that many.
- `PricesAddUpHolds`, `QuoteCoversChargeHolds`, `RefundGrowsHolds`, from lemmas on the operators
  of `Pricing` for all hours, nights and notices: with whole amounts every percentage is exact,
  so that a night more in the same discount never costs less, and the sums are linear.

The proof of `RatingCounts` found it wrong: it used to bound how many reviews the aggregate
misses by the number of handlers, which held in the run only because that has two stays. One
slow handler can let any number of others commit between its average and its commit. The
property now names them (`crossed`).

### Realtime

`Sound`: who speaks is a participant, a socket at work has an owner, a job alive has attempts
left. `Heard`: only participants are in the room and what is broadcast is committed.
`NewsCountedHolds` needs no more than that: lastAt is written with the message, and a message
older than its reader's stamp marks them `misread`. `Progress`: how far the reminder is says whom it has told. Repeats are counted against the
stalls of the job. `PresenceHealsHolds`: of a user who is not `muddled` one socket at most is
at work, and the two keys follow the stage it is at (`Clear`, `Stage`).

### Only model-checked

Liveness: `RequestsEnd`, `StaleCachesClear`, `JobsEnd`. They rest
on fairness and ENABLED, which the prover does not handle. The refuted statements of `Claims`
are TLC's counterexamples.

## What the models show and no property claims

The modules translate these as they are; a property about them would be false.

- `verifyEmail` makes any account ACTIVE, also one suspended since; `activateUser` revives a
  deleted one.
- A payment's own order need not have been captured for it to be complete, nor a FAILED one have
  failed: the client pairs them. A refunded payment can become COMPLETED again.
- The Redis lock of a create that died stays for its 30 seconds. That Redis drops it then, and
  that a lockout ends when its time is over, are facts about the clock, not about this code.
- An older document can be indexed after a newer one (`CopiesAreMirrors` does not exclude it).
- A logout ends some active session of the user, not always the caller's.
- `approve` does not look at `deletedAt`: a removed listing approved afterwards counts as
  active for the dashboard and the host's analytics, while its page and the lists hide it.
- Autocomplete suggests drafts. A listing's photos may have two primary ones, or none.
- The push for participants who are offline goes to a room nobody is in.
- No code verifies a payout account; a new default one takes the verified one's place.

## Not modelled

- `updateProfile` and `uploadAvatar` overwrite columns that nothing decides on;
  `updatePhone` cannot succeed, as nothing stores the code it compares with;
  `verifyUserIdentity` sets a flag nothing reads.
- `topUp`, `internalTransfer`, the Stripe webhook, `analyzeBooking` and `analyzePayment`,
  `rateLimit`, `cacheAside` and the counters of the Redis service have no caller.
- The gateway's `subscribe-booking` room, to which nothing is emitted, and typing, which keeps
  no state; read marks and templates of notifications.
- The notification queue (one call that the reminder makes twice) and the search-index
  queue (no processor).
- Image processing and pre-signed URLs, which leave no state here; lists, dashboards beyond
  what they count of a listing, health, logging, texts, HTTP plumbing.

## What comes next

All safety properties of the runs are proved. What could be added: runs for the seven
statements of `Claims` that have none; `GuessesBounded` for any number of handlers, whose
bound is a binomial coefficient and needs induction over data; `HostCreditedOnce` with
disputes, which needs the sum of what they moved. No module declares a RECURSIVE operator, so
that all of them stay open to the prover.
