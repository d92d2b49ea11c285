# Verification of the booking backend

The program is a NestJS backend for a rental business: one Node.js process per
deployment, a SQL database behind Prisma, and Stripe for payments.  Paths below
are relative to the repository; `src/` holds the program, `prisma/schema.prisma`
the tables.

What makes it hard to get right is always the same thing: a handler is an
`async` function that reads rows, decides, calls out (Stripe, mail), and writes
rows, with no database transaction around it.  Any other request may run at
every `await`, Stripe repeats and reorders its webhooks, and the process may
stop between any two writes.  The modules here split each handler at the awaits
that matter and let everything interleave.

    Bookings       bookings table: create, import, reschedule, edits
    BookingsProofs its invariants, proved for every instance      MCBookings: calendar, staff, import
    Payments       Stripe sessions, webhooks, confirmations, refunds
    Ledger         what Payments promises, account by account
    LedgerProofs   what the ledger implies, proved
    PaymentsProofs the invariants, and that Payments implements
                   the ledger, proved                             MCPayments: sessions, refunds, settled, skipped, booked
    Requests       how a handler runs: calls, steps, the bound on calls
    Prices         nightly prices, totals, refunds
    PricesProofs   lemmas about rounding, sums and shares
    Rooms          rooms, rules, search, calendar, price of a booking
    RoomsProofs    its invariants, proved
    Figures        dashboard, chart and reports over the stays of Rooms
    Scripts        the seed and repair scripts beside the backend
    ScriptsProofs  the same with the scripts running, and of the
                   charts of Figures, proved                      MCRooms
    Properties     properties, groups, the rows others refer to
    Reviews        reviews and the average of a property
    Upkeep         cleaning schedules, maintenance requests
    Estate         the three together, with the cascades
    EstateProofs   its invariants, proved                         MCEstate
    ReadThrough    the shared cache: load, fill, drop, expire
    Settings, Services, Accounts   what is read through it
    Desk           inquiries and messages
    Publishing     contents, media with their files, articles
    Lists          the pages of every list of the API
    Migrations     the schema, the scripts that make it, the start
    Office         the seven above together
    OfficeProofs   its invariants, part by part, proved           MCOffice: office, services_list

## 1. Inventory

For each component: the state it keeps, what it does, with whom it interacts,
what is hard about it, and what makes it correct.

**Bookings** (`bookings.service.ts`).  State: rows of `Booking` (dates, room,
status, paymentStatus) and, on completion, of `CleaningSchedule`.  `create` and
`createPublic` query for conflicting rows and then insert; `reschedule` loads a
row, queries for conflicts and updates it; `update`, `cancel`, `markAsPaid`,
`remove` are by id.  Shares the table with External bookings and Payments.
Hard: check-then-write with awaits in between, three conflict queries that do
not agree on statuses and on rooms, dates written unchecked by `syncBooking`.
Correct when no two bookings that occupy a room share a night.

**External bookings** (`external-bookings.service.ts`).  Rows of the same table
that carry `(source, externalId)`.  `importBooking` looks for the pair, then for
conflicts in the whole property, then inserts; a unique index decides in the
end.  `syncBooking` overwrites status and dates; `bulkImport` is a loop of
imports.  Correct when a reservation of a platform is one booking.

**Payments** (`payments.service.ts`).  State: rows of `Payment` (status, intent,
session, charge); at Stripe, the sessions, intents and charges.
`createPublicCheckoutSession` opens a session; the webhook and the success page
both run `handleCheckoutSessionCompleted`, which creates booking and payment and
then confirms; `confirmPayment`, `handlePaymentFailure`, `refundPayment` and the
`cancel` and `markAsPaid` of Bookings write both tables.  Hard: at-least-once
unordered events, two entry points for the same session, a look-up in place of a
unique index, crashes between the writes, errors that are swallowed.  Correct
when a session is booked once, nothing is settled before it is paid, money said
to be returned is returned, and what is paid is booked.

**Refund and revenue arithmetic, nightly prices** (`common/utils/financial.util.ts`,
`price.util.ts`, `pricing/`).  Pure.  Hard: rounding, day counts, overrides that
are compared by day.  Correct when they agree with the plain definition.

**Rooms and availability** (`rooms.service.ts`).  Rooms, availability rules
(blocked ranges, price overrides).  Search, calendar and occupancy read bookings
and rules, each with its own comparison of range ends; `updateAvailability` adds a
blocking rule, or deletes every one that overlaps the range to open; `create`
raises a flag of the property, `remove` counts the rooms left and lowers it, while
`update` moves a room without it and a client may write it.  A booking names a room
and a property that nothing relates, and neither rules nor bookings need to begin
before they end.  Hard: open and closed range ends, reads by room and by property, a
count that is stale when used.  Correct when search and calendar agree on the days
offered, and the flag on the rooms.

**Reviews** (`reviews.service.ts`).  A review per booking, and an average stored
on the property, recomputed by a read and a later write, and by an update only when
it sends a rating.

**Cleaning, maintenance** (`cleaning.service.ts`, `maintenance.service.ts`).
Schedules with last and next dates, kept also on the property by a second
parallel write; maintenance requests with statuses that are set unread.

**Settings, services catalogue** (`settings.service.ts`, `services.service.ts`).
Read-through caches invalidated after writes; a fill that began before the write
may land after the invalidation.

**Authentication, users, administration** (`auth/`, `users/`, `admin/`).  A
cached user per token, one-time codes, activation.  Users are made by
registration, by a guest's first booking and by a script.  Hard: a cached user
outlives its deactivation; one e-mail may be looked up twice before it is used.

**Rate limiting** (`rate-limit.middleware.ts`, `rate-limit.guard.ts`).  Counters
per client and window.  Neither is wired into the application.

**Property groups, properties** (`property-groups/`, `properties/`).  Rows with
ownership; membership of a property in a group; deletions that cascade.  Hard: a
row deleted between the check that found it and the insert that refers to it.

**Inquiries, messages, notifications** (`inquiries/`, `messages/`,
`notifications/`).  Rows of a property or booking with a status; the time of an
answer is written by a status read before.

**Content, editions, knowledge, media** (`content/`, `editions/`, `knowledge/`,
`media/`, `upload/`).  Texts by place; a media row and a file at an external host
that are made and deleted apart; articles with a time of publication.

**Analytics, reports, audit, logs** (`analytics/`, `reports/`, `audit/`, `logs/`).
Reads over bookings: sums by day, week and month; append-only tables.  Hard: the
walk over calendar months.

**Lists** (`pagination.util.ts` and the `findAll` of every service).  A count and
a page, read by two queries at once, one request per page, while rows come and go.

**Schema and start** (`scripts/init-db.js`, `scripts/migrate-db.js`,
`prisma.service.ts`).  Statements generated from the schema are applied one by
one; the start of the backend looks for one table.  Hard: a script that was broken
off leaves a backend able to start, whose rows a unique index then cannot be made over.

**Scripts** (`scripts/*.ts`).  One-off programs that replace rooms, write seasonal
prices, restore or clear bookings, refresh availability and make an
administrator, beside a running backend and without a transaction.

**Email, application shell, database clients.**  Input and output.

How they interact: by rows in the database (Bookings, External bookings,
Payments, Rooms and Cleaning all read `Booking`), by direct calls (Payments calls
`BookingsService.createPublic`, Bookings calls Stripe and mail), and by Stripe's
events.  No component calls back into another asynchronously, and no job queue
or scheduler exists.

The hazards, each at its line and with the properties that cover it or the
reason none does, are in `PROJECT.json`.

## 2. Plan

Ordered by how much depends on it.

Done:

1. **Bookings** with proofs: the calendar everything else relies on.
2. **Payments**, and **Ledger**, the abstract account that it implements.
3. **Rooms** with **Prices**, **Figures** and **Scripts**: what the reads make of
   bookings, rules and closures.
4. **Estate**: reviews, cleaning, maintenance and groups under deletions.
5. **Office**: caches, users, desk, publishing, lists, schema.

6. **PaymentsProofs**: the invariants of Payments and that it implements the ledger.
7. **PricesProofs**, **RoomsProofs**, **ScriptsProofs**: rounding, ranges and sums,
   and with them what the reads promise each other, for every calendar.
8. **EstateProofs**: references, averages and dates under deletions.
9. **OfficeProofs**: the cache, users, desk, publishing, lists and schema, each by
   an invariant of its own.
10. `ChartAddsUp` of Figures, whose loop over the buckets is a recursive function, in
    ScriptsProofs.

Left: no safety property that a run checks is without its theorem; the two liveness
properties stay with TLC (section 9).

## 3. Bookings

| module | code |
|---|---|
| `bookings`, `schedules` | tables `Booking`, `CleaningSchedule` (those of a completion) |
| `req` | the handler a request is running: what it is about to write |
| `CreateCheck`, `CreateWrite` | `create` up to `findMany`; from there to the insert |
| `ImportCheck`, `ImportWrite`, `ImportRefused` | `importBooking`, with the unique index |
| `RescheduleRead`, `-Check`, `-Write` | `reschedule` at its three awaits |
| `CancelRead`, `CancelWrite`, `MarkAsPaidRead`, `MarkAsPaidWrite` | `cancel`, `markAsPaid` |
| `CompleteWrite`, `-Find`, `-Schedule` | `update` to COMPLETED, with its schedule |
| `Update`, `Sync`, `Remove` | `update` otherwise, `syncBooking`, `remove` |
| `PaymentOutcome` | what Payments writes to a booking, at any time |

A row of the bookings table is named by the request that inserts it, so a row id
and a request id are the same constant set.  A request runs once; the handlers
that decide nothing but whether the row exists (`RowStep`) may run any number of
times.  The history variables `token`, `via`, `held`, `firm` and `raced` are read
by no handler; they say which request gave a row its dates, by which kind of
handler, whether the row has blocked those dates ever since, and which requests
were between check and write at the same moment.

The properties:

- `DoubleBookingNeedsRace`: two guarded rows of one slot share a night only if
  the two handlers that placed them overlapped between check and write.  A
  double booking is therefore never due to the queries themselves.  Rows whose
  dates were written unchecked (`syncBooking`), or revived after a cancellation,
  are not guarded, and neither is a PENDING row against the handlers that do not
  look for it: the code makes no promise about those.
- `UniqueExternal`: one booking per platform reservation, races included.
- `ImportChecksWholeProperty`: an import is never written over a firm booking of
  the property, whatever its room, except in a race.
- `DuplicateScheduleNeedsRace`: likewise for the schedules of completions.

Finding: the comment on `importBooking`'s query says it looks for conflicts with
all existing bookings, direct and external; it overlooks PENDING ones, so an
import is written over a guest's booking whose payment is under way
(`ImportChecksAllBookings`, run `import_pending`).

Not here: prices (Rooms), guests (Accounts), schedules that staff create (Upkeep;
the property is about those of completions); failing database calls other than a
missing row and the unique index.  A look-up by `(source, externalId)` and the
conflict query of an import are one step, since the unique index decides again.

## 4. Payments

A handler is a program counter and the values it has read; its kinds are the
events (`session`, `succeeded`, `failed`) and the calls (`page`, `confirm`,
`direct`, `refund`, `cancel`, `markAsPaid`, `process`).  Each `await` that reads
or writes a row or asks Stripe ends a step.

| module | code |
|---|---|
| `SessionLook`, `-Load`, `-Payment`, `CreateCheck`, `CreateInsert` | `handleCheckoutSessionCompleted` and the `createPublic` it calls |
| `ConfirmLook`, `StripeFails`, `CompletePayment`, `ConfirmBooking` | `confirmPayment` |
| `FailLook`, `FailPayment`, `FailBooking` | `handlePaymentFailure` |
| `RefundAtStripe`, `RecordRefund`, `ReleaseBooking` | `refundPayment` |
| `CancelFind`, `CancelAtStripe`, `RecordRefund`, `ReleaseBooking` | `cancel` |
| `ProcessIntent`, `DirectPayment` | `processPayment`, `markAsPaid` |
| `Deliver`, `Redeliver` | `handleStripeWebhook`: an event is owed until it answers 200 |
| `OpenSession`, `PayFails`, `PaySucceeds`, `stripe`, `sent`, `owed` | Stripe (external) |
| `Crash` | the process stops; rows and Stripe stay as they are |

Amounts are two units (a refund is full, half or nothing).  A booking is for a
trip, and `Clash` says which trips are in each other's way: the date arithmetic
is that of Bookings.  The booking's check and insert are two steps here too, so
that the webhook and the success page can both pass the check.

The properties:

- `OneBookingPerSession`: a session's second live booking needs two handlings
  whose second check came before the first insert.  No unique index protects
  `transactionId`; the conflict query does, and only because it counts PENDING
  rows, also after a crash between booking and payment.
- `NothingBeforePayment`: no booking from an unpaid session, no COMPLETED payment
  of an intent that has not succeeded, whoever calls `confirm` and when.
- `RefundedIsReturned`: REFUNDED on a payment with a charge means Stripe has
  returned all of it, unless a cancellation swallowed Stripe's refusal.
- `PaidSessionIsSettled` (liveness): a paid session is settled in the end.
- `KeepsTheLedger` (refinement): Payments implements `Ledger`.  An account is a
  session or an intent; `paid` is Stripe's status, `booked` the sessions a booking
  was ever inserted for, `settled` the accounts ever COMPLETED, `back` what Stripe
  has returned.  Whatever overlaps, is repeated, refused or cut short, a session
  is paid, then booked, then settled, then given back, one account per step; no
  step undoes any of these and nothing is returned beyond the amount.

Findings, both shown by a violation run:

- `ProcessedSessionIsSkipped` (run `replayed`): the comment "if we already
  processed this session, skip" holds only while the payment still says
  COMPLETED.  Refund it, repeat the event, and the payment is completed again.
- `PaidSessionIsBooked` (run `unbooked`): the comment says the webhook creates
  the booking after payment.  When the dates were taken meanwhile, the error is
  logged, the webhook answers 200, and the paid session stays without a booking.

Known from the model and not covered by a property: a late `payment_failed`
event overwrites a COMPLETED payment; two calls of `processPayment` make two
intents for one booking; and a paid session stays unsettled when the process stops
between inserting the booking and inserting its payment (every retry then finds
its own booking in the way), or after two disturbances as the comment of
`PaidSessionIsSettled` tells.

Not modelled: payouts, revenue and price columns, staff edits of paymentStatus,
mail.  Of the reasons for which `createPublic` may refuse a session's booking the
model has one, dates that are taken; a property that has become inactive has the
same effect.  `confirmPayment` returns after its first write to the booking: the
second one writes only the revenue.

## 5. Rooms, prices, figures, scripts

From here on a call is a record: its operation, the place it has reached and what
it has read (`Requests`).  A behaviour makes at most `MaxCalls` calls of the
operations of one workload, which the instance names: operations that touch no
common row need not be mixed.  A handler whose reads and writes have no await
between them that others could tell is one step (`AtOnce`).

| module | code |
|---|---|
| `CreateRoom`, `InsertRoom`, `RaiseFlag`; `RemoveRoom`, `DeleteRoom`, `CountRooms`, `LowerFlag` | `create` and `remove` of `rooms.service.ts`, step by step |
| `UpdateRoom`, `MoveRoom`, `UpdateProperty` | `update` of rooms (isBookable, propertyId) and of properties (status, hasDynamicRooms) |
| `CreateRule`, `UpdateRule`, `DeleteRule`, `OpenRange`, `CloseRange`, `RefreshAvailability` | rules, `updateAvailability`, the script of the blocked days |
| `Offered`, `CalendarOpen`, `CountedAvailable`, `RoomAvailable`, `ShownOccupied` | the five reads: search, calendar, occupancy, one room, dashboard |
| `Quote`, `Charge` | the price the search shows; `totalPrice` of a booking |
| `Book`, `SetStatus`, `Accepts`, `Price`, `Conflicts` | a booking as one step (its race is in Bookings) |
| `NightlySubtotal`, `TotalPrice`, `RefundAmount`, `NetRefund` | `price.util.ts`, `financial.util.ts`, in cents |
| `BucketKey`, `Advance`, `Buckets`, `Earned`, `Reported` | charts, metrics and reports |
| `SeedRooms` ..., `SeedPrices` ..., `RestoreBookings`, `ClearBookings` | the scripts, each a process beside the backend |

Dates are kept as they are sent, so a rule or a booking of the model may end where
it begins or before (`Pairs`); a booking has a property and a room that need not
belong together (`Stay`), and the room may be gone, which stands for any id that no
room has.  A booking of no room, and the reschedule of one, is in Bookings: here a
booking keeps its dates and its price.

- `FlagFollowsRooms`: when nobody is changing the rooms of a property, its flag
  says whether it has any.  `unsure` records the orders of events that leave it
  wrong, each at the step where it comes about: a room arrives after a removal has
  counted none and before it lowers the flag (`Overtaken`); a call raises the flag
  when its room has left again (`Raise`); the last room is moved away or, once moved,
  removed by a call that counts elsewhere (`Deserted`); a room is moved to a property
  without the flag; a client writes another flag than the rooms say; a restart falls
  between row and flag (`Misflagged`).  Every other overlap of creates, removals,
  moves and the seed mends itself, which is what the property says.
- `OfferedIsFree`: which guests a read cannot hide.  What the search offers is open,
  empty and counted available, whatever property its bookings name: it and the
  occupancy ask by room.  `getRoomAvailability` and the dashboard ask by property,
  and the property says how far that goes: the one misses guests booked under
  another property than the room's, the other only those of a property without rooms.
- `FreeIsOffered`: the converse.  It names when the search refuses a free stay:
  because a closure or a blocked day touches its ends, or because of something
  that lasts no night, a closure or booking that ends before it begins included.
  The comment "our rule endDate is exclusive" (line 566) and the closed comparison
  of the search (263-264) do not go together.
- `OfferedIsAccepted`: what is offered is refused by `create`, asked for the property
  the room is in, only for a stay that meets it on the day one leaves and the other
  arrives.
- `QuoteIsCharged`: quote and charge agree up to the rounding of each night, as
  long as no night has two open rules.
- `AvailabilityEditsShow` (action property): opening and closing a range do on
  calendar and search what the client sees; a range that ends before it begins
  closes no day.
- `RefundIsFair`: never more than the stay cost, never less for cancelling earlier, in
  full as early as each policy says; at the hours on either side of each
  limit, for every price.  A
  strict policy's last stage gives back less than the whole of any price above one
  cent: half a cent is rounded up to one.  `create` makes a negative price of a
  check-out before the check-in; nothing positive is refunded of it.
- `ChartAddsUp`: the bars add up to the revenue beside them, but for the last
  bar of a window and for months shorter than the day it begins on; a report of the
  window has no stay they have not, but for those that end before they begin.
- `SeasonsArePriced`: the pricing script is "safe to re-run", overlapping runs and
  interrupted ones included.

## 6. Estate: reviews, cleaning, maintenance, groups

Properties, Reviews and Upkeep are three components over the same rows; `Estate`
runs them together and puts every deletion together with its cascades.  An id
that was deleted does not come back (ids are uuids).

| module | code |
|---|---|
| `CreateReview`, `InsertReview`, `UpdateReview`, `WriteReview`, `RemoveReview`, `DeleteReview` | `reviews.service.ts` up to the row |
| `FindRatings`, `WriteAverage` | `updatePropertyCleanlinessRating`, awaited by each of them |
| `CleaningDone`, `CleaningOfProperty`, `CleaningOfSchedule` | `updateCleaningDate` and its `Promise.all` |
| `CompleteStay`, `FindSchedule`, `MoveSchedule` | `bookings.update` to COMPLETED |
| `ComputedStatus`, `CountedOverdue`, `PendingToday` | the list and the figures of the cleaning page |
| `CreateRepair`, `InsertRepair`, `CallOnRepair`, `WriteRepair` | `maintenance.service.ts` |
| `RemoveGroup`, `EmptyGroup`, `DeleteGroup`, `AddToGroup`, `RemoveFromGroup`, `WriteGroup` | `property-groups.service.ts` |
| `CascadeReviews`, `CascadeUpkeep`, `Emptied` | `onDelete` in `schema.prisma` |

- `ReferencesHold`: no row points to what is gone or to a booking of another
  property, wherever a deletion falls between a check and an insert.
- `OneReviewPerStay`: one review per stay though two calls find none, and of
  completed stays only, unless an update has moved the review.
- `AverageFollowsReviews`: the stored average is that of the review pages, except
  after overlapping calls, a restart, a deletion or a move, until some call has
  had the property for itself (`astray`).  What an update sends is picked at its
  write (`WriteReview`): any of the fields, the property and the booking included,
  and the average is taken only when a rating is among them (`rated`), for the
  property the row had when it was read.  A move without a rating averages neither
  property, a move with one only the old; a deletion that read its review before a
  move recomputes the old property and leaves the new one behind.
- `CleaningDatesAgree`: due dates keep the rhythm of their schedule, and the date
  on the property is that of one of its schedules.
- `DueIsCounted`: list and figures agree at every instant but the last second of a
  day, which only the list leaves out.

## 7. Office: cache, users, desk, publishing, lists, schema

`ReadThrough` is the cache: `Miss`, `Load`, `FillThen` of a reader and `WriteThen`,
`Drop` of a writer are separate steps, and nothing orders the fill of one with the
drop of the other.  `overtaken` records the entries a write has passed on the way
in.  Settings, Services and Accounts say what an entry holds.  `Publishing` keeps
rows and files apart.  `Lists` has one walk of a client over one list, described
by what the list asks for: every `findAll` of the API is one of `ListQueries`.
`PageOf` gives the positions of a page by how many rows of the list are ahead of
each (`Ahead`), which is what `skip` and `take` come to.  `Migrations` has the
schema as a sequence of statements and both scripts as processes that read it bit
by bit: a plan holds for each statement what is still to be applied of it, and the
columns a table lacks are added in any order.  `Refusals` gives the answers SQLite may
have for a statement.  Of the rows the schema knows one thing, `repeated`: the unique
indexes whose values rows have come to repeat while the index was not there
(`RepeatRows`), which SQLite refuses to make unless somebody has put the rows right.

- `SettingsAreCurrent`, `ServicesAreCurrent`: every way of changing a row reaches
  the entries that show it, unless a reader or a restart came between.
- `TaxFieldsAreKept` (action property): changing one tax field keeps the others.
- `StaleEntriesExpire` (liveness): whatever is stale comes right by its time to
  live, because every fill names one.
- `InactiveAreNotCached` (action property), `OneUserPerEmail`.
- `RespondedHasTime`: an answered inquiry says when.
- `MediaRowsHaveFiles`: a media row without its file needs a removal that has begun.
- `PublishedStays` (action property): no edit unpublishes an article but one that
  read it before it was published.
- `WalksMissNothing`: a client that turns every page is shown each row that was
  there all the time, except when a row left the list, one came between the count
  and the last page, or the queries were given up.
- `MigratedIsComplete`: a migration that says it is done has brought about the
  whole schema, beside other scripts and after any interruption (`BreakOff`).  On a
  database that began empty a script fails over nothing but rows that repeat the
  value of a unique index, and a backend that starts on it serves the whole schema
  once no script runs, unless one was stopped or failed so.  The exception is real:
  `db:init` broken off behind the table `rooms` lets the backend start, two users of
  one address are inserted, and no later run makes the index.

Finding: the comment on `bustList` says the counter clears the lists; no list key
contains it, so a list stays until its time is over (`ListsAreCleared`, run
`services_list`).

Rows in `Lists` do not move by an edit of the column the list is sorted by: such an
edit is a removal and an insertion (`DropRow`, `InsertRow`), so `WalksMissNothing`
excuses it.  The order of equal rows is stable.

## 8. The runs

| run | question | distinct states | result |
|---|---|---|---|
| `calendar` | can the three placing handlers double-book without a race? | 303 thousand | holds, with the inductive invariant |
| `staff` | do cancel, confirm and complete keep the schedules single? | 454 thousand | holds but for the race |
| `import_pending` | does an import respect every booking? | until found | violated: PENDING ones are overlooked |
| `sessions` | one booking per session, nothing before payment, the ledger | 2.5 million | holds |
| `refunds` | is REFUNDED money returned? | 1.2 million | holds |
| `settled` | is a paid session settled? | 199 thousand | holds under fairness |
| `replayed` | is a processed session skipped? | until found | violated after a refund |
| `unbooked` | is a paid session booked? | until found | violated when dates clash |
| `rooms` | do the reads of a room agree with each other and with what a booking is refused and charged? | 109 thousand | holds but for the named differences |
| `estate` | do rows, averages and dates belong together under deletions? | 318 thousand | holds but for overlaps and moves |
| `office` | is what is cached, listed, published and migrated what the rows say? | 249 thousand | holds; staleness ends under fairness |
| `services_list` | are lists cleared after a change? | until found | violated: no reader looks at the counter |

**Bounds.** `calendar` has three requests, which gives the largest cases the
properties speak of: two rows and a third handler (a reschedule of one of them
racing an import), with one property, one room and "no room". The dates are two
touching one-night stays, and a reschedule makes the stay that covers both, so
touching, equal, contained and disjoint ranges all occur. `staff` has two
properties, crossing and inverted dates. `sessions` has two handlers (the webhook
and one other call), two rows of each table, two calls by clients or staff, one
crash; `refunds` has three calls, so refund, refund and cancellation, or
cancellation, refund and repeated event. `settled` has two sessions, one of them
free, one disturbance and three rows of each table, which no behaviour exceeds: a
bound that kept a handler from inserting would look like a handler that is stuck.
`rooms` has four days, so ranges may touch, nest, be empty at both ends of a
stay and end before they begin inside one; two properties, between which a room may
move and of which a booking may name the wrong one; two rules and two stays for every pair that can disagree, weeks of two days
and months of one or two, so that a month lacks a day of the one before, and
three calls of which two overlap. `estate` has two properties and two bookings,
so that a review or a schedule may belong to the wrong one, and four calls: two
that overlap, one after them, and a deletion or restart. `office` has two of
everything that can meet another of its kind, three users' ids for two e-mails,
three rows in pages of one, and a schema of two tables and two indexes, one of them
unique, in its earlier forms. A fourth call adds no new overlap of two handlers. The bounds are
`MaxRows`, `MaxCalls` and `MaxCrashes` of Payments, `MaxDay`, `MaxRules`,
`MaxStays`, `MaxReviews`, `MaxSchedules`, `MaxRepairs` and `MaxCalls` of the
others, each a guard; Bookings is finite without bounds. The safety properties of
Bookings are proved for any number of everything (section 9). Symmetry over
request ids and handlers is used where no liveness is checked.

Deadlock is not checked: every request may have been served and every bounded
call spent, and then nothing is left to do.

**Fairness.**  `FairSpec` of Payments assumes two things.  A handler that runs goes on: Node's
event loop resumes it when its await is over, and every database or Stripe call
in the code returns or throws.  And Stripe goes on sending an event until the
webhook answers 200: that is its contract, and `handleStripeWebhook` relies on it
by throwing.  Nothing is assumed of guests, of staff, or of repeated events.  The
run `settled` has no crash, since one may leave a paid session unsettled as told
in section 4.

The specification of Office is fair to one thing: Redis ends an entry when its
time to live is over, as long as the entry was given one.  Nothing is asked of the
handlers, which may stop anywhere.

## 9. Proofs

`BookingsProofs.tla` proves, for every value of the constants that meets
`DataAssumption` and `NullAssumption`:

| theorem | states |
|---|---|
| `Invariant` | `Spec => []IInv` |
| `TypeCorrect` | `Spec => []TypeOK` |
| `NoDoubleBookingWithoutRace` | `Spec => []DoubleBookingNeedsRace` |
| `NoDuplicateScheduleWithoutRace` | `Spec => []DuplicateScheduleNeedsRace` |
| `OneBookingPerReservation` | `Spec => []UniqueExternal` |
| `ImportsRespectFirmBookings` | `Spec => ImportChecksWholeProperty` |

The argument.  `DoubleBookingNeedsRace` is not inductive: it says nothing of a
request that has passed its check and will write.  The strengthening is
`CheckStillHolds`: of every row that such a request's query had to report (same
slot, statuses it looks for, a night in common) the request has raced the one
that placed it.  It is true when the check ends, because the query found no such
row; closed comparison of the ends is what makes "no row found" imply "no shared
night".  It stays true because a row can get new dates only from a request that
was itself between check and write, and `WindowsRaced` says that two such
requests have raced; a row can only lose its place in `held` or `firm`, never
regain it without being placed again.  When the request writes,
`CheckStillHolds` is exactly what `DoubleBookingNeedsRace` and
`ImportChecksWholeProperty` need.  The same two parts serve the schedules.
`InFlightShape`, `OriginsDone` and `HistoryTrue` are the bookkeeping the cases
rest on: what a running request carries, that the origin of a row is over (so a
request does not race itself), and that the history variables speak of rows that
exist.  TLC checks the whole `IInv` in the run `calendar`.

`LedgerProofs.tla` proves, for any accounts and any natural amount, what the ledger
implies: `LedgerInOrder` (booked and settled accounts are paid, settled seats are
booked, what was given back was settled and is not more than the amount) and
`LedgerOnlyGrows` (no step undoes anything).  The invariant is inductive as the
conjunction of its three parts, type, order and `BackIsSettled`.

`PaymentsProofs.tla` proves, for any sessions, intents, trips, handlers and bounds:

| theorem | states |
|---|---|
| `Inductive` | `Spec => []PInv` |
| `TypeCorrect` | `Spec => []TypeOK` |
| `BookedOnce` | `Spec => []OneBookingPerSession` |
| `PaidBefore` | `Spec => []NothingBeforePayment` |
| `Returned` | `Spec => []RefundedIsReturned` |
| `Implements` | `Spec => KeepsTheLedger` |
| `MoneyInOrder` | `Spec => []` of `InOrder` and `BackIsSettled` of the ledger |

The argument.  None of the invariants speaks of a call on its way, so `PInv` says of
each what it may rely on.  `CheckStands`: a session's handler that has passed its
check of the dates knows the number of bookings there were, and every booking of
its session that has blocked its dates ever since came later; hence the row it
inserts either is the only one or was overlooked, which is the exception
`OneBookingPerSession` names.  `KnowsSession` and `KnowsIntent` carry over an await
what was paid, `KnowsCharge` that a payment about to be refunded was settled and
that Stripe's answer is what will be recorded.  `RowOK` says what a status stands
for: a completed payment has settled its session and its intent, REFUNDED means
that Stripe has returned all of it.  `Implements` takes the actions one by one.
Each maps to a step of the ledger or to a stutter, and every precondition of the
ledger's step (paid before booked, booked before settled, settled before given
back) is a conjunct of `PInv`.  The refinement and the theorems of LedgerProofs
give `MoneyInOrder`.  The assumption `DataAssumption` of Payments says that a free
session has no intent of its own and that sessions are no intents.

`PricesProofs.tla` has the arithmetic: the quotient and remainder of the code's
divisions, rounding to the nearest, the sum over the nights of a stay and the
shares of a refund.  A sum is a recursive function, and no induction theorem can be
used (its parameter is an operator).  What is needed of it is proved by the least
number of nights for which it would fail; that a set of numbers has a least one
comes from `WFMin`, which takes a set and no operator.

`RoomsProofs.tla` proves for Rooms alone, and `ScriptsProofs.tla` for Rooms with any
number of scripts beside it, for any rooms, calls and days:

| theorem | states |
|---|---|
| `Inductive`, `ScriptsInductive` | `Spec => []RInv`, `ScriptSpec => []SInv` |
| `TypesHold` | `ScriptSpec => []TypeOK` |
| `FlagHolds` | `ScriptSpec => []FlagFollowsRooms` |
| `OffersHold`, `FreeHolds`, `AcceptedHolds` | `OfferedIsFree`, `FreeIsOffered`, `OfferedIsAccepted` |
| `QuotesHold`, `RefundsHold` | `QuoteIsCharged`, `RefundIsFair` |
| `SeasonsHold` | `ScriptSpec => []SeasonsArePriced` |
| `ChartsHold` | `ScriptSpec => []ChartAddsUp` |
| `EditsShowBeside` | `ScriptSpec => AvailabilityEditsShow` |
| `RoomsHold`, `EditsShow` | the same of `Spec`, without scripts |

The argument.  The flag is the only one that needs calls on their way.  For a
property that is not `unsure`, `FlagOf` says that a raised flag without rooms has a
call that will lower it or a script that will make a room (`RaisedOnly`), that a
lowered one with rooms has a call that will raise it (`LoweredOnly`), and that a call
about to lower it does so over no room (`ToBeLowered`).  A room may be added beside a
removal that has still to count, for it will be counted; what `Overtaken`, `Raise`,
`Deserted`, `MoveRoom`, `UpdateProperty` and `Misflagged` mark is exactly where a
step would break one of the three and nothing on its way mends it.
What the reads promise each other holds of every
state with well-formed rules and stays; the proofs unfold each read's comparison
of range ends.  `QuoteIsCharged` needs more: without two open rules on a night the
price of a night is that of one rule, so the sum does not depend on which rule is
found first, and rounding once per night differs from rounding once by at most
half a cent a night.  `PricesOK` of `SInv` says that until somebody edits the rules
of a room by hand the priced ones are seasons, and all of them once the script has
done the room, whatever other runs of it have deleted or written in between.

`ChartAddsUp` holds of every set of well-formed stays; the work is in the days that
the loop of `generateBuckets` visits.  `LoopRuns` shows that its recursion has a
solution, without induction: from a day on, the days that are in every set which has
that day and which the loop does not leave before the end.  `Visits` goes backwards
from the last day (`Backwards`, by the least number of days before it): the loop
leaves no day between one visit and the next, and, where no bucket is too short
(`Even`: days and weeks always, months without `Overflows`), it visits every bucket
as far into it as the first.  So a day that no visited bucket has lies behind the
last visit, in the bucket the window ends in, and the window ends earlier in it than
it began (`DaysAreCharted`).

The assumptions added are that seeded rooms are rooms, that they and the seasons are
finite, that a price is not `Null`, and that the first days of the months are a
sequence that rises and goes beyond the last day.  Of rules and bookings nothing is
assumed: their ends are any two days, and a price is any integer, since a booking
that ends before it begins has a negative one.

`EstateProofs.tla` proves, for any properties, groups, bookings, handlers and bounds:

| theorem | states |
|---|---|
| `EstateInductive` | `Spec => []EInv` |
| `EstateTyped` | `Spec => []TypeOK` |
| `ReferencesStand` | `Spec => []ReferencesHold` |
| `StaysReviewedOnce` | `Spec => []OneReviewPerStay` |
| `AveragesFollow` | `Spec => []AverageFollowsReviews` |
| `CleaningsAgree` | `Spec => []CleaningDatesAgree` |
| `DueCounted` | `Spec => []DueIsCounted` |

The argument.  `Knows` says what a call has read that cannot change under it (the
property of a row, that an id was given, that a stay was completed), `ReviewsOK`,
`SchedulesOK` and `RepairsOK` what the rows refer to; the cascades keep these
because a deletion takes with it whatever refers to the row.  `AverageOf` is the
invariant of the averages: a property that is not astray has at most one call on
its way to the average, and this call has either not looked for the ratings, or
has their mean in hand; when it writes, nobody else has changed a rating, or the
property would be astray.  An update that sends no rating leaves the ratings as they
are unless it moves the review, and then both properties are astray.  `CleaningOf` is
the same for the two parallel writes of a cleaning: between them one of the two dates
is already the new one.  The mean is a fold over a set; that it lies between the least
and the greatest rating follows from the facts about the sums of a finite set, proved
over its smallest counterexample.

`OfficeProofs.tla` proves, for any handlers, settings, services, users, rows, files,
articles, lists, schemas and bounds:

| theorem | states |
|---|---|
| `OfficeInductive` | `Spec => []OInv`, the invariants of six parts together |
| `SettingsStayCurrent`, `ServicesStayCurrent` | `SettingsAreCurrent`, `ServicesAreCurrent` |
| `OneUserEach` | `OneUserPerEmail` |
| `RespondedTimed` | `RespondedHasTime` |
| `MediaFiled` | `MediaRowsHaveFiles` |
| `MigrationsComplete` | `MigratedIsComplete` |
| `TaxFieldsKept`, `InactiveUncached`, `PublishedStay` | `TaxFieldsAreKept`, `InactiveAreNotCached`, `PublishedStays` |
| `ListsInductive`, `WalksComplete` | `Spec => []ListsOK`, `WalksMissNothing` |
| `TypesInductive`, `OfficeTyped` | `Spec => []TypesOK`, `Spec => []TypeOK` |

The argument.  Each part has an invariant over its own rows and calls, and one
lemma (`...Aside`) that a step of another part keeps it, because such a step is
`Within` other operations and leaves all entries but its own the same (`SameBut`).
`CallsOK` says where a call of each operation may be waiting; it is what keeps the
parts apart.

- The cache: a reader between its look at the rows and its fill either still has
  what the rows say or is marked late (`SettingKnows`, `ServiceKnows`); a change
  that has written holds the entry it is going to drop; so an entry that differs
  from the rows has a dropper, or was passed.  A restart moves what droppers held
  into `overtaken`.
- Users: the unique index decides at the write, and a call that found the address
  free may be refused there.  Desk and publishing: what an update has read before
  its write, and that a file goes only with a mark that its removal has begun.
- The schema: a script that reads has seen no more than there is; a plan covers
  all that is missing of each statement (`Covered`), and on a database that began
  empty holds whole tables and indexes only (`Planned`): statements before an index
  make its table, and no column is missing there.  Such a statement fails over
  nothing but rows that repeat the values of a unique index (`NoFailure`).  `Grown`
  says that nothing made is taken away, so plans stay good beside other scripts.
- The lists: `StillToCome` says that every row which has stayed and was not shown
  has as many rows ahead of it as the client has turned over, and `NotAhead` that
  what was shown is not ahead, unless a row came.  Both speak of ranks, the number
  of selected rows before a position; inserting, removing and editing keep the
  order of the others (`SameOrder`), from which ranks grow or stay.
- Types: the counter of the lists of services plus the changes that have still to
  add to it are at most the calls made (`TallyOK`).

The assumptions added are that `Null` is no row, no count and no set of ids (for the
Estate, no review and no rating), that seeded users have different addresses and seeded list rows different ids, that the
tables of a schema have different names, that an index comes behind the table it is
on with the columns it needs (what Prisma generates), and that earlier schemas have
no column that the schema lacks.

What the proof attempts found in the models.  `RefundIsFair` was false for a price
of one cent under the strict policy, where rounding gives the whole back; the
instance had no such price.  `AverageFollowsReviews` failed for a deletion whose
review had moved to another property since it was read: the other property's
average stays as it was, because `remove` recomputes the property it read
(`reviews.service.ts`).  `AverageOf` could not be carried over `DeleteReview`, and
TLC then found the behaviour with both stays completed and four calls; the model
now counts that property among those left astray.

Only model-checked: the liveness properties `PaidSessionIsSettled` and
`StaleEntriesExpire`.  Out of the proof system's reach: liveness
under fairness, and induction over data by the library's theorems, hence what the
folds and sums compute for every input beyond what is said above.

## 10. Not modelled, and known limits

- Log-in, MFA and one-time codes: passwords, codes and tokens are data a model
  would have to invent; registration and the validation of tokens are in Accounts.
- Rate limiting: neither middleware nor guard is wired into the application.
- Notifications are created by no code of the repository; marking and deleting
  them are edits of a list.
- E-mail, the files of reports, the counts of dashboards, payouts, the text fields
  of every row, editions (rows written by one call).
- The first seed is taken for the initial states; scripts that only change images,
  amenities or texts, and the helpers for MongoDB that nothing uses, are left out.
- Bootstrap, CORS, guards by role and the audit interceptor.

Assumed: the server runs in one time zone without changes of clock, dates are whole
days except where an hour decides (refunds, the cleaning page), the chart's
quarters and years behave as its months.

Hazards no property covers, each because code and comments promise nothing:
`markAsPaid` over a booking cancelled meanwhile (`bookings.service.ts:662`), a late
`payment_failed` over a COMPLETED payment (`payments.service.ts:397`), two intents
for one booking (`payments.service.ts:124`).

Seen while modelling, outside what the runs check:

- `update` of a room takes another property and writes neither flag; `create` and
  `update` of a property take `hasDynamicRooms` from the client (both in Rooms, named
  by `FlagFollowsRooms`);
- `create` of a booking compares neither its dates with each other nor its room with
  its property: a check-out before the check-in gives a negative price and blocks the
  search around it (of no refund the net one, less a negative fee, is three percent
  of that price, and positive), and a guest booked under another property is seen by the reads by
  room only (both in Rooms);
- a closure that ends before it begins closes no day and hides the room from every
  search around it (in Rooms, named by `FreeIsOffered`);
- `reschedule` scales the old price by the nights: of a booking without nights it
  makes no number, of one that ends before it begins a price of the wrong sign (not
  in the model, where a booking keeps its price);
- a review that is moved without a rating averages nothing (in Reviews, named by
  `AverageFollowsReviews`);
- a unique index cannot be made any more once rows repeat its values, and the start
  of the backend does not look for it (in Migrations, named by `MigratedIsComplete`);
- an answer of the media host with neither an error nor a result would be stored with
  an empty address (`upload.service.ts:40`, not in the model);
- a report is written as `.csv` while its download looks for `.pdf`;
- the search of articles filters tags after paging, so a page holds fewer rows than
  the total beside it says (`Keeps` in Lists);
- the lists show a manager payments, maintenance requests and groups of others,
  which `findOne` refuses;
- columns that `migrate-db.js` adds by ALTER TABLE come without their foreign keys;
- a list of bookings that was given up after its time is answered as an empty
  success (`GiveUp` in Lists).
