# TLA+ models of the attendee service

Models, model-checking runs and machine-checked proofs for reg-attendee-service: who is let in and
when, registering attendees, changing their data and their status, keeping their dues at the
payment service in step, and the databases and the history below all that. Paths and line numbers
below are those of this repository.

- [1 The system](#1-the-system)
- [2 The modules](#2-the-modules)
- [3 The runs](#3-the-runs)
- [4 The proofs](#4-the-proofs)
- [5 Where code and documentation disagree](#5-where-code-and-documentation-disagree)
- [6 What is left out, and the plan](#6-what-is-left-out-and-the-plan)

To repeat everything: `tlc -config <cfg> <MC module>` for each line of the table in section 3, and
`tlapm <module>` for `StatusDues_proofs.tla`, `LifeCycle_proofs.tla`, `LateBookings_proofs.tla`,
`LoopLemmas.tla`, `DuesLedger_proofs.tla`, `Registration_proofs.tla`, `Admission_proofs.tla` and
`Databases_proofs.tla`. `PROJECT.json` lists, for every definition, the lines of code it stands
for.

## 1 The system

The service is an HTTP server in Go. Every request runs in a goroutine of its own (`net/http`),
with a context that is cancelled after three seconds (`web/filter/timeout.go`). The handlers share
nothing in memory but the configuration, which is read once at startup, and the in-memory database
where that is used. What they share is kept
elsewhere:

| where | state | written by |
|---|---|---|
| table `attendees` | one row per attendee: personal data, flags, packages, options, owner (`identity`) | registration, update |
| table `status_changes` | per attendee the list of statuses; the last entry is in force, and an empty list means "new" | status change, and both updates |
| table `admin_infos` | admin flags, comments and permissions (`regdesk`) per attendee | update of the admin info |
| table `histories` | per change of a row the old values of the changed columns | the historizing repository, before it writes a row |
| payment service | per attendee ("debitor") the list of transactions: dues and payments, each with amount, tax rate and status | dues by this service, payments and refunds by others |
| mail service | nothing that is read again | |

No request takes a lock, opens a database transaction or relies on a unique index:
`dbrepo.Repository` has no operation for any of these. So two requests interleave between any two
accesses, and a request that fails or runs into its timeout leaves behind what it did before.
Almost everything that is hard about this service is in those two sentences.

### Components

**Status changes and dues** (`service/attendeesrv/status.go`, `dues.go`). *State:* the list of
statuses, the dues. *Operations:* `StatusChangeAllowed` (who), `StatusChangePossible` (from which
status, with which balance), `UpdateDuesAndDoStatusChangeIfNeeded` (book the difference to the
desired dues, look at the balance, record the status, send a mail). It is reached from three
handlers: `POST /attendees/{id}/status`, and the ends of `PUT /attendees/{id}` and `PUT
/attendees/{id}/admin`, which ask for the status the attendee already has and let the balance move
it. *Correct if:* dues follow status and packages; the status follows the balance; nobody reaches
a status with dues but by an approval; nobody is checked in unpaid; users do only what is granted
to them; a retry after a failure repairs. *Hard:* everything is computed from transactions read
earlier; bookings are one call per tax rate or per due, in the arbitrary order of a Go map; each
may fail.

**Account at the payment service** (`repository/paymentservice`). *State:* the transactions of an
attendee. *Operations:* `GetTransactions`, which answers 404 for a debitor without transactions,
and `AddTransaction`. *Correct if:* the loops over the list compute the sums that the decisions
are about; a cancellation voids what is not covered, earliest dues first. *Hard:* payments arrive
in between, signs, several rates.

**Registration and update** (`service/attendeesrv/attendeesrv.go`, `web/controller/attendeectl`).
*State:* the rows. *Operations:* `RegisterNewAttendee`, `UpdateAttendee`, with the checks for
duplicates (nickname, zip code, email) and for choices (read-only ones, constraints between them).
*Correct if:* no duplicates arise; only admins change read-only choices. *Hard:* check and write
are two accesses; the row compared with is loaded before and overwritten after.

**Historizing repository** (`repository/database/historizeddb`). Wraps the database repository;
before an update of a row or of an admin info it reads the old version once more and records the
old values of what changes. *Correct if:* everything that was overwritten can be reconstructed.
*Hard:* three accesses, of which the second may succeed and the third fail.

**Database repositories** (`mysqldb`, `inmemorydb`, chosen in `init.go`). One access per
operation. *Correct if:* both keep what they are given, hand out copies, and name as the latest
status the one given last. *Hard:* pointers in Go maps; gorm's conditions, which leave out empty
fields; the collation; a query without an order whose last row is taken for the latest.

**Admin info** (`web/controller/adminctl`, `adminsrv.go`). Sets flags that only admins may set,
comments, and permissions; `regdesk` lets a user check in others. *Correct if:* together with the
attendee's own flags, checked elsewhere, all constraints hold.

**Access checks** (`web/middleware/security.go`, `web/filter/authcheck.go`, `ctxvalues`). Header,
cookie and api token become context values, filters look at these. *Correct if:* only the api
token or a role on a signed token makes an admin, only the owner gets at a row. *Hard:* whatever
is missing reads as the empty text.

**Configuration** (`repository/config`). Read and validated at startup, asked from everywhere.
*Correct if:* what the other parts take for granted (roles that are not empty, an early start that
is early, constraints that do not cross from one kind of flag to the other) is what validation
lets pass.

**Countdown and opening times** (`web/controller/countdownctl`, `attendeesrv.go:94-115`). *Correct
if:* the countdown shown and the moment from which a registration is accepted agree. *Hard:*
computed in two places, from roles and two starts; rounding.

**Attendee search** (`mysqldb/searchquery.go`, `inmemorydb/match.go`). Builds a query with a map
of parameters. No route calls it ("no search functionality implemented yet", README.md:98 of
the service): see section 6.

**Mail service** (`repository/mailservice`). One call, last, may fail.

**Field validation** (`web/util/validation`), **server, routing and middleware** (`web/app`,
`web/middleware`), **bans and additional info** (not implemented in the repositories): see section
6.

## 2 The modules

    Sums ──┐
    Account ┴─────── DuesLedger              MCDuesLedger      DuesLedger_proofs
       └──────────── StatusDues              MCStatusDues      StatusDues_proofs
                        │ ├─ LateBookings    MCLateBookings      ├─ LateBookings_proofs
                        │ ├─ Regdesk         MCRegdesk           └─ LifeCycle_proofs
                        │ ├─ Overlap         MCOverlap
                        │ implements
                     LifeCycle

                     Registration            MCRegistration    Registration_proofs

    Configuration ── Callers ── Admission    MCAdmission       Admission_proofs

    InMemoryRepository ┐
    MysqlRepository ───┴ Databases           MCDatabases       Databases_proofs
                            │ implements
                         Repository

`LoopLemmas`, about loops and sums over lists, is used by the proofs of `DuesLedger`,
`LateBookings` and `Databases`.

In `StatusDues`, `LateBookings`, `Registration` and `Databases` an action is one access to a
database or to a service, with the computation up to the next access. That is the grain at which
goroutines interleave visibly here, since local variables are not shared. A request in progress is
a record in `req[w]`, whose `pc` names the access it makes next; the other fields are the
handler's local variables, so that what a handler read earlier may be stale. `Fail` answers with
an error at any access: the access failed, its answer was lost, or the context was cancelled;
nothing is undone.

Names of operators are those of the functions they model where there is one. Operators with an
underscore and a suffix (`DesiredDues_DeletedKeepsDues`) are mutants: plausible bugs that show
that a property can fail.

### Account

One attendee's transactions, reduced to what the code computes from them: dues per tax rate, sum
of dues and of payments, whether there are payments, the positive dues in the order they were
booked, and the sum of the negative ones. The checks of `status.go:174-220` and the status for a
balance (`dues.go:45-60`) are operators on that record. The code adds up the list anew in every
request; `WithDue` and `WithPayment` keep the sums up to date instead, and `DuesLedger` is there
to justify that.

### DuesLedger

Keeps the list of transactions itself, with pending, valid and deleted payments, next to the sums.
The loops of `dues.go:132-205` are recursive functions of the number of transactions they have
seen, and sums are totals (`Sums`) of what each transaction adds. Dues are booked at any rate, and
so are payments, whose rate is never looked at. `SumsAgreeWithList` says that the sums are
those loops' results; `EarliestDuesFilledFirst` compares the loop over positive dues on
cancellation, which carries a pool of money along, with a reference that computes for each due on
its own what the money leaves of it; `CancelTwiceBooksNothing` says that cancelling is idempotent
(a PUT of a cancelled attendee runs the loop again).

### StatusDues

The three requests, from the loaded attendee to the mail.

| action | code |
|---|---|
| `ReceiveStatusChange`, `ReceiveUpdate` | routing, access check, loading the attendee |
| `UpdateAttendee`, `WriteAdminInfo` | the row or admin info is saved |
| `ObtainLatestStatus` | `statusctl.go:220-235`; `attendeesrv.go:59`, `adminctl.go` |
| `StatusChangeAllowed` | `status.go:84-116`, for a check-in up to the registrations of the user |
| `CheckRegdesk` | one iteration of `status.go:117-128`, reading one admin info |
| `StatusChangePossible` | `status.go:135-172` |
| `UpdateDues` | reading the transactions and deciding, `dues.go:14-34` |
| `BookAdjustment` | one iteration of `adjustDuesAccordingToSelectedPackages` or `compensateAllDues` |
| `KeepCoveredDue`, `VoidUnpaidDue` | one iteration of `compensateUnpaidDuesOnCancel` |
| `AdjustStatusToBalance` | `dues.go:36-61` |
| `AddStatusChange`, `LeaveStatus`, `SendEmail` | `status.go:46-82` |
| `BookPayment` | somebody pays or is refunded; external |

Two variables are history variables and decide nothing: `settled[a]` is false from the moment a
request changes packages or dues of `a` until one gets as far as leaving `a`'s status recorded,
and `basis[a]` holds the payments the last such request had seen. A property that relates dues and
status can only be claimed while no request has been cut off in between, and `settled` is how it
says so; that the *next* request repairs what a failed one left is then part of the claim.

`Spec` lets requests interleave in any way. `SerialSpec` has requests on one attendee come one
after the other (requests on different attendees interleave, payments arrive at any moment,
anything fails): what the service promises when nobody clicks twice. `ReliableSpec` has no
failures, for the differences in section 5 that need none.

The statuses of an attendee come from the database in the order in which they were given. That is
how MySQL reads an index, but `mysqldb/implementation.go:204` does not ask for it; see Databases
below.

### Regdesk

`StatusDues` with a history variable: `held[w]` are the attendees who have held the permission
"regdesk" at some moment since the request that `w` handles arrived. The permission is read from
the admin infos of the user's own registrations, one access each, while an admin writes these.

### Overlap

`StatusDues` under `Next`, requests overlapping in any way, with two history variables:
`overlapping` are the workers whose request has shared its attendee with another, `muddled` the
attendees that had such requests and none on its own concluded since. Overlapping requests book
the same difference twice, or record a status over that of the other, and nothing prevents it;
`NextRequestMakesGood` says that the next request by itself repairs all of it.

### LifeCycle

What `StatusDues` promises to others, without requests: an attendee has a status, packages and
dues, and `settled`. Packages are chosen and dues are booked one rate at a time, which leaves them
unsettled; a status is concluded only with the dues it calls for and only after one it may follow.
`StatusDues` implements it under `SerialSpec`: `FollowsLifeCycle` is checked in `status_serial`
and proved in `LifeCycle_proofs`. The mapping forgets requests, payments and everything of an
account but the dues per rate. Under `Spec` it does not hold: two requests at a time may leave the
status of one with the dues of the other.

### Registration

`POST /attendees` and `PUT /attendees/{id}` up to the saved row, with the historizing repository.
Nickname, zip code and email are one value (`key`); flags, packages and options are one set of
choices, with the configuration's `default`, `read_only` and constraints as constants; the user
comments are a column of their own, which the history leaves out (`entity/attendee.go:29`,
README.md:62 of the service). `replaced` (what was overwritten of a row) and `granted` (the sets of
read-only choices that the registration or an admin gave an attendee) are history variables. `Spec`
and `SerialSpec` are as above, only that in `SerialSpec` all requests come one after the other.

### LateBookings

`StatusDues` with a payment service that takes its time. When a request runs into its timeout, the
client gives up the transaction it is waiting for (`client.go:74`), but nothing recalls it.
`GiveUp` ends the request and leaves the transaction under way in `late`; `BookLate` books it, at
any moment, in any order, or never. The next request may have read the list without it, and then
books the same difference again. Two history variables keep the late bookings the last concluded
request cannot have known of, `arrived`, and how many of these came after dues were read for a
request, `since`. With these `DuesOffByLateBookings` says exactly how far dues may be off, and
`LateBookingsMadeGood` that a request that gets through knowing of all of them repairs it: from
then on the balance decides among approved, partially paid and paid, and caps what a cancelled
attendee owes, as if no booking had ever been late.

### Configuration, Callers, Admission

`Configuration` is what the file holds as far as it decides who may do what and when, the
validation of it, and the accessors the rest of the code uses. `Callers` is the way of a request
through the token validator, the context values it sets and the filters that look at them. Both
are operators on values. `Admission` puts them to use: the service starts with any configuration
that is accepted, the clock goes on, and requests with any credentials register attendees, update
them, write admin infos and ask for the countdown.

| action | code |
|---|---|
| `Startup` | `config/loading.go`, `config/validation.go` |
| `Register` | `attendeectl.go`, `newAttendeeHandler`: login if configured, choices, start |
| `Update` | `updateAttendeeHandler`: owner or admin, choices, start |
| `WriteAdminInfo` | `adminctl.go`: flags for admins only, checked apart |
| `Countdown` | `countdownctl.go:57-77` |

A request is one step here; what happens when requests interleave is for the other modules. The
properties are about what the parts assume of each other: `AdminDoors` and `OthersRowsUntouched`
hold only because validation does not accept an empty api token or role, and because an update
asks for a login before it compares a subject with an owner that may be empty. `ChoicesConsistent`
holds only because no constraint crosses from the flags in the row to those in the admin info,
each of which is checked without a look at the other; `MoreRolesNeverLater` only because the early
start is not later than the normal one. `CountdownTellsWhen` compares the countdown, rounded to
seconds, with the check of a registration, at a resolution of a quarter of a second.

### InMemoryRepository, MysqlRepository, Repository, Databases

The first two are the two implementations of `dbrepo.Repository`, as operators that take a
database to a database or to an answer. In the in-memory one, one sequence numbers attendees and
history entries alike, so badge numbers have gaps, and an answer with attendees says whether it
shares the objects in the map. On MySQL, a condition given as a struct leaves out empty fields and
texts are compared up to the collation (`Fold`).

`Databases` has either of them, behind the historizing repository, used by handlers that load an
attendee or its admin info, map a body onto it, and save it: read the old version, record the
history, write. Any access may fail and the service may restart on MySQL. `Repository` is what the
services expect: tables that change by four operations and by nothing else, and drafts that belong
to the handler that loaded them. `KeepsPromise` is the refinement, whose mapping reads the tables
as the services see them (`infos`, `statuses`, `latest`, `drafts`). It would fail if an object in
the map were handed out (the comment in `inmemorydb` says why it is copied), if a save that failed
halfway had changed a row, if a badge number were used twice, or if the latest status were not the
one given last.

The status changes of an attendee are answered as a status under each key. In memory the keys are
the positions in a list; on MySQL they are the primary keys, and the answer has no order, since
the query asks for none (`mysqldb/implementation.go:204`). The latest status is a query of its own,
for the last by primary key (`mysqldb/implementation.go:187-201`).

## 3 The runs

| run | specification | instance | shows |
|---|---|---|---|
| `status_serial` | `SerialSpec` | one attendee, two tax rates, packages of 3 and 2, grace 1, payments 1 and 3, refunds 1 | `DuesMatchStatus`, `CancelledOwesAtMostPaid`, `StatusMatchesBalance`, `CheckInPaidInFull`, `LeavesByApproval`, `FollowsLifeCycle` |
| `regdesk` | `HeldSpec` | one attendee, a user with two other registrations, an admin, two requests at a time | `UsersOnlyCancelOrCheckIn`, `CheckedInAtRegdesk` |
| `overlap` | `OverlapSpec` | one attendee, a package of 3 that it may drop, two requests of admins at a time, a payment of 3 | `TypeOK`, `NextRequestMakesGood`, `UpdatesMoveByBalanceOnly` |
| `late_bookings` | `LateSpec` | one attendee, one package of 3 that it may drop, one request at a time, one late booking, payments of 2, refunds of 2 | `LateTypeOK`, `DuesOffByLateBookings`, `LateBookingsMadeGood`, `RequestsEnd` |
| `ledger` | `Spec` | lists of up to four transactions, amounts -2, 0, 1, 3, two symmetric rates | `TypeOK`, `SumsAgreeWithList`, `EarliestDuesFilledFirst`, `CancelTwiceBooksNothing` |
| `registration_serial` | `SerialSpec` | two keys, two attendees, two updates each, a read-only package and one that requires it | `TypeOK`, `RegisteredOnce`, `ReplacedRowsInHistory`, `ReadOnlyChangedByAdmin` |
| `registration_concurrent` | `Spec` | one attendee, two requests at a time, up to two overwritten rows, two read-only packages and one that requires the first | `ReadOnlyAsGranted` |
| `admission` | `Spec` | 1130 configurations in three families, 16 kinds of credentials, one attendee | `TypeOK`, `AdminDoors`, `OthersRowsUntouched`, `CountdownTellsWhen`, `MoreRolesNeverLater`, `ChoicesConsistent` |
| `databases` | `Spec` | both databases, two handlers, three rows, two admin infos, up to three inserts | `TypeOK`, `OwnersOwnTheirs`, `KeepsPromise`, `OverwrittenCanBeUndone` |

The three runs that end in a violation are in section 5.

**What the status properties say.** `DuesMatchStatus`: no dues while new or deleted, exactly the
dues of the packages otherwise, rate by rate, whichever requests failed halfway before.
`CancelledOwesAtMostPaid`: a cancelled attendee owes no more than had been paid.
`StatusMatchesBalance`: approved, partially paid and paid are what dues and payments last seen
make of an attendee. `CheckInPaidInFull`: a check-in is recorded only over payments that cover the
dues, though they were compared before the dues were booked again. `LeavesByApproval`: the only
way from new, cancelled or deleted to a status with dues is an admin's request for "approved",
whatever the balance makes of it then. `UsersOnlyCancelOrCheckIn`: what a user's own status
request can bring about. `CheckedInAtRegdesk`: a user who checks somebody in had the permission,
on a registration of that user's own, at some moment of the request; between the admin infos it
may be withdrawn from one and granted to the next. `UpdatesMoveByBalanceOnly` holds in *any*
interleaving: an update never takes an attendee from or to anything but the three statuses by
balance, relative to the status it found. `NextRequestMakesGood`, in any interleaving as well: once
an attendee had a request to itself that was concluded, dues, status and balance agree again, whatever
overlapping requests had booked twice; it rests on every request looking at all
transactions, whether or not it changes the status.

**What the others say.** `ReadOnlyAsGranted`, in any interleaving: the read-only choices an attendee
has are together what the registration or one request of an admin gave it. The row compared with
may have been replaced since it was loaded, so an admin's change may be lost, but no mixture is
ever saved. `OverwrittenCanBeUndone`: a save overwrites only what the history can
give back, comments aside (they are tagged to be ignored), or what another update has replaced
since it was read: a lost update is named there and not excluded. `OwnersOwnTheirs`: nobody owns
the attendees without an owner, though asked for the attendees of "" MySQL would answer with all.

**Bounds.** Amounts are in units of the grace amount. In `status_serial`, with dues of 3 in all and
grace 1, balances from -1 to 3 meet each comparison of the code on both sides of its limit and at
it: nothing or less paid, paid in part, paid but for the grace amount, paid in full; refunds may
exceed payments. `MaxPositive` and `MaxNegative` bound how much the account holds *when a request is
accepted*, so no request is cut short by them: requests are accepted with up to two positive dues
and negative dues of up to 3, enough for an approval, a cancellation that voids part of it, an
approval again, and a change of packages before and after. Only the permission of the second user's
own registration changes, and users ask for little more than they may have (`MCDeskOnly`); `regdesk`
has users ask for more, and the theorems have no such bounds. `regdesk` accepts requests with one
positive due: an approval, payment and check-in after it. Two requests at a time show what any pair
can do to each other; a third adds no new kind of stale value, since each request reads every value
it relies on at most twice. `regdesk` leaves the history variables of `StatusDues` out of the state
by a VIEW, as no action and none of its properties look at them; of the user's registrations only
the permissions change there (`MCDeskOnly`). In `overlap`, accounts with up to two positive dues,
negative ones up to 6 and four bookings altogether (`MCBookings`) are enough for two requests that
book the same due or the same credit twice, and for one after them that sets it right; they are
requests of admins for a status, or updates of the row (`MCUpdatesByAdmin`, `MCRequestsInPlace`),
since who asks does not matter to the dues, and an update of an admin info does to them what one of
a row does. In `registration_concurrent` one attendee and two updates are enough for each request to
be saved over the other, with rows loaded before; of two read-only packages an admin may grant one,
both or none. In `ledger`, `overlap`, `admission`, `databases` and the registration runs deadlock is
not checked: lists, clock and tables are bounded, and at the bound the instance stops.

In `late_bookings` one booking may be late (`MaxLate`); what it gets into is any request that
follows, and dropping the package lets the late booking be of either sign. A second one would be
added to `arrived` in the same way. `admission` varies one concern at a time: security, starts and
choices have nothing to do with each other in the code but for the roles, which are in all
families. The clock runs until a second after the public start, past which nothing changes any
more, and one attendee will do, since attendees are checked independently of each other. `Flags`
of two keys gives every pair of kinds of flags with every constraint between them, the nonexistent
and self-referential ones included. In `databases` three inserts (`MaxEntries`: attendees, status
changes and history entries together) are enough for two attendees and an overwritten row, or for
two updates of one attendee that both get to the history before either saves. The workers are
symmetric.

**Fairness.** `WF_allVars(LateProgress(w))` for every request in progress: a goroutine that can
run is run, and no access takes forever since the context is cancelled after three seconds
(`LateProgress` includes `Fail` and `GiveUp`). `RequestsEnd` therefore says that a handler cannot
go round for ever among accesses that all succeed, whatever arrives at the account meanwhile: the
loops over rates and dues run over data read once, and get shorter. No fairness is assumed of the
arrival of requests, payments and late bookings: the payment service need not book what was given
up.

## 4 The proofs

Every invariant and every action property that a run checks is also the statement of a theorem,
for every value of the constants, but for `NextRequestMakesGood`; that one and the liveness of
`late_bookings` stay with TLC.

### Status changes and dues

`StatusDues_proofs`, for any attendees, users, tax rates, packages, prices, amounts and number of
requests:

- `TypeCorrect`: `Spec => []TypeOK`, by one lemma per action. In particular the status that
  `UpdateDues` computes is always one of the seven.
- `DuesAreMatched`, `StatusIsByBalance`: `SerialSpec` implies `[]DuesMatchStatus` and
  `[]StatusMatchesBalance`. Neither is inductive. The invariant `SerialInv` states them in the
  terms of the code and adds what
  a request in progress knows: it is the only one on its attendee (`OneRequestEach`); the packages
  and old status it holds are still those in the database (`Fresh`); and (`Booked`) while it books
  adjustments, what is booked and what is still to be booked add up to the desired dues at every
  rate, which is why a request that continues where a failed one stopped books just the rest. The
  lemma `Local` reduces a step to the one attendee it is about; then there is one lemma per
  action.
- `CancelledOweNoMore`: `SerialSpec => []CancelledOwesAtMostPaid`. `WalkInv` relates the walk over
  the positive dues, at any point of it, to the account: the dues still to be walked are the only
  difference between what is booked and what has been spent. That is about the sum of a list which
  shrinks due by due while requests may be cut off and payments arrive; `SumsTo` says it by a
  witness, the function that gives the sum of the first dues.

`LifeCycle_proofs`, on top of it:

- `LifeCycleImplemented`: `SerialSpec => FollowsLifeCycle`, a refinement with the mapping above.
  To `SerialInv` it adds `AllLegal`: once checked, what a request is going to record may follow
  the status it found, which with `Fresh` is the one in force. Each action that is seen in the life
  cycle has a lemma that names the abstract action; the others change none of its variables.
- `UpdatesMoveByBalance`: `Spec => UpdatesMoveByBalanceOnly`, in *any* interleaving;
  `PlacesByApproval` and `UsersCancelOrCheckIn`: `SerialSpec` implies `LeavesByApproval` and
  `UsersOnlyCancelOrCheckIn`. These action properties rest on one invariant, `Passed`: which
  checks a request that has got as far as this has passed, and how the status it is going to
  record relates to the one asked for and the one found. The table of permissions is in it as
  `Granted`.
- `CheckedInPaidInFull`: `SerialSpec => CheckInPaidInFull`. `Covered`: a check-in whose attendee is
  settled still has dues covered by the payments it read, between the check and the record; a
  request that books dues in between has an attendee who is not settled.
- `RegdeskChecksIn`: `HeldSpec => CheckedInAtRegdesk`. The invariant says that a request which has
  passed the check of a user's registrations has met one whose permission is among those held since
  it arrived, and that the registrations still to be read are the user's.

`LateBookings_proofs`, for any number of bookings given up, booked late in any order, or never:

- `LateTypesHold`: `LateSpec => []LateTypeOK`.
- `OffByLateBookings` and `LateBookingsAreMadeGood`: `LateSpec` implies `[]DuesOffByLateBookings`
  and `[]LateBookingsMadeGood`. The invariant `LateInv` is `SerialInv` with dues that are off: a
  request knows its attendee's dues up to the bookings that came late since it read them
  (`Unknown`, the last `since[a]` of `arrived[a]`), rate by rate; what it knows of their *sum*, and
  so of the balance, it knows only if there were none of these (`SumKnown`). The same is said of
  an attendee at rest (`StandsAt`), with all of `arrived[a]`.

  `LateBookingsMadeGood` says when "approved" and "partially paid" are in force and leaves the rest
  to "paid", like `StatusMatchesBalance`. It could not say that "paid" means a balance within the
  grace amount, which the attempt to prove it showed: with refunds that exceed the payments and
  nothing due, the balance is above it and the code answers "paid" all the same (`dues.go:45-60`).

### Loops over lists

What a loop over a list computes needs induction, and the library's induction theorems cannot be
instantiated here. `LoopLemmas` gets around that by induction over *sets* of numbers
(`NatSetInduction`, from the pigeonhole principle for finite sets): a loop is a function `f` with
`f[0]` the start and `f[n]` what its body makes of `f[n - 1]`; such a function exists
(`LoopExists`) and there is but one (`LoopUnique`), so that it is the one a recursive definition
chooses. The lemmas about `Total` (one more, one changed, two lists put together) follow, and so
does that a set of keys has a largest one (`MaxExists`).

`DuesLedger_proofs`, for lists of any length, any tax rates and amounts:

- `LedgerTyped`: `Spec => []TypeOK`; `SumsHold`: `Spec => []SumsAgreeWithList`. The invariant
  `Agreed` adds that what is pending is a payment, so that confirming it changes no sum of dues.
  This is what justifies `Account`: the other modules keep sums where the code adds up the list.
- `EarliestDuesHold`: `Spec => []EarliestDuesFilledFirst`. `FillsFirst` relates the pool the loop
  carries along to what the money leaves after the earlier dues, and the loop books as many dues as
  it has met with something to void.
- `CancelTwiceHolds`: `Spec => []CancelTwiceBooksNothing`. `Balanced`: what the walk has voided and
  what the money leaves add up to its pool, so after the booking the money covers all positive
  dues, and a walk that covers all books nothing.

### Registration

`Registration_proofs`, for any keys, choices, constraints, users and number of requests:

- `TypeCorrect`: every request, row and history entry keeps its shape; in particular every history
  entry is a diff of a row.
- `ReadOnlyStaysGranted`: `Spec => []ReadOnlyAsGranted`, in *any* interleaving. The check compares
  with a row that may be replaced before the save; what saves it is that every request in progress
  which is not an admin's carries read-only choices that had been granted when it loaded the row
  (`WritesAsGranted`), and that the whole row is saved, so that whichever is saved last does no
  harm. `RequestsFit` ties the step of a handler to the kind of request.
- `ReplacedRowsAreInHistory`, `RegisteredJustOnce`, `ReadOnlyIsForAdmins`: `SerialSpec` implies
  `[]ReplacedRowsInHistory`, `RegisteredOnce` and `ReadOnlyChangedByAdmin`. `SerialInv` says what a
  handler knows of the tables when it is alone (`Knows`): the counted row is still missing, the
  row loaded and the one read as the old version are those in the table, the last history entry
  is the difference. A version is recovered along a `Trail` from the row of today back through the
  entries; an update that was cut off before the save has left an entry that, taken back, changes
  nothing, which makes the trail longer and loses no version (`Recoverable`).

### Admission

`Admission_proofs`, for any configurations and credentials, any lengths of texts and any number of
attendees:

- `DoorsHold`: `AdminDoors`; `RowsOfOthersStay`: `OthersRowsUntouched`. `Started` is the invariant:
  the configuration in force was accepted, so neither role nor api token is empty. The lemmas
  about `Callers` then say what a context value tells about the credentials it came from.
- `TimesHold`: `MoreRolesNeverLater`; `CountdownHolds`: `CountdownTellsWhen`, with a lemma on the
  rounding of a time span and the fact that the start for a caller does not change.
- `ChoicesHold`: `ChoicesConsistent`. Inductive only with the types, by which a flag is either in
  the row or in the admin info, and with the lemma that constraints of an accepted configuration
  stay on their side.
- `TypesHold`: `TypeOK`.

### Databases

`Databases_proofs`, for either database, any rows and number of handlers:

- `OverwrittenCanBeUndoneHolds`: `Spec => OverwrittenCanBeUndone`, an action property. Its
  invariant `Fits` (theorem `FitsHolds`) says that a handler about to save has an entry in the
  history from which what it read as the old version can be had back, and that no handler works on
  an object that the database shares. What the two databases have in common is said in
  constant-level lemmas about each, so that the steps are gone through once.
- `PromiseKept`: `Spec => KeepsPromise`, the refinement of `Repository`. `Sound` adds to `Fits` that
  the tables speak only of attendees that exist (`TablesFit`), hence a new badge number, which is
  larger than all others, is a clean slate. Each action has a lemma that names the abstract
  action, or that the services see nothing of it. On MySQL a status change is a row under a new
  primary key, larger than all before (`StatusAppended`): it belongs to its attendee only, whose
  latest status it becomes, and what is answered for the others does not change (`StatusGiven`,
  `StatusesKept`).
- `TypesHold`, `OwnersHold`: `[]TypeOK`, `[]OwnersOwnTheirs`, from `Sound`.

### Assumptions, and what is only model-checked

Assumptions are those the modules name: the admin is not one of the users, owners are users,
prices add up to integers, amounts are integers, the grace amount is a natural number; of choices
only that defaults and read-only ones are choices; the empty text has no length; starts are
integers and credentials are tokens or none; rows have the same columns, and so have admin infos.

Only model-checked: `RequestsEnd`, since liveness under fairness is out of the prover's reach;
`NextRequestMakesGood`, whose proof is the first item of the plan; and the disagreements of section
5, which are refuted and not proved.

## 5 Where code and documentation disagree

Each of these is a run that TLC must find violated.

| run | what the documentation says | what the code does |
|---|---|---|
| `check_in_unpaid` | openapi.yaml:632, "you cannot check in an attendee unless paid in full" | The payments are compared with the dues booked so far (`status.go:164`); `UpdateDues` then books what an earlier, failed update owes (`dues.go:31`) and checks in without another look. `CheckInPaidInFull` is what holds: it presumes the dues were settled. |
| `free_attendee` | dues.go:51, "guests, or has credit :)" | With nothing to book the debitor stays unknown; the second `GetTransactions` answers 404, which this time is an error (`dues.go:39-42`). An attendee without dues cannot be approved. |
| `registered_twice` | openapi.yaml:130, duplicates are answered with 409 | Counting and inserting are two accesses, so two registrations at once both pass. |

Also seen while modelling, without a run: the duplicate check of an update expects exactly one row
with the *new* data *before* the save, whoever's row that is (`attendeesrv.go:43`), so a change to
data nobody has is turned down and one to another attendee's goes through, where openapi.yaml:245
promises 409 for an update that would make a duplicate; two status changes on one attendee at once
can leave the dues of one with the status of the other; a payment that arrives between the check and
the record does not prevent a deletion (openapi.yaml:1665); an admin may check in attendees who are
approved, where openapi.yaml:625 lists only "paid", and a test expects it
(`status_acc_test.go:598`); two updates of one attendee at once may lose a row from the history and
an admin's change of a read-only choice. After a swap of packages at different tax rates, a
cancellation leaves a due at one rate and a credit at the other, since negative dues count as money
at every rate (`dues.go:134-144`, where dues.go:147 says "void unpaid dues on cancel"). A
configuration whose read-only defaults break a constraint is accepted (`config/validation.go:143`),
and then only admins can register. Admins are shown the public start on the countdown though they
may register early, and the api token may not (`attendeesrv.go:94-115`); an update is turned down
before the start like a registration. Two identities, or two nicknames, that differ in case only are
the same to MySQL and not in memory. Overwritten comments are not in the history. Nothing asks MySQL
for the order of the status changes of which the last is taken for the one in force
(`mysqldb/implementation.go:204`; `statusctl.go:126` and `223`, `attendeesrv.go:59`,
`adminsrv.go:28`). A mail that could not be sent is never sent again: the retry of the request finds
the status unchanged and is turned down. Of the search, which no route calls: a row is scanned into
a struct, which `database/sql` cannot do (`mysqldb/implementation.go:148`), so any row found is an
error; an empty `match_any` selects nobody, where openapi.yaml:1319 has it select everybody; a key
of a choice is looked for between commas, so the first, last and single one are never found, and
asking for attendees without it finds those who have it.

## 6 What is left out, and the plan

Left out for good:

- The wording of mails, logs and responses; formats and lengths of fields (`web/util/validation`):
  pure functions without effect on other state.
- HTTP clients and circuit breakers below one access; the SQL driver; the parsing of a token,
  of which only the outcome is modelled; what `gorm` does below the operations used.
- `int64(price * 100)` in `dues.go:105`, which loses a cent for some prices: floating point.
- Bans and additional info: the repositories answer "not implemented" and no route uses them.
- The unsynchronised maps of the in-memory database: each access is one step; the code calls that
  database not useful for production (`database/init.go:28`).
- The search: no route calls it, on MySQL it fails on the first row found, and in memory it is a
  stub.
- Whether mails arrive: the code keeps no record of them.

What a next step would be, in this order:

1. **More theorems**: that `OverlapSpec` implies `NextRequestMakesGood`, for which `SerialInv` has to
   be restated for one request among overlapping ones; that `StatusDues` refines `LateBookings`
   without late bookings, so that the two sets of invariants become one; which of the guarantees of `SerialSpec` are left to a single
   attendee when only one of its requests is an update.
2. **Admission in smaller steps**: two admins and an owner at once, where the flags of the row and
   of the admin info are loaded, checked and saved separately.
3. **One composition** of `Databases` with the steps of `StatusDues`, so that status changes and
   rows share one history of failures and restarts.
