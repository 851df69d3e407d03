# The Voyya backend in TLA+

Voyya is a taxi service for several companies in several towns: a passenger
asks for a trip, the backend looks for a nearby driver, the driver takes the
trip, carries it out and is paid. The backend is a NestJS application over one
PostgreSQL database (`apps/api`), with its contracts in `packages/shared`. The
modules here model its concurrent core and check and prove what it promises.

## The system

| Part | State | Operations | Talks to | Correct if |
| --- | --- | --- | --- | --- |
| Contracts (`packages/shared/src`) | none | status machines of trips and assignments | used by every service | every write follows them |
| Taking and closing (`assignment.repository.ts`, `trip-closing.service.ts`, `trip-lifecycle.service.ts`, `trips.repository.ts`) | tables `trip_request`, `assignment`, `driver` | offer, accept, reject, en-route, arrive, start, complete, no-show, cancel by driver, cancel by passenger | database transactions, events | one driver holds a trip and only he or the passenger moves it; a driver is busy exactly while he holds one |
| Search (`assignment.service.ts`, `candidate.repository.ts`) | in memory: `chains`, `timers` | start a search, find a candidate, make an offer, time it out, move on, give up | the tables; the events `TRIP_REQUEST_CREATED`, `SEARCH_EXHAUSTED`, `TRIP_REQUEST_CANCELLED`, `ASSIGNMENT_CANCELLED_BY_DRIVER` | a pending trip is never forgotten, every search ends, no driver has two live offers |
| Start code, cash, penalty (`trips.repository.ts`, `trip_start_code` migration) | columns of `trip_request` | count wrong codes, block, collect cash once, penalise late cancellations | the closing transaction | attempts are bounded, cash and fine are settled once and fit the end |
| Driver shift, location, consent (`driver-shift.service.ts`, `driver.repository.ts`, `driver-location-purge.service.ts`, `consent.repository.ts`) | `driver.status`, location, `auth.consent_record` | start and end a shift, report a position, show it to the passenger, purge it, grant and revoke consent | the search reads status and location | a position is stored, kept and shown only under consent |
| One-time codes (`auth.service.ts`, `auth.repository.ts`, `otp-*.ts`) | `auth.otp_code`; in memory: requests under way, `OtpIssueLimiter` | issue under caps, refund, verify, purge | SMS provider | one live code per phone, used once, sent within the caps |
| Sessions (`refresh-token.service.ts`) | `auth.refresh_token` | log in, refresh, revoke, purge | PIN, suspension | a token has one successor and does not outlive a revocation |
| Driver PIN (`driver-pin.*.ts`, `admin-driver.*.ts`) | PIN columns of `fleet.driver` | reset, deliver, change, count failures, block | SMS provider, sessions | every failure is counted once, the mark of delivery belongs to the PIN |
| Notifications (`modules/notifications`) | a ledger in memory, `push_token` | register, trim and purge phones; one notice per event of a trip, in turn, up to a cap; forget dead tokens | events of trips, Expo | no notice twice, none out of its turn, none beyond the cap |
| Settlement (`admin/settlement`) | `settlement_remittance` | report a driver's week, mark its balance as remitted, reverse a mark | completed trips and their cash | nothing is remitted twice or beyond what is due |
| Affiliation (`modules/affiliation`, `tenancy`) | `company`, `company_document`, `company_review`; staged and promoted files | apply, replace a document, ask for documents, reject, approve, provision by script, purge; tell the company, issue its credentials again; list and view companies, download documents | file storage, service configuration, accounts, e-mail | an active company is complete, every document has its file, a password in force was handed on, a view fits itself |
| Service configuration (`modules/service-config`) | versions of fares, parameters, commissions | change one of them, see to those of a new company | search, trips | the versions of a key follow each other without gap or overlap |
| Fares and quotes (`trips/domain`, `trips.service.ts`, `quote-token.service.ts`) | none; a quote is a signed token | price a trip from the versions in force, create a trip from a quote, answer about its state and driver | service configuration, trips | a trip costs what was quoted, its parts add up, a passenger has one trip and is shown its driver only |
| Fleet administration (`admin/admin-driver.*.ts`) | `driver`, `vehicle`, `driver_document`; staged and promoted files | create a driver with his vehicle and documents, suspend | affiliation (quota, uploads), PIN, sessions | the fleet stays within the quota of its company, enrolment is complete or nothing |
| Infrastructure | none of the above | start-up, configuration, logs | | |

What is hard in it:

- the database runs READ COMMITTED, and a transaction reads a row before it
  updates under a condition: two handlers overlap between the two;
- the search lives in the memory of one process: its asynchronous calls
  interleave with timers, with requests and with each other at every `await`;
- a trip passes from company to company when a driver gives it back;
- a late timer, a retried request or a cancellation meets a trip or an offer
  that has moved on;
- a crash or a failed query loses what is in memory.

PROJECT.json lists each of these hazards at its line.

## Modules

    TripContracts            the shared status machines
      |      |    \                              Fares
      |  TripRide  '-------------------------- TripBooking
    TripTaking                                   |
      |   '- TripHolding (refined)             PassengerTrip --> PushDelivery
    Dispatch
                                               DriverPin
    ServiceVersions                              |
        |                                      DriverAccess --> RefreshTokens
    Affiliation                                         '-----> FleetEnrolment
        |
    CompanyNotices                             RemittanceAccount (refined)
                                                 |
    ConsentLedger                              Settlement
        |
    DriverShift                                OneTimeCode, IssueLimiter

| Proofs | of |
| --- | --- |
| DispatchProofs | TripTaking, TripHolding, Dispatch |
| TripRideProofs | TripRide |
| PassengerTripProofs | TripBooking, PushDelivery, PassengerTrip |
| DriverAccessProofs | DriverAccess, FleetEnrolment, DriverPin, RefreshTokens |
| DriverShiftProofs | ConsentLedger, DriverShift |
| AffiliationProofs | ServiceVersions, Affiliation, CompanyNotices |
| SettlementProofs | Settlement, RemittanceAccount |
| OneTimeCodeProofs | OneTimeCode, IssueLimiter |

An arrow stands for a named instance: PassengerTrip composes the bookings with
the notices about them, DriverAccess the PIN of a driver with his sessions and
his creation. Where a module is checked by a run, an MC module of its name
instantiates it for TLC; MCAffiliation does so for CompanyNotices, the largest
module over Affiliation.

**TripContracts** holds the statuses, their transitions and the two tables
derived from them, as the code holds them in `packages/shared` and
`trip-closing.service.ts`.

**TripTaking** is the three tables and every transaction on them. A handler
that reads without a lock is two steps: `BeginDriverOp` or `BeginWithdraw` for
the read with the refusals it decides (`assertOwnership`, `TripsService.cancel`),
and one action for the transaction (`CancelByPassenger` is `closePassengerTrip`). `request[h]` is what handler `h` carries between them; the row may
change in the meantime, as it may in the database. The conditional `UPDATE`s
of the code are the guards of the second step; an `UPDATE` that finds no row,
a deadlock or a lost connection is `GiveUp`. `closeAssignmentsForTrip` and the
driver it releases are `CloseRows`; row-level security is `Visible`. An offer
past its `expires_at` is `"lapsed"`, which the column still calls `notified`.
`Next` lets any free driver be offered any trip at any moment, whoever makes
the offer, so what holds of it holds of every search.
`NextSequential` adds what the search means to do, one open offer per trip.

**TripHolding** is what the tables promise: a trip is asked for, held by one
driver at a time, given back or closed; a driver holds one trip. `PhaseOf` and
`HolderOf` in TripTaking are the refinement mapping.

**Dispatch** puts the memory of `AssignmentService` over the tables: `chain`
and `timer` are its two maps, `search` the `ChainContext` objects, and
`task[w]` an asynchronous call between two `await`s. Code between two `await`s
is one step. Query, insert and bookkeeping of an offer are three (`Query`,
`Offer`, `Record`), an expiry is two (`TimerFires`, `Expire`), a rejection is
two (`Decline`, `Declined`). Distance, radius and company coverage decide which
candidate is found: `Query` may find any driver the other conditions of
`findCandidates` admit, or nobody. `CallFails` and `Crash` are a failed query
and a restart.

**TripRide** follows one trip through the columns TripTaking leaves out:
`start_code` and its attempts, `assigned_at`, `arrived_at`, `finished_at`,
`cash_collected_at`, `penalty_recorded`, with the trigger and the CHECK
constraints of the migration. A start by code is up to three statements that
each see their own snapshot: `StartWithCode` compares, `RecordFailedStartAttempt`
counts, and the refusal is read. A no-show, an end, a cash confirmation and both
cancellations are a read and an update. The drivers who take the trip in turn are colleagues, so
that row-level security hides nothing. A driver's cancellation, one step in
TripTaking, is here the update that reopens the trip, and when that finds
nothing (`ReopensNothing`) the closing (`CloseByDriver`).

**Fares** are the prices: a base fare, the night and the holiday surcharge of a
moment in the time of Bogota, each rounded on its own. A weekday and a set of
days stand for the calendar.

**TripBooking** is what a passenger sees of a trip. A quote is a token he keeps
(`quotes`), and may use again until it expires. A creation is up to three reads and
the insert (`BeginCreate`, `EnsureRequestedCompany`, `FindActiveTripRequest`,
`CreateTripRequest`), where the trigger and the partial unique index decide last.
A taking writes the commission of its company, a driver who gives the trip back
takes it away (`Reopened`), an end fixes what is owed (`ClosedRow`). A request
for the state is the row, the trip's company and the driver as three reads, of which
`seen` records who held the trip meanwhile. A driver is any who is free, and how
he was found is left to Dispatch. A place is a town with a service.

**PushDelivery** is the listener, the ledger and the transport of notices. A call
that has committed (`committed`) emits its event some time after, in whatever
order calls go on; events are handled one tick later (`HandleEvent`). The notices
of an entry are chained (`InTurn`): each waits until the one before is sent or has
taken too long, and one that has (`late`) goes on. `Restart` empties the memory,
`GrowOld` and `RoomIn` forget trips. A phone is registered and its user trimmed
in two statements. `emitted`, `lost`, `received` and `untrimmed` are history.
**PassengerTrip** makes each step of a booking the passenger is told of commit
its fact.

**OneTimeCode** is `auth.otp_code` and the requests on it, in several processes.
A request is held back while its process issues for the same phone, waits for
the turn of the limiter, evaluates the caps, hashes, and inserts under the
advisory lock of its phone, after evaluating the caps again; `InsertOtp` fixes
what the statement saw and `CommitOtp` makes it visible, so that transactions of
different phones overlap. The caps are written as waits (`WaitFor`), as
`otp-issuance-sql.ts` computes them. `SmsFails` and `RefundOtpIssuance` are the
refund, `Cleanup` the daily purge. A verification finds the code, reserves an
attempt, compares, and consumes.

**IssueLimiter** is the class `OtpIssueLimiter`, whose turn OneTimeCode takes as
given: the queue, the deadlines and the hand-over of a turn.

**RefreshTokens** is the table of sessions of one driver. None of its statements
share a transaction, so each is a step: a refresh looks the token up, revokes
it, creates its successor, and only then checks the user; a change or reset of
the PIN and a suspension revoke all. `held` is what devices got.

**DriverPin** is the PIN of one driver: reset, SMS and mark of delivery as three
steps, a login as a read, a comparison and a write that rests on the read, a
change as one step under the lock of the row. `known`, `wrong` and `serial` are
history.

**FleetEnrolment** creates drivers. The check of the uploads, the moves of the
files (copy and removal), the lock of the company's row (`LockFleetQuota`) and the
writes (`Create`) are steps; `Abort`, `MoveFails` and `RollbackPromoted` undo, the
storage may keep a file, and a process may `Stop`. A commit that was not
acknowledged (`CreateInDoubt`) is undone as if it had failed: its driver loses
his files, and `inDoubt` names him. **DriverAccess** lets the request that created
the first driver send his PIN, and joins what DriverPin and RefreshTokens do at
once: a login goes on to issue a session, a change revokes all and issues one, a
reset revokes before its SMS is sent, a suspension revokes.

**Settlement** is one finished week of one driver. The trips of the week are
given, with the commission each was taken at; what moves is their cash. A report
is the read of the commissions (`CountCommissions`) and the read of the ledger
(`ShowReport`); a mark is lock and count (`BeginRecord`), the read of the ledger
(`ListLedger`) and the decision (`EndRecord`); a reversal reads its entry, locks,
and decides. Any may be repeated with what it knew before. The weeks of a driver
share the lock and nothing else, and drivers share nothing. Which of several
remittances in force is named in an answer depends on when transactions began,
and is left open. **RemittanceAccount** is what this promises: debt grows, marks
pay some of it, and a mark is taken back as a whole.

**ServiceVersions** is the configuration of towns and companies: a key is a fare
or the parameters of a service in a town, or the commission of a company, and
has a sequence of versions. What a transaction has written and not committed is
in `pending`; another writer of the key waits (`Free`). An edit by the platform
is `BeginEdit`, one of the two writes, and `Commit`; a company's provisioning
(`ensureForApproval`) goes through its `Plan`: `FareFound`, `FareMissing`,
`ReadCommission`, then `InsertIfNoOpenVersion` or `ReplaceOpenVersion`, and for
whoever loses an insert `LostFare` and `WinnerFound`, or `LostParams`. `now()` of
a statement is the start of its transaction, so a version may claim to be in
force slightly before anybody sees it. Amounts are left out.

**Affiliation** adds companies, their documents, reviews and files, and the
accounts of contacts. A submission and a replacement are a read
(`BeginSubmission`, `BeginReplacement`), the moves of their files in two steps
each (`CopyDocument`, `RemoveStaged`), the writes, and `RollbackPromoted` when
anything fails. An approval is a provisioning that holds the row of its company
from `BeginApproval` to `CommitApproval`. The town and the services of a company
do not change between its applications. An answer that a commit failed is
taken to be true (a commit that took effect and was not acknowledged would leave
rows without files, as `CreateInDoubt` does for drivers), the reads of a
submission are one step, and the purge may take an upload at any time after it
was staged, whatever its age. A replacement is
always an update: all the types of `CompanyDocumentType` are in
`REQUIRED_COMPANY_DOCUMENT_TYPES` (`packages/shared/src/contracts/affiliation.ts:47-60`),
so a company in review has a row of each, and the replacement waits for an
approval that holds it (`RowFree`). An optional type would be inserted without
waiting and could miss `markAllDocumentsVerified`. `asOf` and `since` are history.

**CompanyNotices** adds what a decision leaves behind: an e-mail that is handed to
the provider after the commit, once, and may fail (`SendSafely`); the first
password of an account, which goes with the approval or to whoever ran the script.
A clerk of the platform sends the last decision again in two steps, the read of
the decision and the read of whom to tell (`ResendNotification`,
`ReissueCredentials`), so that a rejection may reach a later contact; he opens
a company in three reads (`ReadDetail`), lists companies in two, and downloads
by the links he was shown (`Download`). A password is the number of its issue.

**ConsentLedger** is what drivers said to the notice about their location. The
ledger only grows; an entry carries the time its transaction began, which is
before it had the lock of the user, so that calls which wait for each other may
write in another order than they began in. The entry that began last is in force.

**DriverShift** puts shift, position and trips over it. A start of a shift and a
report are transactions: `BeginWrite` fixes the time they stamp,
`WithLocationConsent` takes the shared lock and reads the ledger, and
`StartShift` or `ReportLocation` writes. A start that finds its driver neither
at home nor available looks again (`LookAtStatus`) and refreshes the position in
a second transaction. `RevokeConsent` waits for the lock and commits;
`ClearLocationAfterConsentRevoked` is what its event causes afterwards, and what
a stop of the process loses (`owed`). A tracking request of the passenger is
three statements. The purge is one transaction with a savepoint for each company
(`PurgeStaleLocations`, `MissCompany`), whose locks hold other writers back until
`CommitPurge`. Of a trip it matters whether its driver is on his way (`"window"`:
assigned or en route, the stretch in which he is shown) or `"riding"`, and when
it was assigned. `"suspended"` stands for the states that keep a driver from
working (`inactive`, `suspended`, `documents_blocked`); every driver has a
vehicle. The reads of the home screen and the pending cash change nothing and are left
out. `owed`, `misses` and `covered` are history.

The `TypeOK` of a module whose configuration does not list it can be added to it.

Definitions marked *Mutant* are wrong variants of the definition that follows
them, kept to see that each property fails when the code would be wrong.

## Runs

| Run | Question | Bounds |
| --- | --- | --- |
| `SequentialTwoTrips` | two trips, two drivers, one open offer per trip: is a driver busy exactly while he has a trip, are trips moved only by who holds them or the passenger, and do the tables refine TripHolding? | 2 trips, 2 drivers, 2 rows |
| `Searches` | does a pending trip always have something that moves its search on, when drivers answer, ignore or give back, timers race, the passenger cancels, and one call may fail or the process crash? is a trip held by one driver when offers outlive their search? does a driver for whom two searches compete never have two live offers? | 1 trip, 2 drivers of rival companies, 1 failure; or 2 trips, 1 driver; 3 rows, 2 searches, 2 calls, 2 retries |
| `SearchLive` | does every search end? | 1 trip, 2 drivers (one never answers), no symmetry |
| `RideOneTrip` | do start code, attempts, arrival, end, cash and fine agree under overlapping requests? | 3 requests at once, 2 takings, 2 codes, 2 attempts, clock 0..3 |
| `OneTimeCode` | does a phone have one live code; are the caps kept over what was really sent; is the wait answered with a refusal enough; are attempts and uses of a code bounded? | 2 processes, 5 codes of one phone over 5 time units; or 2 phones; or 2 verifications of 2 codes |
| `IssueLimiter` | is no turn lost, nobody forgotten in the queue, everyone answered? | 5 callers, 2 turns, queue of 2 |
| `DriverAccess` | does the fleet stay within its quota and have drivers exactly their files; is every wrong PIN counted once; with one request at a time, does the block follow the count, and the mark of delivery the PIN; is a token replaced once, and what outlives a suspension or a revocation? | 2 creations of 2 drivers, 2 uploads, quota 0..1; 2 requests at once, 2 PINs, limit 2, clock 0..2, 3 tokens |
| `PassengerTrip` | has a passenger one active trip; does a trip cost what was quoted and owe what its taker's company owed; is the driver shown the one who holds it; do notices come in turn, once, as allowed? | 1 passenger with 2 trips, 3 drivers and 3 companies in 2 places, 2 quotes, 2 calls; or the notices of 2 passengers, 4 facts, 1 entry; or 2 phones |
| `Settlement` | is a week never remitted twice or beyond what was collected, and is no report too high, when cash, marks, repeated marks and reversals overlap? | 3 trips (commissions 1, 1, 2), 2 requests at once, 4 entries |
| `Affiliation` | are versions unbroken and deadlocks impossible when companies of one town are approved at once; is an active company complete and set back only by a stale application; has every document its file; was a password in force handed on or its e-mail sent to its owner; does what the platform is shown fit itself? | 2 companies of one town, 2 services, 2 transactions; or 1 company, 2 requests, 2 uploads (3 where contacts overlap), 2 contacts, 3 reviews; 1 clerk, 3 passwords |
| `DriverShift` | is a position stored, kept and shown only under consent, when reports, revocations, trips, the purge and the passenger's look overlap? | 2 drivers, 1 trip, 2 requests, 2 versions of the notice, 2 grants or revocations, clock 0..3, 1 missed purge |
| `BusyHasTrip` | is a driver marked busy always on a trip (finding)? | 1 trip, 3 drivers |

Why the bounds suffice: the conflicts are between two handlers on one row, or
between two drivers and the passenger on one trip. `SequentialTwoTrips` has
two colleagues, `Searches` two rivals and `BusyHasTrip` three drivers of two
companies; the theorems have any number. A driver has at most two rows for one
trip that matter (an old one and a live one). Rows, searches and calls are
identities that can run out: running out only stops the model, and in the
liveness run it would show as a violation. Rows, searches and calls are
interchangeable and used as symmetry sets in the safety runs only.

`Searches`, `OneTimeCode`, `Affiliation`, `DriverAccess`, `PassengerTrip` and
`DriverShift` explore several scenarios in one run; `MCScope`, a
CONSTRAINT of the MC module, keeps the scenarios apart. Windows and limits are
as small as they can be and still differ (a cooldown of 1, an hour of 3 and a
day of 5 time units with 1, 2 and 3 codes), so that each is the decisive one
somewhere and ends within the clock. In the modules with a clock, with limited
takings or with limited identities the model stops when those run out, as the
searches do; deadlock is therefore not checked there. Two requests at once show
every race of two; RideOneTrip has a third. Affiliation needs two companies with
two services, listed in different orders, for a circle of waits and a lost
insert, and for the rest one company, one kind of document, two uploads and two
requests: each fault is a matter of one request that is overtaken by another.
In the run of Affiliation no file moves while a company is approved; the proofs need no such
restriction. In the run of DriverShift one driver makes requests and the other,
whose consent stands, only drives, so that a trip can pass between them and a
silent driver exists; requests and consents move at first, positions grow old
afterwards. Here too the proofs have no scope.

In the run of DriverAccess drivers are created until the first PIN is sent, while
at most two files are left behind; from then on the fleet is at rest and no longer
part of the view (`MCView`), because no later step reads it. PINs, failures and
the clock move until a session is stored, and beside sessions only right logins, changes
and resets that come one at a time: what is counted and what is revoked
do not depend on each other. In the run of PassengerTrip the trips of `p1` are followed without their
notices, which no step of a trip reads (`View`), and the notices of `p2` and `p1`'s
other trip with little else; phones are trimmed without a trip. Which facts may meet
is written out in `Booking`, `Notifying` and `Phones`. While both trips have notices,
one fact waits to be emitted at a time: only facts of one trip have an order to keep. A ledger of one entry
forgets as often as two trips alternate, and a cap of three notices is reached by
a trip that is given back. `Telling` in MCAffiliation has a clerk look at a company that is decided
meanwhile, issue credentials again when two contacts applied at once,
or send what was decided.

### Assumptions

- `OneRequestPerDriver`: a driver has one request in flight. The application
  of the driver behaves so; the server does not enforce it, and `OnlyHolderMoves`
  fails without it (see below).
- `RecordedBeforeAnswered` (in `PromptSafety`): the lines after the commit of
  an offer run before its driver answers it and before it expires. The driver
  is notified by those lines, but could see the offer sooner by polling; without
  the assumption `NeverStranded` fails, the late lines overwriting the search.
- Undisputed offers (`SpecSequential`): one open offer per trip. The search
  means this, but a rejection that races its timer breaks it: `BusyHasTrip`
  shows the consequence.
- `QuoteIsShort`: a quote and a creation together take less than three hours, so
  that at most one surcharge changes between them. The lifetime of a quote is
  configured; by default it is two minutes. Two surcharges that changed places
  could make up the old price with other parts.
- A decision and its e-mail, and a step of a trip and its event, are separate, and
  the process may end between them.
- One request at a time (`serial` in DriverPin): `BlockMatchesCount` and
  `DeliveredIsCurrent` are claimed of runs in which no request of the driver
  begins while another is in flight. What overlapping requests do is below.
- Phones do not share the key of the advisory lock, a hash of the phone (a
  shared key would only refuse a request more), and the clocks of the database
  and of the processes agree.
- A failed SMS was not delivered.
- A driver who changes his PIN has had a session; a reset leaves him his access
  token. A suspended driver is never enabled again: no code does it.
- A transaction of a driver's request ends before the clock moves twice, and
  the purge of an hour begins before the next hour (`Tick`). The purge may fail
  (`misses`), but is not switched off, as `LOCATION_PURGE_HOURS=0` would.
- Fairness of IssueLimiter: a timer that is set goes off. Nothing is assumed of
  the work.
- Fairness (`Fairness` in Dispatch): the event loop goes on with calls it has
  begun, timers go off, time passes. Nothing is assumed of drivers or
  passengers.

### Findings

One disagreement has a run, `BusyHasTrip`: a rejection that lost
to its timer forks the search; when the trip closes with two open rows the wrong
driver may be released, and his colleague stays `on_trip` for good.

Others can be seen by adding a line to a configuration:

| Add | to | and TLC shows |
| --- | --- | --- |
| `ClientOf <- MCDoubleClientOf` (for the present one), `h3` to `Handler` | `SequentialTwoTrips.cfg` | `OnlyHolderMoves`, listed alone, fails: of two cancellations of one driver in flight, the late one reopens the trip a colleague has taken |
| `PROPERTY PendingIsFree` | `RideOneTrip.cfg` | the passenger's cancellation is judged late from an unlocked read (`trips.service.ts:242`); the driver gives the trip back before the update, and a pending trip is fined, where `trips.service.spec.ts:565` says it is free |
| `PROPERTY RowStepsByContract` | `SequentialTwoTrips.cfg` | closing a trip moves its live offer from `notified` to `cancelled`, which `packages/shared/src/contracts/assignment.ts:19` does not list |
| `INVARIANT CancelledHasNoOffer` | `Searches.cfg` | an offer on its way to the database when the passenger cancels stays live until it lapses |
| `INVARIANT RevocationIsFinal` | `DriverAccess.cfg` | a refresh that has revoked the old token and not yet created the new one survives the revocation of all sessions by a change of PIN; `OnlySwappedOutlive` says that this is the only such case |
| `INVARIANT BlockIsEarned` | `DriverAccess.cfg` | a login that failed against the old PIN is counted after a reset and blocks the driver after one failure with the new one |
| `DeliveredIsCurrent` without `serial` | `DriverAccess.cfg` | of two overlapping resets, the delivery of the first marks the PIN of the second |

Definitions that hold and are not listed in a configuration, because another
property says more, can be added in the same way: the type invariants,
`SearchedIsUnowned`, `TripStepsByContract`, `ClosedForGood`, `QueueIsWaiting`,
`EndIsWrittenOnce`, `ReversedOnce`, `DecidedOnce`.

Some listed properties are conjunctions of parts that have names of their own in
the modules, and are named so below: `CodeIsAccounted` (`CodeConstraints`,
`WrongAnswersAreCounted`), `EndIsEarned` (`FineIsOverdue`, `ArrivalOfHolder`),
`PaidOnce` (`WithinDue`, `NewDebtOnly`), `AnswersAreTrue`
(`ReportNeverOverstates`, `AnsweredTruly`), `FailuresCount` (`FailuresAddUp`,
`BlockMatchesCount`), `TokensEnd` (`OneSuccessor`, `OnlySwappedOutlive`,
`SuspendedKeepsNoRefresh`), `FilesMatchDrivers` (`DriverIsDocumented`,
`FilesAccounted`), `MoneyIsAgreed` (`PriceIsQuoted`, `CommissionOfTaker`) and
`NoticesAreDue` (`NoticesInOrder`, `NoticesFitTrip`, `DevicesBounded`).

Limits are stated by the properties themselves: the cap of the whole service may
be exceeded by one code for each process beyond the first (`GlobalCap`); a login
under way at a suspension leaves a token whose first refresh is refused
(`SuspendedKeepsNoRefresh` speaks of refreshed tokens); an active company is set
back to pending by a second application that read it as rejected before the
first was decided (`SetBackOnlyByStale`); a document may be replaced or asked for
again after the approval by someone who read the company as pending before it
(`ActiveIsVerified`); a driver whose creation was committed and not acknowledged
has lost his files (`DriverIsDocumented`); a notice that hangs may be overtaken, and a
ledger that forgot a trip counts and orders its notices anew (`NoticesInOrder`,
`NoticesFitTrip`).

`RevokedIsOut` speaks of a revocation that was carried through. The notice
(`packages/shared/src/contracts/location-notice.ts:102`) promises that the last
position is erased at once; the code erases it in a second transaction, and
a process that stops between the two leaves it to the purge (`owed`, `KeptAtMost`).
A driver who ends his shift has no position, but one whose PIN is reset keeps
his until the purge (`RotatePin`).

## Proofs

Every invariant and action property of the passing runs is a theorem for all
values of the constants, under the assumptions that the modules name
(`...Assumption`), and so are the refinements. An invariant is seldom inductive
as it stands; what follows is what had to be added, and why it holds.

**DispatchProofs.** Of the tables: type correctness (`TypeCorrect`), the single
take (`SingleTake`), the ownership of searched trips (`SearchedUnowned`), and
the action properties `ContractKept`, `HolderMoves` and `ClosedIsFinal` (the
first and the last are proved and not run). `HeldByOne` is not inductive: a
handler acts on a row it read earlier. The strengthening `TakeInv` adds that a
request for a ride step names a row of its own driver (`RequestsOwned`), and
that such a row is still accepted unless its trip was closed by the passenger
(`RideInFlight`), which needs `OneRequestPerDriver`. Closing steps are covered
by two lemmas, one for steps that leave holders alone (`CalmStep`) and one for
steps that take a trip away together with its rows (`LeavingStep`). Where offers
are undisputed (`SpecSequential`) a trip has one open row and a closed trip
none, which gives `BusyWhileHolding` and the refinement of TripHolding
(`TakingImplementsHolding`), step by step through the mapping.

Of the search: `SearchTakesTrips` is a refinement: with any interleaving of its
calls, any failures and crashes, the search changes the tables only by the
transactions of TripTaking, so the theorems above hold of it (`SearchHeldByOne`
spells out one). It rests on `SearchInv`: what calls, chains, offers and timers
refer to exists and belongs to the trip they name. `NobodyStranded` proves
`NeverStranded` under `RecordedBeforeAnswered`. `NeverStranded` is not
inductive: it must also be known that the call named will go on and not stop.
`Supported` says which calls do, and needs to know whose turn it is: an offer
has one call at work on it and no armed timer while it has (`Turn`), and an
offer still to be recorded is unanswered (`Recording`).

**TripRideProofs.** `RideInv` adds to the properties that a trip with failed
attempts is neither pending nor assigned (`Attempts`), so that it cannot go back
to the search (`AttemptedStaysTaken`) and no statement runs into the CHECK
constraint; that a trip that is held was taken, and not later than now
(`Times`); that who was found late is late for some taking, and ever after
(`Fines`); and that `finished_at` is there exactly when the trip has ended
(`Ends`).

**PassengerTripProofs.** `TripsAreBookings` is a refinement: notices and phones
leave the bookings alone, so what is proved of TripBooking with time-outs holds
of PassengerTrip. `BookingInv` says of every quote that it is the fare of some
version at some moment not later than now (`QuotesSigned`), of every request
what it has read and whom it has passed by (`RequestsOK`), and of every row that
it is priced by the quote it was made from and owes what its last taking says
(`RowsOK`). A fare within three hours of its quote differs from it by one
surcharge at most (`QuoteIsShort`), which is how the tolerated change of a price
is the right one.

`NoticesAreDue` is about the notices, and its invariant `PushInv` about what the
ledger in memory still knows. The events of a trip wait in line: they are the
last that were emitted of it, without a gap (`InLine`, `LastWaits`), so the
handler's event is always the next one, and a count of those handled
(`HandledOf`) is a clock of the trip. By this clock a trip has at most one entry
(`OnePerTrip`). The entry counts the notices submitted since the last time the
trip was lost, begins the chain they are all in, and says whether a driver gave
the trip back since then (`Remembers`); a trip without an entry was lost after
every notice and every such event (`Blank`). What was said of a notice when it
was submitted (`ChainsAt`, `FitsAt`) or received (`CameAt`, `FollowsAt`) stays
true, because emitted events, losses and notices only become more (`Prolongs`,
`StaysFit`). It does not matter which entries go, or why: whoever leaves the
ledger has the time of its leaving noted (`LosesRest`), and the room made for a
new entry, an expired entry and a restart are the same case (`LedgerStays`). For
the phones (`Bounded`), each registration that has not trimmed accounts for one
phone, and of rows after which fewer than `MaxTokens` of the user come there
are at most `MaxTokens` (`LatestAreFew`).

**DriverAccessProofs** has three invariants, as DriverAccess has three parts
that share only suspension and revocation. `FleetInv`: whoever holds the lock of
the quota still has the room he counted (`RoomWhileLocked`), what a creation has
moved is in place and its own (`MovedAreInPlace`), and the upload of a document
is used up (`DocumentsOwned`). `AccessEnrols` is the refinement that lets all
this be proved of FleetEnrolment alone. `PinInv`: while requests come one at a
time, the request under way knows the count it read, sends the PIN in force, and
marks one that was sent (`RequestsCurrent`). `TokenInv`: a token is used up
before it has a successor, a refresh about to create one is alone with its
token, and what has ended by a revocation and still gets a successor was being
refreshed at that moment (`CallFits`).

**DriverShiftProofs** proves every property of DriverShift. `RevokedStaysOut`
rests on `ConsentInv`. Entries and calls of a driver differ in the time they
began, so that one entry is in force and nobody is granted and revoked at once;
a request under the shared lock is covered by the consent it read, because
nothing is written to the ledger meanwhile (`LockedIsAccepted`); and whoever
holds a trip is on it (`HolderOnTrip`), so that the end of a trip cannot bring
back a driver who was cleared. `ShowsHisPassenger` needs to know that whoever a
tracking request has approved was covered during it. `KeptNoLonger` relates the
age of a position, of the request that writes it and of the purge that judges
it.

**AffiliationProofs**, versions first. An unbroken history (`HistoryUnbroken`)
is not inductive: a write that is not committed must still fit when it is.
`PendingFits` says that it closes the last version of its key, and that its
transaction is the only one with a write on the key. `PlanFollowed` says what a
provisioning has seen to when it is ready: every key it needs has a version or a
write of its own. That a plan has exactly these keys (`PlansFit`), and has them
in one order (`PlansInOrder`), is proved from its definition, a sort and a
flattening: a finite set of services can be sorted (`CanBeSorted`), and the
flattened pairs alternate (`FlattenPairs`). From the order follows
`NobodyWaitsInACircle`: what a transaction holds comes before all it still wants
(`HeldInOrder`), so whoever is waited for is ahead; a smallest circle would have
somebody ahead of himself. That there are finitely many transactions is its
hypothesis.

Then Affiliation. `AffiliationKeepsVersions` is a refinement: to the versions
every step of Affiliation is one of ServiceVersions or none, so
`HistoryUnbroken` holds here too. Types need `Fits`, what a request has at each
of its steps. `ApplicationDecidedOnce`, `ActiveVerified` and `SetBackByStale`
rest on `ReadBefore`: whatever a request relies on was read from a company that
had applied, and if the company is active by now, a decision has come since.
`DocumentHasFile` rests on `FilesKept`: the upload of a document is gone and its
request over, so that nobody copies it again or removes it. `ActiveProvisioned`
rests on `PlanFollowed`, on the history that only grows (`HistoryGrows`), and on
the contact that an application names.

Then CompanyNotices, which implements Affiliation (`NoticesAffiliate`): to know
that a step is one of Affiliation, whoever is asked for documents must have been
linked already, part of `NoticesInv`. `PasswordsReach`: a password is written
with the account that an e-mail about it goes to, or handed over. That every
e-mail has a contact to go to rests on `Addressed`: who is told of a decision
has applied. `ViewsConsistent`: what a view read first stays true until the rest
is read, since reviews, versions and kept files only become more.

**SettlementProofs.** Whoever decides on a mark or a reversal is alone under the
lock of the driver and has read the whole ledger (`MarksAreSerial`), and every
reversal takes back one whole remittance that no other takes back
(`EachReversedOnce`). `LedgerInv` carries both: the lock is held from the count
to the write (`LockHolder`), so what was read is still all there is
(`DecidesOnAll`). The money needs sums. `MapThenSumSet` is a recursive function
over the subsets of a set, and the induction theorems of the library cannot be
used; but a claim about finite sets that fails has a smallest set for which it
fails (`Least`, from the well-founded order of finite subsets), and on that set
a step of the recursion refutes it. So sums exist, are typed, do not depend on
an order (`SumTakes`), and change by one summand with one element. `MoneyInv`
then says that the balance is what the marks in force have paid
(`HeldIsRemitted`), that after a mark nothing is left to pay of what was due at
its moment (`LastPaysAll`), and that no request has counted more than is due
(`CountedOfDue`). From it follow `NothingPaidTwice`, `BalancesAreTrue`, and the
refinement `LedgerIsAccount`.

**OneTimeCodeProofs.** The codes that count against a cap are the rows of the
table, those delivered and since removed, and those being sent (`CodeInv`). A
refund and a purge remove rows, so the table alone shows less than was sent:
`StillCounted` says that a code that went out is missing from it only when no
cap counts it any more, because a refund never touches what was delivered. Under
the lock of a phone there is room for the code about to be inserted (`HasRoom`);
for the service there is room but for the codes other processes insert at the
same time, one each (`ServiceKeepsCap`). These give `CapsAreKept`.
`RetriesSuffice`: the earliest code that is still counted decides the wait, and
counts no more when the wait is over. `CodesAreSpent` and `PhoneHasOneCode`
follow from what reserved attempts and consumed rows can be. `NoTurnIsLost` is
about the limiter: its queue is of waiting callers, each once (`LimiterInv`), so
whoever is handed a turn takes it.

Only model-checked: liveness (`SearchEnds`, `WaitEnds`), which the prover does
not reach, and what the findings refute, which is not so.

## Plan

Done: every module above, and the theorems of every property but those just named.

To come: the login of staff (`adminLogin`), which counts failures on `auth.user`
as DriverPin does on `fleet.driver`.

Not modelled: infrastructure (start-up, configuration, logging), the operations
console and the exports of settlement, which only read, the catalogue of
municipalities that a script generates, the wording of e-mails and notices, and
geographic queries, which decide only which candidate is nearest.
