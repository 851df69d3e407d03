---------------------------- MODULE TripBooking ----------------------------
(***************************************************************************)
(* What a passenger sees of a trip: the quote he is given, the trip he     *)
(* creates from it, what that trip costs him and earns its company, and    *)
(* the answers to his requests for its status.                             *)
(*                                                                         *)
(* A quote is a signed token the passenger keeps; the service remembers    *)
(* nothing of it, and takes it again until it expires. A creation and a    *)
(* request for the status are sequences of statements without a            *)
(* transaction: request[h] is what call h knows between two of them. How   *)
(* drivers come to take a trip is in TripTaking and Dispatch: here any     *)
(* driver who is free may.                                                 *)
(***************************************************************************)
EXTENDS Fares, TripContracts, Sequences, FiniteSets

CONSTANTS
  Passenger, Trip, Driver, Company,
  Place,          \* pairs of a town and a service
  Handler,        \* identities of calls that may be in flight
  CompanyOf,      \* the company of a driver
  PlaceOf,        \* where a company works
  Offered,        \* places whose service is switched on, and that cover the route
  FareTable,      \* the fares of a place, one after the other
  CommissionPct,  \* percentages a commission may have
  Ttl,            \* QUOTE_TOKEN_TTL_SECONDS
  Latency,        \* bounds the time a creation takes
  Moment,         \* bounds the clock: the moments something may happen at
  MaxQuotes,      \* bounds the quotes given
  None

ASSUME BookingAssumption ==
  /\ CompanyOf \in [Driver -> Company] /\ PlaceOf \in [Company -> Place]
  /\ Offered \subseteq Place
  /\ FareTable \in [Place -> Seq(FareParams)]
  /\ CommissionPct \subseteq 0..50 /\ CommissionPct # {}
  /\ {Ttl, Latency, MaxQuotes} \subseteq Nat /\ Moment \subseteq Nat /\ Moment # {}
  /\ None \notin Company \cup Driver \cup CommissionPct \cup Nat
  /\ None \notin [place : Place, version : Nat, fare : FareBreakdown, exp : Nat]

(* The night begins three hours before the day ends, and ends five hours   *)
(* after: a passenger who takes up a quote in less sees one change of the  *)
(* tariff at most. The service does not bound QUOTE_TOKEN_TTL_SECONDS; by  *)
(* default it is two minutes.                                              *)
ASSUME QuoteIsShort == Ttl + Latency < 3 * HourLength

VARIABLES
  now,
  fareVersion,  \* the fare in force in each place, 0 for none
  active,       \* companies that are active
  pct,          \* the commission in force of each company
  quotes,       \* tokens that were signed
  trip,         \* trips.trip_request, with the driver of its assignment
  request,      \* calls in flight
  quoted,       \* history: the quote each trip was created from
  rate          \* history: the commission its company had when it took the trip

configVars == <<now, fareVersion, active, pct>>
tripVars == <<trip, quoted, rate>>
bookingVars == <<configVars, quotes, request, tripVars>>

Quote == [place : Place, version : Nat, fare : FareBreakdown, exp : Nat]

TripRequest ==
  [passenger : Passenger, place : Place, requested : Company \cup {None},
   fare : Amount, version : Nat, at : Nat, status : TripStatus, arrived : BOOLEAN,
   purged : BOOLEAN, driver : Driver \cup {None}, company : Company \cup {None},
   pct : CommissionPct \cup {None}, commission : Amount, net : Amount \cup {None}]

Creation ==
  [op : {"company", "active", "insert"}, passenger : Passenger, place : Place,
   requested : Company \cup {None}, quote : Quote, since : Nat]

StatusRequest ==
  [op : {"row"}, trip : Trip]
    \cup [op : {"info"}, trip : Trip, contact : BOOLEAN, seen : SUBSET (Driver \X BOOLEAN)]
    \cup [op : {"driver"}, trip : Trip, contact : BOOLEAN, seen : SUBSET (Driver \X BOOLEAN),
          company : Company]
    \cup [op : {"answered"}, trip : Trip, contact : BOOLEAN, seen : SUBSET (Driver \X BOOLEAN),
          company : Company, driver : Driver]

Idle == [op |-> "idle"]

BookingTypeOK ==
  /\ now \in Moment
  /\ fareVersion \in [Place -> Nat]
  /\ active \subseteq Company /\ pct \in [Company -> CommissionPct]
  /\ quotes \subseteq Quote
  /\ trip \in [Trip -> TripRequest \cup {None}]
  /\ request \in [Handler -> {Idle} \cup Creation \cup StatusRequest]
  /\ quoted \in [Trip -> Quote \cup {None}]
  /\ rate \in [Trip -> CommissionPct \cup {None}]

BookingInit ==
  /\ now \in Moment /\ \A m \in Moment : now <= m
  /\ fareVersion = [pl \in Place |-> IF FareTable[pl] = <<>> THEN 0 ELSE 1]
  /\ active = Company
  /\ \E x \in CommissionPct : pct = [c \in Company |-> x]
  /\ quotes = {}
  /\ trip = [t \in Trip |-> None] /\ quoted = [t \in Trip |-> None]
  /\ rate = [t \in Trip |-> None]
  /\ request = [h \in Handler |-> Idle]

-----------------------------------------------------------------------------
(* What others change meanwhile: time passes, the platform sets fares and  *)
(* commissions, suspends companies and takes them back (ServiceVersions    *)
(* and Affiliation are about how).                                         *)

Creating(h) == request[h].op \in {"company", "active", "insert"}

Elapse(m) ==
  /\ m \in Moment /\ now < m /\ \A n \in Moment : n <= now \/ m <= n
  /\ \A h \in Handler : Creating(h) => m <= request[h].since + Latency
  /\ now' = m
  /\ UNCHANGED <<fareVersion, active, pct, quotes, request, tripVars>>

ReviseFare(pl) ==
  /\ fareVersion[pl] < Len(FareTable[pl])
  /\ fareVersion' = [fareVersion EXCEPT ![pl] = @ + 1]
  /\ UNCHANGED <<now, active, pct, quotes, request, tripVars>>

ReviseCommission(c, x) ==
  /\ x # pct[c]
  /\ pct' = [pct EXCEPT ![c] = x]
  /\ UNCHANGED <<now, fareVersion, active, quotes, request, tripVars>>

SuspendOrRestore(c) ==
  /\ active' = IF c \in active THEN active \ {c} ELSE active \cup {c}
  /\ UNCHANGED <<now, fareVersion, pct, quotes, request, tripVars>>

(* DispatchCompaniesResolver. An active company has a commission in force: *)
(* see ActiveIsProvisioned in Affiliation.                                 *)
Resolve(pl, requested) ==
  { c \in active : PlaceOf[c] = pl /\ requested \in {None, c} }

-----------------------------------------------------------------------------
(* Quotes.                                                                 *)

Sign(pl) ==
  [place   |-> pl,
   version |-> fareVersion[pl],
   fare    |-> CalculateFare(FareTable[pl][fareVersion[pl]], now),
   exp     |-> now + Ttl]

GiveQuote(pl) ==
  /\ Cardinality(quotes) < MaxQuotes
  /\ pl \in Offered
  /\ Resolve(pl, None) # {}
  /\ fareVersion[pl] > 0
  /\ quotes' = quotes \cup {Sign(pl)}
  /\ UNCHANGED <<configVars, request, tripVars>>

Verified(q) == q.exp >= now

TokenMatches(q, pl) == q.place = pl

-----------------------------------------------------------------------------
(* The creation of a trip.                                                 *)

Become(h, state) == request' = [request EXCEPT ![h] = state]

ActiveStatus == {"pending_assignment"} \cup HeldStatus

ActiveTrips(p) ==
  { t \in Trip : trip[t] # None /\ trip[t].passenger = p /\ trip[t].status \in ActiveStatus }

BeginCreate(h, p, pl, requested, q) ==
  /\ request[h] = Idle
  /\ pl \in Offered /\ q \in quotes
  /\ Verified(q) /\ TokenMatches(q, pl)
  /\ Become(h, [op        |-> IF requested = None THEN "active" ELSE "company",
                passenger |-> p, place |-> pl, requested |-> requested,
                quote     |-> q, since |-> now])
  /\ UNCHANGED <<configVars, quotes, tripVars>>

EnsureRequestedCompany(h) ==
  /\ request[h].op = "company"
  /\ Become(h, IF Resolve(request[h].place, request[h].requested) = {}
               THEN Idle ELSE [request[h] EXCEPT !.op = "active"])
  /\ UNCHANGED <<configVars, quotes, tripVars>>

FindActiveTripRequest(h) ==
  /\ request[h].op = "active"
  /\ Become(h, IF ActiveTrips(request[h].passenger) # {}
               THEN Idle ELSE [request[h] EXCEPT !.op = "insert"])
  /\ UNCHANGED <<configVars, quotes, tripVars>>

(* The trigger of the table.                                               *)
RequestedCompanyAvailable(c, pl) == c # None => c \in active /\ PlaceOf[c] = pl

(* Mutant: nothing but the read before it keeps a passenger from a second  *)
(* trip.                                                                   *)
NoIndex(p) == TRUE

(* The unique index of the table.                                          *)
UniqueActive(p) == ActiveTrips(p) = {}

NewTrip(r) ==
  [passenger |-> r.passenger, place |-> r.place, requested |-> r.requested,
   fare |-> r.quote.fare.total, version |-> r.quote.version, at |-> now,
   status |-> "pending_assignment", arrived |-> FALSE, purged |-> FALSE,
   driver |-> None, company |-> None, pct |-> None, commission |-> 0, net |-> None]

CreateTripRequest(h, t) ==
  /\ request[h].op = "insert"
  /\ trip[t] = None
  /\ RequestedCompanyAvailable(request[h].requested, request[h].place)
  /\ UniqueActive(request[h].passenger)
  /\ trip' = [trip EXCEPT ![t] = NewTrip(request[h])]
  /\ quoted' = [quoted EXCEPT ![t] = request[h].quote]
  /\ Become(h, Idle)
  /\ UNCHANGED <<configVars, quotes, rate>>

(* The insert is refused, or the call ends at one of its statements. The   *)
(* trip that is in the way is read again, for the answer only.             *)
Fails(h) ==
  /\ request[h] # Idle
  /\ Become(h, Idle)
  /\ UNCHANGED <<configVars, quotes, tripVars>>

-----------------------------------------------------------------------------
(* What happens to a trip, each time in one transaction. A call that asks  *)
(* for the status of the trip notes whom it passes by (seen, a history):   *)
(* the driver, and whether he was to be reached by the passenger.          *)

StatusWithDriver == HeldStatus \cup {"completed"}
StatusWithContact == {"assigned", "driver_en_route"}

Driven(row) ==
  IF row.driver = None THEN {} ELSE {<<row.driver, row.status \in StatusWithContact>>}

Asking(h) == request[h].op \in {"info", "driver"}

Becomes(t, row) ==
  /\ trip' = [trip EXCEPT ![t] = row]
  /\ request' = [h \in Handler |->
       IF Asking(h) /\ request[h].trip = t
       THEN [request[h] EXCEPT !.seen = @ \cup Driven(row)] ELSE request[h]]

Is(t, status) == trip[t] # None /\ trip[t].status = status

Free(d) == \A t \in Trip : trip[t] # None /\ trip[t].driver = d => trip[t].status \notin HeldStatus

Take(t, d) ==
  LET c == CompanyOf[d]
  IN  /\ Is(t, "pending_assignment")
      /\ Free(d)
      /\ c \in active /\ PlaceOf[c] = trip[t].place
      /\ trip[t].requested \in {None, c}
      /\ Becomes(t, [trip[t] EXCEPT !.status = "assigned", !.driver = d, !.company = c,
                                    !.pct = pct[c], !.commission = Percentage(trip[t].fare, pct[c])])
      /\ rate' = [rate EXCEPT ![t] = pct[c]]
      /\ UNCHANGED <<configVars, quotes, quoted>>

(* Mutant: the commission of the driver who gave the trip back stays.      *)
ReopenedOnly(row) == [row EXCEPT !.status = "pending_assignment", !.driver = None, !.company = None]

Reopened(row) ==
  [row EXCEPT !.status = "pending_assignment", !.driver = None, !.company = None,
              !.pct = None, !.commission = 0, !.arrived = FALSE]

GiveBack(t) ==
  /\ Is(t, "assigned")
  /\ Becomes(t, Reopened(trip[t]))
  /\ UNCHANGED <<configVars, quotes, quoted, rate>>

(* A driver says once that he has arrived.                                 *)
MarkArrived(t) ==
  /\ Is(t, "driver_en_route") /\ ~trip[t].arrived
  /\ Becomes(t, [trip[t] EXCEPT !.arrived = TRUE])
  /\ UNCHANGED <<configVars, quotes, quoted, rate>>

Progress(t, to) ==
  /\ to \in {"driver_en_route", "in_progress"}
  /\ trip[t] # None /\ trip[t].status \in SourceStatusesFor(to)
  /\ Becomes(t, [trip[t] EXCEPT !.status = to])
  /\ UNCHANGED <<configVars, quotes, quoted, rate>>

(* An assignment that ends cancelled is not looked at any more.            *)
ClosedRow(row, to) ==
  [row EXCEPT !.status = to,
              !.net = IF to = "completed" THEN row.fare - row.commission ELSE @,
              !.driver = IF AssignmentStatusByTarget(to) = "completed" THEN @ ELSE None]

Close(t, to) ==
  /\ to \in {"completed", "no_show", "cancelled_by_passenger", "cancelled_by_driver"}
  /\ trip[t] # None /\ trip[t].status \in SourceStatusesFor(to)
  /\ to = "no_show" => trip[t].arrived
  /\ to = "cancelled_by_driver" => ~Is(t, "assigned")   \* that is a GiveBack
  /\ Becomes(t, ClosedRow(trip[t], to))
  /\ UNCHANGED <<configVars, quotes, quoted, rate>>

MarkNoDriver(t) ==
  /\ Is(t, "pending_assignment") /\ trip[t].company = None
  /\ Becomes(t, [trip[t] EXCEPT !.status = "no_driver"])
  /\ UNCHANGED <<configVars, quotes, quoted, rate>>

(* The purge of the addresses of finished trips. Its 90 days are not       *)
(* counted: it may come at any time after the end.                         *)
PurgeCoordinates(t) ==
  /\ trip[t] # None /\ trip[t].status \notin ActiveStatus
  /\ ~trip[t].purged
  /\ Becomes(t, [trip[t] EXCEPT !.purged = TRUE])
  /\ UNCHANGED <<configVars, quotes, quoted, rate>>

-----------------------------------------------------------------------------
(* The status of a trip: its row, then the company that has it, then the   *)
(* driver of that company. Whether the driver's phone is shown depends on  *)
(* the status that was read first.                                         *)

(* getActive looks for the trip first.                                     *)
GetActive(h, p) ==
  /\ request[h] = Idle
  /\ \E t \in ActiveTrips(p) : Become(h, [op |-> "row", trip |-> t])
  /\ UNCHANGED <<configVars, quotes, tripVars>>

GetTripRequest(h, t) ==
  /\ request[h] \in {Idle, [op |-> "row", trip |-> t]}
  /\ trip[t] # None
  /\ Become(h, IF trip[t].status \in StatusWithDriver
               THEN [op |-> "info", trip |-> t, contact |-> trip[t].status \in StatusWithContact,
                     seen |-> Driven(trip[t])]
               ELSE Idle)
  /\ UNCHANGED <<configVars, quotes, tripVars>>

(* Nothing is shown of a trip that no company has. A trip whose addresses  *)
(* are purged makes the call fail (Fails).                                 *)
GetTripRequestInfo(h) ==
  LET r == request[h]
  IN  /\ r.op = "info"
      /\ ~trip[r.trip].purged
      /\ Become(h, IF trip[r.trip].company = None THEN Idle
                   ELSE [op |-> "driver", trip |-> r.trip, contact |-> r.contact, seen |-> r.seen,
                         company |-> trip[r.trip].company])
      /\ UNCHANGED <<configVars, quotes, tripVars>>

(* Mutant: any assignment of the trip will do.                             *)
AnyAssigned(t, c) == { d \in Driver : CompanyOf[d] = c }

(* The driver whose assignment to the trip is accepted or completed.       *)
AssignedDriver(t, c) == { d \in Driver : CompanyOf[d] = c /\ trip[t].driver = d }

GetAssignedDriver(h) ==
  LET r == request[h]
  IN  /\ r.op = "driver"
      /\ IF AssignedDriver(r.trip, r.company) = {}
         THEN Become(h, Idle)
         ELSE \E d \in AssignedDriver(r.trip, r.company) :
                Become(h, [op |-> "answered", trip |-> r.trip, contact |-> r.contact,
                           seen |-> r.seen, company |-> r.company, driver |-> d])
      /\ UNCHANGED <<configVars, quotes, tripVars>>

(* rebuildFare: the parts of the price are computed again, and shown if    *)
(* they make up the price.                                                 *)
RebuildFare(row) ==
  LET rebuilt == CalculateFare(FareTable[row.place][row.version], row.at)
  IN  IF rebuilt.total = row.fare THEN rebuilt ELSE LumpSum(row.fare)

-----------------------------------------------------------------------------

Configure ==
  \/ \E m \in Moment : Elapse(m)
  \/ \E pl \in Place : ReviseFare(pl)
  \/ \E c \in Company : SuspendOrRestore(c) \/ \E x \in CommissionPct : ReviseCommission(c, x)

Create(h) ==
  \/ \E p \in Passenger, pl \in Place, requested \in Company \cup {None}, q \in quotes :
       BeginCreate(h, p, pl, requested, q)
  \/ EnsureRequestedCompany(h) \/ FindActiveTripRequest(h)
  \/ \E t \in Trip : CreateTripRequest(h, t)

Look(h) ==
  \/ \E p \in Passenger : GetActive(h, p)
  \/ \E t \in Trip : GetTripRequest(h, t)
  \/ GetTripRequestInfo(h) \/ GetAssignedDriver(h)

Aside ==
  \/ Configure
  \/ \E pl \in Place : GiveQuote(pl)
  \/ \E h \in Handler : Create(h) \/ Look(h) \/ Fails(h)
  \/ \E t \in Trip : PurgeCoordinates(t)

BookingNext ==
  \/ Aside
  \/ \E t \in Trip :
       \/ \E d \in Driver : Take(t, d)
       \/ \E to \in TripStatus : Progress(t, to) \/ Close(t, to)
       \/ GiveBack(t) \/ MarkArrived(t) \/ MarkNoDriver(t)

BookingSpec == BookingInit /\ [][BookingNext]_bookingVars

-----------------------------------------------------------------------------
(* However creations of a passenger overlap, and whatever tokens he uses   *)
(* twice, he has one trip at a time.                                       *)
OneActiveTrip == \A p \in Passenger : Cardinality(ActiveTrips(p)) <= 1

(* The price of a trip is the one quoted for its town and service, though  *)
(* the fare may have been revised since and the night or a holiday have    *)
(* begun or ended; and its parts are shown as they were quoted, or not at  *)
(* all. Two surcharges that change places could make up the same price: it *)
(* takes a QuoteIsShort for that not to happen.                            *)
PriceIsQuoted ==
  \A t \in Trip : trip[t] # None =>
    /\ trip[t].place = quoted[t].place
    /\ trip[t].fare = quoted[t].fare.total
    /\ RebuildFare(trip[t]) \in {quoted[t].fare, LumpSum(trip[t].fare)}

(* A trip owes its commission to the company that has it, at the rate that *)
(* was in force when it took the trip, whatever company had it before and  *)
(* whatever its rate became; what is earned and what is owed make up the   *)
(* price, and a trip nobody has owes nothing.                              *)
CommissionOfTaker ==
  \A t \in Trip : trip[t] # None =>
    LET row == trip[t]
    IN  /\ row.company = None => row.pct = None /\ row.commission = 0
        /\ row.company # None => row.pct = rate[t] /\ row.commission = Percentage(row.fare, rate[t])
        /\ row.status = "completed" <=> row.net # None
        /\ row.status = "completed" => row.net + row.commission = row.fare

(* What the passenger pays was quoted to him, and what his driver's        *)
(* company owes of it was in force when it took the trip.                  *)
MoneyIsAgreed == PriceIsQuoted /\ CommissionOfTaker

(* The driver an answer names had the trip for the company it names at     *)
(* some moment of the call, and his phone is given only if the passenger   *)
(* was to reach him at some moment of it: not to one who has given the     *)
(* trip back before, nor of one who has driven it to its end.              *)
ShownDriverHeld ==
  \A h \in Handler : request[h].op = "answered" =>
    LET r == request[h]
    IN  /\ CompanyOf[r.driver] = r.company
        /\ r.contact => <<r.driver, TRUE>> \in r.seen
        /\ ~r.contact => {<<r.driver, TRUE>>, <<r.driver, FALSE>>} \cap r.seen # {}

=============================================================================
