----------------------------- MODULE TripTaking -----------------------------
(***************************************************************************)
(* The tables trips.trip_request, assignment.assignment and fleet.driver,  *)
(* and the transactions that offer a trip to drivers, let one of them take *)
(* it, carry it through its life and close it.                             *)
(*                                                                         *)
(* The database runs READ COMMITTED: a transaction that first reads a row  *)
(* and then updates under a condition may find the row changed in between. *)
(* A handler of that shape is two steps here: a Begin step for the         *)
(* unlocked read with the refusals it decides, and a step for the rest of  *)
(* the transaction, from its first conditional UPDATE (which locks the     *)
(* row) to the commit. request[h] is what request handler h carries from   *)
(* the first step to the second. Which search makes the offers is not      *)
(* fixed here: any free driver may be offered any trip (see Dispatch).     *)
(***************************************************************************)
EXTENDS TripContracts

CONSTANTS
  Trip, Driver, Company,
  Assignment,        \* identities of rows of assignment.assignment
  Handler,           \* identities of request handlers that may be in flight
  CompanyOf,         \* the company each driver works for
  RequestedCompany,  \* the company each trip is addressed to, or None
  ClientOf,          \* who calls handler h: a driver, or the passenger
  Passenger, None

ASSUME ConstantsAssumption ==
  /\ CompanyOf \in [Driver -> Company]
  /\ RequestedCompany \in [Trip -> Company \cup {None}]
  /\ ClientOf \in [Handler -> Driver \cup {Passenger}]
  /\ Passenger \notin Driver
  /\ None \notin Trip \cup Driver \cup Company \cup Assignment

VARIABLES
  status,     \* trip_request.status; Unrequested before the row exists
  owner,      \* trip_request.company_id
  arrived,    \* trip_request.arrived_at IS NOT NULL
  rowStatus,  \* assignment.status; Unused before the row exists
  rowTrip,    \* assignment.trip_request_id
  rowDriver,  \* assignment.driver_id
  driver,     \* driver.status
  request     \* handlers between their unlocked read and their update

tripVars == <<status, owner, arrived>>
rowVars  == <<rowStatus, rowTrip, rowDriver>>
vars     == <<status, owner, arrived, rowStatus, rowTrip, rowDriver, driver, request>>

Unrequested == "unrequested"
Unused      == "unused"

(* An offer is stored as 'notified' with an expires_at: "notified" here is *)
(* such a row before that moment and "lapsed" the same row after it. The   *)
(* code inserts rows as 'notified' and never as 'created'.                 *)
Notified == { "notified", "lapsed" }
Open     == Notified \cup { "accepted" }
Closed   == { "rejected", "timeout", "cancelled", "completed" }

DriverStatus == { "off_shift", "available", "on_trip" }

DriverOps == { "accept", "reject", "cancel", "en_route", "arrive", "start",
               "complete", "no_show" }

Idle == [op |-> "idle", row |-> None, trip |-> None]

Request ==
  {Idle}
    \cup [op : DriverOps, row : Assignment, trip : {None}]
    \cup [op : {"withdraw"}, row : {None}, trip : Trip]

TypeOK ==
  /\ status \in [Trip -> TripStatus \cup {Unrequested}]
  /\ owner \in [Trip -> Company \cup {None}]
  /\ arrived \in [Trip -> BOOLEAN]
  /\ rowStatus \in [Assignment -> Open \cup Closed \cup {Unused}]
  /\ rowTrip \in [Assignment -> Trip \cup {None}]
  /\ rowDriver \in [Assignment -> Driver \cup {None}]
  /\ driver \in [Driver -> DriverStatus]
  /\ request \in [Handler -> Request]

Init ==
  /\ status = [t \in Trip |-> Unrequested]
  /\ owner = [t \in Trip |-> None]
  /\ arrived = [t \in Trip |-> FALSE]
  /\ rowStatus = [a \in Assignment |-> Unused]
  /\ rowTrip = [a \in Assignment |-> None]
  /\ rowDriver = [a \in Assignment |-> None]
  /\ driver = [d \in Driver |-> "off_shift"]
  /\ request = [h \in Handler |-> Idle]

-----------------------------------------------------------------------------
(* Helpers.                                                                *)

Rows(t) == { a \in Assignment : rowStatus[a] # Unused /\ rowTrip[a] = t }

CompanyOfRow(a) == CompanyOf[rowDriver[a]]

Accepted(t) == { a \in Rows(t) : rowStatus[a] = "accepted" }

(* Row-level security: whether a session of company c sees the row of a    *)
(* held trip t (the case of a pending trip is decided by the guards of     *)
(* Take, which asks for an offer of the same company).                     *)
Visible(t, c) ==
  \/ owner[t] = c
  \/ \E a \in Rows(t) : CompanyOfRow(a) = c /\ rowStatus[a] \in {"accepted", "completed"}

Answered(h) == request' = [request EXCEPT ![h] = Idle]

(* Mutant: the driver is not released.                                     *)
KeepBusy(d) == UNCHANGED driver

(* releaseDriver: a driver without a known location goes off shift.        *)
Release(d) ==
  IF driver[d] = "on_trip"
  THEN \E s \in {"available", "off_shift"} : driver' = [driver EXCEPT ![d] = s]
  ELSE UNCHANGED driver

-----------------------------------------------------------------------------
(* Offers and shifts.                                                      *)

CreateTrip(t) ==
  /\ status[t] = Unrequested
  /\ status' = [status EXCEPT ![t] = "pending_assignment"]
  /\ UNCHANGED <<owner, arrived, rowVars, driver, request>>

(* Mutant: the live offers of the driver are not read again.               *)
OfferUnchecked(t, d, a) ==
  /\ status[t] # Unrequested
  /\ driver[d] = "available"
  /\ rowStatus[a] = Unused
  /\ rowStatus' = [rowStatus EXCEPT ![a] = "notified"]
  /\ rowTrip' = [rowTrip EXCEPT ![a] = t]
  /\ rowDriver' = [rowDriver EXCEPT ![a] = d]
  /\ UNCHANGED <<tripVars, driver, request>>

(* createOfferIfDriverFree: the row of the driver is locked while his      *)
(* offers are read, so the check and the insert are one step. The status   *)
(* of the trip is not read.                                                *)
CreateOffer(t, d, a) ==
  /\ status[t] # Unrequested
  /\ driver[d] = "available"
  /\ \A b \in Assignment : rowDriver[b] = d => rowStatus[b] # "notified"
  /\ rowStatus[a] = Unused
  /\ rowStatus' = [rowStatus EXCEPT ![a] = "notified"]
  /\ rowTrip' = [rowTrip EXCEPT ![a] = t]
  /\ rowDriver' = [rowDriver EXCEPT ![a] = d]
  /\ UNCHANGED <<tripVars, driver, request>>

(* Time passes the expires_at of offer a.                                  *)
OfferLapses(a) ==
  /\ rowStatus[a] = "notified"
  /\ rowStatus' = [rowStatus EXCEPT ![a] = "lapsed"]
  /\ UNCHANGED <<tripVars, rowTrip, rowDriver, driver, request>>

(* Mutant: the update does not ask whether the offer was accepted.         *)
TimeoutAnyway(a) ==
  /\ rowStatus[a] \in {"lapsed", "accepted"}
  /\ rowStatus' = [rowStatus EXCEPT ![a] = "timeout"]
  /\ UNCHANGED <<tripVars, rowTrip, rowDriver, driver, request>>

(* markTimeout, run by a timer armed for the same number of seconds.       *)
MarkTimeout(a) ==
  /\ rowStatus[a] = "lapsed"
  /\ rowStatus' = [rowStatus EXCEPT ![a] = "timeout"]
  /\ UNCHANGED <<tripVars, rowTrip, rowDriver, driver, request>>

(* cancelOffer, run after the passenger cancelled the trip of offer a.     *)
CancelOffer(a) ==
  /\ rowStatus[a] \in Notified
  /\ status[rowTrip[a]] = "cancelled_by_passenger"
  /\ rowStatus' = [rowStatus EXCEPT ![a] = "cancelled"]
  /\ UNCHANGED <<tripVars, rowTrip, rowDriver, driver, request>>

(* markNoDriverIfUnassigned.                                               *)
MarkNoDriver(t) ==
  /\ status[t] = "pending_assignment"
  /\ owner[t] = None
  /\ status' = [status EXCEPT ![t] = "no_driver"]
  /\ UNCHANGED <<owner, arrived, rowVars, driver, request>>

StartShift(d) ==
  /\ driver[d] = "off_shift"
  /\ driver' = [driver EXCEPT ![d] = "available"]
  /\ UNCHANGED <<tripVars, rowVars, request>>

(* Mutant: a driver on a trip may end his shift.                           *)
EndShiftAnyway(d) ==
  /\ driver[d] # "off_shift"
  /\ driver' = [driver EXCEPT ![d] = "off_shift"]
  /\ UNCHANGED <<tripVars, rowVars, request>>

(* endShift, a suspension, a new PIN or a revoked location consent: each   *)
(* takes a free driver out of the search and none touches one on a trip.   *)
EndShift(d) ==
  /\ driver[d] = "available"
  /\ driver' = [driver EXCEPT ![d] = "off_shift"]
  /\ UNCHANGED <<tripVars, rowVars, request>>

-----------------------------------------------------------------------------
(* The unlocked read a handler starts with. Answers it decides without an  *)
(* update (not found, not the driver, expired, wrong status) leave no      *)
(* trace and are not steps.                                                *)

(* Mutant: the owner of a trip may also be a driver who gave it back.      *)
ReadForAny(op) ==
  IF op = "accept" THEN {"notified"} ELSE Open \cup {"cancelled"}

(* The statuses of the assignment a handler goes on with.                  *)
ReadFor(op) ==
  IF op = "accept" THEN {"notified"} ELSE IF op = "reject" THEN Notified ELSE {"accepted"}

BeginDriverOp(h, op, a) ==
  /\ request[h] = Idle
  /\ rowStatus[a] # Unused
  /\ ClientOf[h] = rowDriver[a]
  /\ rowStatus[a] \in ReadFor(op)
  /\ request' = [request EXCEPT ![h] = [op |-> op, row |-> a, trip |-> None]]
  /\ UNCHANGED <<tripVars, rowVars, driver>>

BeginWithdraw(h, t) ==
  /\ request[h] = Idle
  /\ ClientOf[h] = Passenger
  /\ status[t] \in SourceStatusesFor("cancelled_by_passenger")
  /\ request' = [request EXCEPT ![h] = [op |-> "withdraw", row |-> None, trip |-> t]]
  /\ UNCHANGED <<tripVars, rowVars, driver>>

(* The update found no row, or the transaction was rolled back (a broken   *)
(* connection, a deadlock, a timeout): nothing was written.                *)
GiveUp(h) ==
  /\ request[h] # Idle
  /\ Answered(h)
  /\ UNCHANGED <<tripVars, rowVars, driver>>

-----------------------------------------------------------------------------
(* Taking and declining an offer.                                          *)

(* markTripRequestAssigned, takeDriver and markAssignmentAccepted. The     *)
(* expiry of the offer is compared with the start of the transaction, so   *)
(* an offer that lapses after the Begin step still counts. The unique      *)
(* index allows one accepted row per trip.                                 *)
TakeTrip(h) ==
  LET a == request[h].row
      t == rowTrip[a]
      d == rowDriver[a]
      c == CompanyOf[d]
  IN  /\ request[h].op = "accept"
      /\ status[t] = "pending_assignment"
      /\ RequestedCompany[t] \in {None, c}
      /\ rowStatus[a] \in Notified
      /\ driver[d] = "available"
      /\ Accepted(t) = {}
      /\ status' = [status EXCEPT ![t] = "assigned"]
      /\ owner' = [owner EXCEPT ![t] = c]
      /\ driver' = [driver EXCEPT ![d] = "on_trip"]
      /\ rowStatus' = [rowStatus EXCEPT ![a] = "accepted"]
      /\ Answered(h)
      /\ UNCHANGED <<arrived, rowTrip, rowDriver>>

(* markRejected: its row count is ignored, so a rejection that lost to     *)
(* another step on the same row is answered like one that applied.         *)
Reject(h) ==
  LET a == request[h].row
  IN  /\ request[h].op = "reject"
      /\ rowStatus' = [rowStatus EXCEPT ![a] = IF @ \in Notified THEN "rejected" ELSE @]
      /\ Answered(h)
      /\ UNCHANGED <<tripVars, rowTrip, rowDriver, driver>>

-----------------------------------------------------------------------------
(* Closing: closeTripInTx. The open rows of the trip and company (and of   *)
(* the drivers in "by") take their final status, and the driver of ONE of  *)
(* the rows the UPDATE returned is released. A second completed row of a   *)
(* trip violates a unique index and undoes the whole transaction.          *)

CloseRows(t, c, to, by) ==
  LET closing == { a \in Rows(t) : /\ rowStatus[a] \in Open
                                   /\ rowDriver[a] \in by
                                   /\ CompanyOfRow(a) = c }
      final   == AssignmentStatusByTarget(to)
  IN  /\ final = "completed" =>
           /\ \A a, b \in closing : a = b
           /\ \A a \in closing, b \in Rows(t) : rowStatus[b] # "completed"
      /\ rowStatus' = [a \in Assignment |-> IF a \in closing THEN final ELSE rowStatus[a]]
      /\ \/ closing = {} /\ UNCHANGED driver
         \/ \E first \in closing : Release(rowDriver[first])

(* The update of the trip, or the idempotent answer when it is already in  *)
(* the status asked for; the rows are closed in both cases.                *)
CloseTrip(t, to) ==
  /\ status[t] \in SourceStatusesFor(to) \cup {to}
  /\ status' = [status EXCEPT ![t] = to]
  /\ UNCHANGED <<owner, arrived, rowTrip, rowDriver>>

Complete(h) ==
  LET a == request[h].row
      t == rowTrip[a]
      d == rowDriver[a]
  IN  /\ request[h].op = "complete"
      /\ Visible(t, CompanyOf[d])
      /\ CloseTrip(t, "completed")
      /\ CloseRows(t, CompanyOf[d], "completed", {d})
      /\ Answered(h)

(* The grace after the arrival is over or not: GiveUp is the second case.  *)
DeclareNoShow(h) ==
  LET a == request[h].row
      t == rowTrip[a]
      d == rowDriver[a]
  IN  /\ request[h].op = "no_show"
      /\ Visible(t, CompanyOf[d])
      /\ arrived[t]
      /\ CloseTrip(t, "no_show")
      /\ CloseRows(t, CompanyOf[d], "no_show", {d})
      /\ Answered(h)

(* closePassengerTrip: the trip is locked before anything is read, and the *)
(* session takes the tenant of its company; a trip without one closes      *)
(* alone.                                                                  *)
CancelByPassenger(h) ==
  LET t == request[h].trip
  IN  /\ request[h].op = "withdraw"
      /\ CloseTrip(t, "cancelled_by_passenger")
      /\ IF owner[t] = None
         THEN UNCHANGED <<rowStatus, driver>>
         ELSE CloseRows(t, owner[t], "cancelled_by_passenger", Driver)
      /\ Answered(h)

(* cancelByDriver: a trip still 'assigned' goes back to the search, a      *)
(* later one is closed. Neither update names the assignment that was read. *)
Reopen(h) ==
  LET a == request[h].row
      t == rowTrip[a]
      d == rowDriver[a]
  IN  /\ request[h].op = "cancel"
      /\ Visible(t, CompanyOf[d])
      /\ status[t] = "assigned"
      /\ status' = [status EXCEPT ![t] = "pending_assignment"]
      /\ owner' = [owner EXCEPT ![t] = None]
      /\ arrived' = [arrived EXCEPT ![t] = FALSE]
      /\ rowStatus' = [rowStatus EXCEPT ![a] = IF @ = "accepted" THEN "cancelled" ELSE @]
      /\ Release(d)
      /\ Answered(h)
      /\ UNCHANGED <<rowTrip, rowDriver>>

CloseByDriver(h) ==
  LET a == request[h].row
      t == rowTrip[a]
      d == rowDriver[a]
  IN  /\ request[h].op = "cancel"
      /\ Visible(t, CompanyOf[d])
      /\ status[t] # "assigned"
      /\ CloseTrip(t, "cancelled_by_driver")
      /\ CloseRows(t, CompanyOf[d], "cancelled_by_driver", {d})
      /\ Answered(h)

-----------------------------------------------------------------------------
(* The ride. The ownership of the trip was read in the Begin step; the     *)
(* updates ask only for the status of the trip.                            *)

Advance(h, op, from, to) ==
  LET t == rowTrip[request[h].row]
  IN  /\ request[h].op = op
      /\ Visible(t, CompanyOf[rowDriver[request[h].row]])
      /\ status[t] = from
      /\ status' = [status EXCEPT ![t] = to]
      /\ Answered(h)
      /\ UNCHANGED <<owner, arrived, rowVars, driver>>

MarkEnRoute(h) == Advance(h, "en_route", "assigned", "driver_en_route")

(* startWithCode, when the code matches.                                   *)
MarkStarted(h) == Advance(h, "start", "driver_en_route", "in_progress")

MarkArrived(h) ==
  LET t == rowTrip[request[h].row]
  IN  /\ request[h].op = "arrive"
      /\ Visible(t, CompanyOf[rowDriver[request[h].row]])
      /\ status[t] = "driver_en_route"
      /\ ~arrived[t]
      /\ arrived' = [arrived EXCEPT ![t] = TRUE]
      /\ Answered(h)
      /\ UNCHANGED <<status, owner, rowVars, driver>>

-----------------------------------------------------------------------------

Finish(h) ==
  \/ TakeTrip(h) \/ Reject(h) \/ Reopen(h) \/ CloseByDriver(h)
  \/ MarkEnRoute(h) \/ MarkArrived(h) \/ MarkStarted(h) \/ Complete(h) \/ DeclareNoShow(h)
  \/ CancelByPassenger(h)

(* Everything but the making of offers.                                    *)
Respond ==
  \/ \E t \in Trip : CreateTrip(t) \/ MarkNoDriver(t)
  \/ \E a \in Assignment : OfferLapses(a) \/ MarkTimeout(a) \/ CancelOffer(a)
  \/ \E d \in Driver : StartShift(d) \/ EndShift(d)
  \/ \E h \in Handler, a \in Assignment, op \in DriverOps : BeginDriverOp(h, op, a)
  \/ \E h \in Handler, t \in Trip : BeginWithdraw(h, t)
  \/ \E h \in Handler : GiveUp(h) \/ Finish(h)

Next ==
  \/ \E t \in Trip, d \in Driver, a \in Assignment : CreateOffer(t, d, a)
  \/ Respond

Spec == Init /\ [][Next]_vars

(* The offers the search means to make: one at a time for a trip, and none *)
(* for a trip that was ever handed to a company and is not back.           *)
Undisputed(t) ==
  /\ owner[t] = None
  /\ \A a \in Rows(t) : rowStatus[a] \notin Open

NextSequential ==
  \/ \E t \in Trip, d \in Driver, a \in Assignment : Undisputed(t) /\ CreateOffer(t, d, a)
  \/ Respond

SpecSequential == Init /\ [][NextSequential]_vars

-----------------------------------------------------------------------------
(* Properties.                                                             *)

(* Each driver has one request in flight at a time; passengers may have    *)
(* any number.                                                             *)
OneRequestPerDriver ==
  \A g, h \in Handler : ClientOf[g] = ClientOf[h] /\ ClientOf[g] \in Driver => g = h

(* The single take: a held trip has exactly one accepted assignment, of    *)
(* the company written on the trip, and no other trip has any, whichever   *)
(* accepts, cancellations, timeouts and closings overlap.                  *)
HeldByOne ==
  \A t \in Trip :
    /\ \A a, b \in Accepted(t) : a = b
    /\ \A a \in Accepted(t) : status[t] \in HeldStatus /\ owner[t] = CompanyOfRow(a)
    /\ status[t] \in HeldStatus => Accepted(t) # {}

(* A trip in the search, or one the search gave up, belongs to no company: *)
(* a cancelled acceptance leaves nothing of the first company behind.      *)
SearchedIsUnowned ==
  \A t \in Trip : status[t] \in {Unrequested, "pending_assignment", "no_driver"} => owner[t] = None

(* Two searches never hold a live offer for the same driver.               *)
OneLiveOffer ==
  \A a, b \in Assignment :
    rowStatus[a] = "notified" /\ rowStatus[b] = "notified" /\ rowDriver[a] = rowDriver[b] => a = b

(* A driver is marked on a trip exactly while he has an accepted           *)
(* assignment, and he never has two: nobody drives two trips, and nobody   *)
(* is left marked busy with no trip to finish.                             *)
BusyIffAccepted ==
  \A d \in Driver :
    LET mine == { a \in Assignment : rowStatus[a] = "accepted" /\ rowDriver[a] = d }
    IN  /\ driver[d] = "on_trip" <=> mine # {}
        /\ \A a, b \in mine : a = b

(* An answered offer and a finished assignment are final: no late timer,   *)
(* rejection, acceptance or closing changes them again.                    *)
ClosedForGood ==
  [][\A a \in Assignment : rowStatus[a] \in Closed => rowStatus'[a] = rowStatus[a]]_vars

(* Every change of a trip is a transition of the shared contract.          *)
TripStepsByContract ==
  [][\A t \in Trip : \/ status'[t] = status[t]
                     \/ <<status[t], status'[t]>> \in TripTransitions
                     \/ status[t] = Unrequested]_vars

(* Only the passenger and the driver who holds the trip at that moment     *)
(* move a held trip: a former holder cannot.                               *)
OnlyHolderMoves ==
  [][\A t \in Trip :
       status[t] \in HeldStatus /\ status'[t] # status[t] =>
         \E h \in Handler :
           /\ request[h] # Idle /\ request'[h] = Idle
           /\ request[h].row \in Accepted(t) \/ request[h].trip = t]_vars

(* The status as the column holds it.                                      *)
Stored(s) == IF s \in Notified THEN "notified" ELSE s

(* Every change of an assignment is a transition of the shared contract.   *)
RowStepsByContract ==
  [][\A a \in Assignment :
       \/ Stored(rowStatus'[a]) = Stored(rowStatus[a])
       \/ <<Stored(rowStatus[a]), Stored(rowStatus'[a])>> \in AssignmentTransitions
       \/ rowStatus[a] = Unused]_vars

-----------------------------------------------------------------------------
(* The abstract view: the phase of a trip is read off its status, and its  *)
(* holder off its accepted assignment.                                     *)

PhaseOf(t) ==
  IF status[t] = Unrequested THEN "none"
  ELSE IF status[t] = "pending_assignment" THEN "open"
  ELSE IF status[t] \in HeldStatus THEN "held" ELSE "closed"

HolderOf(t) ==
  IF Accepted(t) = {} THEN None ELSE rowDriver[CHOOSE a \in Accepted(t) : TRUE]

Holding == INSTANCE TripHolding WITH
  phase  <- [t \in Trip |-> PhaseOf(t)],
  holder <- [t \in Trip |-> HolderOf(t)]

(* The tables implement the abstract taking of trips: trips change hands   *)
(* only through the open phase, each step moves one trip, and a driver who *)
(* holds a trip takes no other.                                            *)
ImplementsHolding == Holding!Spec

=============================================================================
