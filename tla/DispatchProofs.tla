--------------------------- MODULE DispatchProofs ---------------------------
(***************************************************************************)
(* Proofs about TripTaking and Dispatch, for any number of trips, drivers, *)
(* companies, assignments, handlers, searches and calls under way. Of the  *)
(* tables: the single take; and, where offers for a trip are made one at a *)
(* time (SpecSequential), that drivers are busy exactly while they hold a  *)
(* trip and that the tables implement TripHolding. Of the search: that it  *)
(* changes the tables only in the ways TripTaking allows, and that no trip *)
(* is ever stranded.                                                       *)
(***************************************************************************)
EXTENDS Dispatch, TLAPS

(* The requests of a driver that start from his accepted assignment.       *)
RideOps == DriverOps \ {"accept", "reject"}

(* A request of a driver carries an assignment, one of a passenger a trip. *)
LEMMA RequestShape ==
  ASSUME TypeOK, NEW h \in Handler
  PROVE  /\ request[h].op \in DriverOps => request[h].row \in Assignment
         /\ request[h].op = "withdraw" => request[h].trip \in Trip
BY DEF TypeOK, Request, Idle, DriverOps

(* A row that exists names its trip and its driver.                        *)
RowsFilled ==
  \A a \in Assignment :
    rowStatus[a] # Unused => rowTrip[a] \in Trip /\ rowDriver[a] \in Driver

LEMMA CloseRowsType ==
  ASSUME TypeOK, NEW t, NEW c, NEW to, NEW by, CloseRows(t, c, to, by)
  PROVE  /\ rowStatus' \in [Assignment -> Open \cup Closed \cup {Unused}]
         /\ driver' \in [Driver -> DriverStatus]
BY DEF TypeOK, CloseRows, Release, DriverStatus, AssignmentStatusByTarget, Closed

(* Every request handler leaves well-typed tables behind.                  *)
LEMMA FinishType ==
  ASSUME TypeOK, RowsFilled, NEW h \in Handler, Finish(h)
  PROVE  TypeOK'
<1> USE DEF Answered
<1>0. /\ request[h].op \in DriverOps => request[h].row \in Assignment
      /\ request[h].op = "withdraw" => request[h].trip \in Trip
  BY RequestShape
<1>1. CASE TakeTrip(h)
  <2> DEFINE a == request[h].row
  <2>1. a \in Assignment /\ rowTrip[a] \in Trip /\ rowDriver[a] \in Driver
    BY <1>0, <1>1 DEF TakeTrip, RowsFilled, DriverOps, Notified, Unused
  <2> QED
    BY <1>1, <2>1, ConstantsAssumption
    DEF TakeTrip, TypeOK, Request, DriverStatus, TripStatus, Open
<1>2. CASE Reject(h)
  BY <1>0, <1>2 DEF Reject, TypeOK, Request, Closed, tripVars
<1>3. CASE Reopen(h)
  BY <1>0, <1>3 DEF Reopen, Release, TypeOK, Request, Closed, DriverStatus, TripStatus
<1>4. CASE CloseByDriver(h)
  BY <1>0, <1>4, CloseRowsType DEF CloseByDriver, CloseTrip, TypeOK, Request, TripStatus
<1>5. CASE MarkEnRoute(h)
  BY <1>0, <1>5 DEF MarkEnRoute, Advance, TypeOK, Request, TripStatus, vars, rowVars
<1>6. CASE MarkArrived(h)
  BY <1>0, <1>6 DEF MarkArrived, TypeOK, Request, rowVars
<1>7. CASE MarkStarted(h)
  BY <1>0, <1>7 DEF MarkStarted, Advance, TypeOK, Request, TripStatus, rowVars
<1>8. CASE Complete(h)
  BY <1>0, <1>8, CloseRowsType DEF Complete, CloseTrip, TypeOK, Request, TripStatus
<1>9. CASE DeclareNoShow(h)
  BY <1>0, <1>9, CloseRowsType DEF DeclareNoShow, CloseTrip, TypeOK, Request, TripStatus
<1>10. CASE CancelByPassenger(h)
  BY <1>0, <1>10, CloseRowsType DEF CancelByPassenger, CloseTrip, TypeOK, Request, TripStatus
<1> QED
  BY <1>1, <1>2, <1>3, <1>4, <1>5, <1>6, <1>7, <1>8, <1>9, <1>10 DEF Finish

LEMMA TypeStep ==
  ASSUME TypeOK, RowsFilled, [Next]_vars
  PROVE  TypeOK'
<1>1. CASE \E t \in Trip, d \in Driver, a \in Assignment : CreateOffer(t, d, a)
  BY <1>1 DEF CreateOffer, TypeOK, Open, Notified, tripVars
<1>2. CASE \E t \in Trip : CreateTrip(t) \/ MarkNoDriver(t)
  BY <1>2 DEF CreateTrip, MarkNoDriver, TypeOK, TripStatus, rowVars
<1>3. CASE \E a \in Assignment : OfferLapses(a) \/ MarkTimeout(a) \/ CancelOffer(a)
  BY <1>3 DEF OfferLapses, MarkTimeout, CancelOffer, TypeOK, Open, Closed, Notified, tripVars
<1>4. CASE \E d \in Driver : StartShift(d) \/ EndShift(d)
  BY <1>4 DEF StartShift, EndShift, TypeOK, DriverStatus, tripVars, rowVars
<1>5. CASE \E h \in Handler, a \in Assignment, op \in DriverOps : BeginDriverOp(h, op, a)
  BY <1>5 DEF BeginDriverOp, TypeOK, Request, tripVars, rowVars
<1>6. CASE \E h \in Handler, t \in Trip : BeginWithdraw(h, t)
  BY <1>6 DEF BeginWithdraw, TypeOK, Request, tripVars, rowVars
<1>7. CASE \E h \in Handler : GiveUp(h)
  BY <1>7 DEF GiveUp, Answered, TypeOK, Request, tripVars, rowVars
<1>8. CASE \E h \in Handler : Finish(h)
  BY <1>8, FinishType
<1>9. CASE UNCHANGED vars
  BY <1>9 DEF vars, TypeOK
<1> QED
  BY <1>1, <1>2, <1>3, <1>4, <1>5, <1>6, <1>7, <1>8, <1>9 DEF Next, Respond

-----------------------------------------------------------------------------
(* The identity of a row never changes once it exists, and a new row names *)
(* a trip and a driver.                                                    *)
SameRow(a) ==
  IF rowStatus[a] = Unused
  THEN rowStatus'[a] # Unused => rowTrip'[a] \in Trip /\ rowDriver'[a] \in Driver
  ELSE rowStatus'[a] # Unused /\ rowTrip'[a] = rowTrip[a] /\ rowDriver'[a] = rowDriver[a]

LEMMA FinishSameRow ==
  ASSUME TypeOK, NEW h \in Handler, Finish(h), NEW a \in Assignment
  PROVE  /\ rowTrip' = rowTrip /\ rowDriver' = rowDriver
         /\ rowStatus'[a] = Unused <=> rowStatus[a] = Unused
<1>0. /\ request[h].op \in DriverOps => request[h].row \in Assignment
      /\ request[h].op = "withdraw" => request[h].trip \in Trip
  BY RequestShape
<1> USE DEF Unused
<1>1. CASE TakeTrip(h) \/ Reject(h) \/ Reopen(h)
  BY <1>0, <1>1 DEF TakeTrip, Reject, Reopen, TypeOK, Notified
<1>2. CASE MarkEnRoute(h) \/ MarkArrived(h) \/ MarkStarted(h)
  BY <1>2 DEF MarkEnRoute, MarkArrived, MarkStarted, Advance, rowVars
<1>3. CASE CloseByDriver(h) \/ Complete(h) \/ DeclareNoShow(h) \/ CancelByPassenger(h)
  BY <1>3 DEF CloseByDriver, Complete, DeclareNoShow, CancelByPassenger, CloseTrip, CloseRows,
              Rows, AssignmentStatusByTarget
<1> QED
  BY <1>1, <1>2, <1>3 DEF Finish

LEMMA RowIdentity ==
  ASSUME TypeOK, [Next]_vars, NEW a \in Assignment
  PROVE  SameRow(a)
<1> USE DEF SameRow
<1>1. CASE \E t \in Trip, d \in Driver, b \in Assignment : CreateOffer(t, d, b)
  BY <1>1 DEF CreateOffer, TypeOK, Unused
<1>2. CASE \E b \in Assignment : OfferLapses(b) \/ MarkTimeout(b) \/ CancelOffer(b)
  BY <1>2 DEF OfferLapses, MarkTimeout, CancelOffer, TypeOK, Unused, Notified
<1>3. CASE \E h \in Handler : Finish(h)
  BY <1>3, FinishSameRow
<1>4. CASE UNCHANGED rowVars
  BY <1>4 DEF rowVars
<1> QED
  BY <1>1, <1>2, <1>3, <1>4
  DEF Next, Respond, CreateTrip, MarkNoDriver, StartShift, EndShift, BeginDriverOp, BeginWithdraw,
      GiveUp, vars, rowVars

(* Type correctness: every reachable state of the tables is well typed,    *)
(* and every row that exists names a trip and a driver.                    *)
THEOREM TypeCorrect == Spec => [](TypeOK /\ RowsFilled)
<1>1. Init => TypeOK /\ RowsFilled
  BY DEF Init, TypeOK, RowsFilled, Request, DriverStatus
<1>2. TypeOK /\ RowsFilled /\ [Next]_vars => (TypeOK /\ RowsFilled)'
  BY TypeStep, RowIdentity DEF SameRow, RowsFilled
<1> QED
  BY <1>1, <1>2, PTL DEF Spec

-----------------------------------------------------------------------------
(* The requests in flight. The row a driver's request carries is his own;  *)
(* between the read and the update of a request about an accepted row,     *)
(* only the passenger can have taken the trip away.                        *)

RequestsOwned ==
  \A h \in Handler : request[h].op \in DriverOps =>
    /\ rowStatus[request[h].row] # Unused
    /\ ClientOf[h] = rowDriver[request[h].row]

RideInFlight ==
  \A h \in Handler : request[h].op \in RideOps =>
    \/ rowStatus[request[h].row] = "accepted"
    \/ status[rowTrip[request[h].row]] = "cancelled_by_passenger"

Sound == TypeOK /\ RowsFilled /\ RequestsOwned

(* A request in flight after a step was in flight before it or is new.     *)
LEMMA RequestOrigin ==
  ASSUME TypeOK, [Next]_vars, NEW h \in Handler, request'[h].op \in DriverOps
  PROVE  \/ request'[h] = request[h]
         \/ \E a \in Assignment, op \in DriverOps :
              BeginDriverOp(h, op, a) /\ request'[h] = [op |-> op, row |-> a, trip |-> None]
<1>1. CASE \E g \in Handler, a \in Assignment, op \in DriverOps : BeginDriverOp(g, op, a)
  <2>1. PICK g \in Handler, a \in Assignment, op \in DriverOps : BeginDriverOp(g, op, a)
    BY <1>1
  <2>2. request' = [request EXCEPT ![g] = [op |-> op, row |-> a, trip |-> None]]
    BY <2>1 DEF BeginDriverOp
  <2>3. CASE g = h
    BY <2>1, <2>2, <2>3 DEF TypeOK
  <2>4. CASE g # h
    BY <2>2, <2>4 DEF TypeOK
  <2> QED
    BY <2>3, <2>4
<1>2. CASE \E g \in Handler, t \in Trip : BeginWithdraw(g, t)
  BY <1>2 DEF BeginWithdraw, TypeOK, DriverOps
<1>3. CASE \E g \in Handler : Answered(g)
  BY <1>3 DEF Answered, TypeOK, Idle, DriverOps
<1>4. CASE UNCHANGED request
  BY <1>4
<1> QED
  BY <1>1, <1>2, <1>3, <1>4
  DEF Next, Respond, Finish, CreateOffer, CreateTrip, MarkNoDriver, OfferLapses, MarkTimeout,
      CancelOffer, StartShift, EndShift, GiveUp, TakeTrip, Reject, Reopen, CloseByDriver,
      MarkEnRoute, MarkArrived, MarkStarted, Advance, Complete, DeclareNoShow, CancelByPassenger,
      vars

LEMMA SoundStep ==
  ASSUME Sound, [Next]_vars
  PROVE  Sound'
<1>1. TypeOK' /\ RowsFilled'
  BY TypeStep, RowIdentity DEF Sound, SameRow, RowsFilled
<1>2. RequestsOwned'
  <2> SUFFICES ASSUME NEW h \in Handler, request'[h].op \in DriverOps
               PROVE  /\ rowStatus'[request'[h].row] # Unused
                      /\ ClientOf[h] = rowDriver'[request'[h].row]
    BY DEF RequestsOwned
  <2>1. CASE request'[h] = request[h]
    BY <2>1, RequestShape, RowIdentity DEF Sound, SameRow, RequestsOwned
  <2>2. CASE \E a \in Assignment, op \in DriverOps :
               BeginDriverOp(h, op, a) /\ request'[h] = [op |-> op, row |-> a, trip |-> None]
    BY <2>2 DEF BeginDriverOp, rowVars
  <2> QED
    BY <2>1, <2>2, RequestOrigin DEF Sound
<1> QED
  BY <1>1, <1>2 DEF Sound

(* What a handler of the ride finds: its row is the driver's, and the      *)
(* row's trip and driver are known.                                        *)
LEMMA RequestFacts ==
  ASSUME Sound, NEW h \in Handler, request[h].op \in DriverOps
  PROVE  /\ request[h].row \in Assignment
         /\ rowTrip[request[h].row] \in Trip
         /\ rowDriver[request[h].row] \in Driver
         /\ ClientOf[h] = rowDriver[request[h].row]
BY RequestShape DEF Sound, RowsFilled, RequestsOwned

(* A trip cancelled by its passenger stays so.                             *)
LEMMA WithdrawnIsFinal ==
  ASSUME Sound, [Next]_vars, NEW t \in Trip, status[t] = "cancelled_by_passenger"
  PROVE  status'[t] = "cancelled_by_passenger"
<1>1. CASE \E u \in Trip : CreateTrip(u) \/ MarkNoDriver(u)
  BY <1>1 DEF CreateTrip, MarkNoDriver, Sound, TypeOK, Unrequested
<1>2. CASE \E h \in Handler : TakeTrip(h) \/ Reopen(h) \/ MarkEnRoute(h) \/ MarkStarted(h)
  BY <1>2 DEF TakeTrip, Reopen, MarkEnRoute, MarkStarted, Advance, Sound, TypeOK
<1>3. CASE \E h \in Handler : CloseByDriver(h) \/ Complete(h) \/ DeclareNoShow(h) \/ CancelByPassenger(h)
  <2>1. \A u, to : /\ CloseTrip(u, to)
                   /\ to \in {"cancelled_by_driver", "completed", "no_show", "cancelled_by_passenger"}
                   => status'[t] = "cancelled_by_passenger"
    BY DEF CloseTrip, SourceStatusesFor, TripTransitions, Sound, TypeOK
  <2> QED
    BY <1>3, <2>1 DEF CloseByDriver, Complete, DeclareNoShow, CancelByPassenger
<1>4. CASE UNCHANGED status
  BY <1>4
<1> QED
  BY <1>1, <1>2, <1>3, <1>4
  DEF Next, Respond, Finish, CreateOffer, OfferLapses, MarkTimeout, CancelOffer, StartShift, EndShift,
      BeginDriverOp, BeginWithdraw, GiveUp, Reject, MarkArrived, vars, tripVars

-----------------------------------------------------------------------------
(* The single take.                                                        *)

(* An accepted row is left only by a request of its own driver, or with a  *)
(* cancellation by the passenger.                                          *)
LEMMA AcceptedIsKept ==
  ASSUME Sound, [Next]_vars, NEW a \in Assignment,
         rowStatus[a] = "accepted", rowStatus'[a] # "accepted"
  PROVE  \/ status'[rowTrip[a]] = "cancelled_by_passenger"
         \/ \E h \in Handler : /\ request[h].op \in RideOps /\ request'[h] = Idle
                               /\ ClientOf[h] = rowDriver[a]
<1>0. rowTrip[a] \in Trip
  BY DEF Sound, RowsFilled, Unused
<1>1. CASE \E h \in Handler : Finish(h)
  <2>1. PICK h \in Handler : Finish(h)
    BY <1>1
  <2>2. request' = [request EXCEPT ![h] = Idle] /\ request'[h] = Idle
    BY <2>1 DEF Finish, TakeTrip, Reject, Reopen, CloseByDriver, MarkEnRoute, MarkArrived, MarkStarted,
                Advance, Complete, DeclareNoShow, CancelByPassenger, Answered, Sound, TypeOK
  <2>3. CASE TakeTrip(h) \/ Reject(h) \/ MarkEnRoute(h) \/ MarkArrived(h) \/ MarkStarted(h)
    BY <2>3 DEF TakeTrip, Reject, MarkEnRoute, MarkArrived, MarkStarted, Advance, rowVars, Sound, TypeOK,
                Notified
  <2>4. CASE Reopen(h)
    <3>1. a = request[h].row
      BY <2>4 DEF Reopen, Sound, TypeOK
    <3> QED
      BY <2>2, <2>4, <3>1, RequestFacts DEF Reopen, RideOps, DriverOps
  <2>5. CASE CloseByDriver(h) \/ Complete(h) \/ DeclareNoShow(h)
    <3>1. rowDriver[a] = rowDriver[request[h].row]
      BY <2>5 DEF CloseByDriver, Complete, DeclareNoShow, CloseRows
    <3> QED
      BY <2>2, <2>5, <3>1, RequestFacts DEF CloseByDriver, Complete, DeclareNoShow, RideOps, DriverOps
  <2>6. CASE CancelByPassenger(h)
    <3>1. rowTrip[a] = request[h].trip
      BY <2>6 DEF CancelByPassenger, CloseRows, Rows
    <3> QED
      BY <1>0, <2>6, <3>1 DEF CancelByPassenger, CloseTrip, Sound, TypeOK
  <2> QED
    BY <2>1, <2>3, <2>4, <2>5, <2>6 DEF Finish
<1>2. CASE \E t \in Trip, d \in Driver, b \in Assignment : CreateOffer(t, d, b)
  BY <1>2 DEF CreateOffer, Sound, TypeOK, Unused
<1>3. CASE \E b \in Assignment : OfferLapses(b) \/ MarkTimeout(b) \/ CancelOffer(b)
  BY <1>3 DEF OfferLapses, MarkTimeout, CancelOffer, Sound, TypeOK, Notified
<1>4. CASE UNCHANGED rowVars
  BY <1>4 DEF rowVars
<1> QED
  BY <1>1, <1>2, <1>3, <1>4
  DEF Next, Respond, CreateTrip, MarkNoDriver, StartShift, EndShift, BeginDriverOp, BeginWithdraw,
      GiveUp, vars, rowVars

LEMMA RideInFlightStep ==
  ASSUME Sound, RideInFlight, OneRequestPerDriver, [Next]_vars
  PROVE  RideInFlight'
<1> SUFFICES ASSUME NEW h \in Handler, request'[h].op \in RideOps
             PROVE  \/ rowStatus'[request'[h].row] = "accepted"
                    \/ status'[rowTrip'[request'[h].row]] = "cancelled_by_passenger"
  BY DEF RideInFlight
<1>1. CASE \E a \in Assignment, op \in DriverOps :
             BeginDriverOp(h, op, a) /\ request'[h] = [op |-> op, row |-> a, trip |-> None]
  BY <1>1 DEF BeginDriverOp, ReadFor, RideOps, rowVars
<1>2. CASE request'[h] = request[h]
  <2> DEFINE a == request[h].row
  <2>1. request[h].op \in DriverOps
    BY <1>2 DEF RideOps
  <2>2. /\ a \in Assignment /\ rowTrip[a] \in Trip /\ rowDriver[a] \in Driver
        /\ ClientOf[h] = rowDriver[a]
    BY <2>1, RequestFacts
  <2>3. rowTrip'[a] = rowTrip[a]
    BY <2>1, <2>2, RowIdentity DEF SameRow, Sound, RequestsOwned
  <2>4. CASE status[rowTrip[a]] = "cancelled_by_passenger"
    BY <1>2, <2>2, <2>3, <2>4, WithdrawnIsFinal
  <2>5. CASE rowStatus[a] = "accepted" /\ rowStatus'[a] # "accepted"
    <3>1. \A g \in Handler : ClientOf[g] = rowDriver[a] => g = h
      BY <2>2 DEF OneRequestPerDriver
    <3>2. ~ \E g \in Handler : /\ request[g].op \in RideOps /\ request'[g] = Idle
                               /\ ClientOf[g] = rowDriver[a]
      BY <1>2, <3>1 DEF Idle, RideOps, DriverOps
    <3> QED
      BY <1>2, <2>2, <2>3, <2>5, <3>2, AcceptedIsKept
  <2> QED
    BY <1>2, <2>4, <2>5 DEF RideInFlight
<1> QED
  BY <1>1, <1>2, RequestOrigin DEF RideOps, Sound

(* A request of the ride that still finds its trip uncancelled holds it.   *)
LEMMA RiderHolds ==
  ASSUME Sound, RideInFlight, HeldByOne, NEW h \in Handler, request[h].op \in RideOps,
         status[rowTrip[request[h].row]] # "cancelled_by_passenger"
  PROVE  /\ rowStatus[request[h].row] = "accepted"
         /\ \A b \in Assignment :
              rowStatus[b] = "accepted" /\ rowTrip[b] = rowTrip[request[h].row] => b = request[h].row
         /\ status[rowTrip[request[h].row]] \in HeldStatus
         /\ owner[rowTrip[request[h].row]] = CompanyOf[rowDriver[request[h].row]]
<1>1. request[h].row \in Assignment /\ rowTrip[request[h].row] \in Trip
  BY RequestFacts DEF RideOps
<1> QED
  BY <1>1 DEF RideInFlight, HeldByOne, Accepted, Rows, Unused, CompanyOfRow

(* A step that moves no trip into or out of the held statuses, and no row  *)
(* into or out of 'accepted', keeps every trip with its holder.            *)
LEMMA CalmStep ==
  ASSUME Sound, [Next]_vars, HeldByOne, owner' = owner,
         \A t \in Trip : status'[t] \in HeldStatus <=> status[t] \in HeldStatus,
         \A a \in Assignment : rowStatus'[a] = "accepted" <=> rowStatus[a] = "accepted"
  PROVE  HeldByOne'
<1>1. \A a \in Assignment : rowStatus[a] = "accepted" =>
        rowTrip'[a] = rowTrip[a] /\ rowDriver'[a] = rowDriver[a]
  BY RowIdentity DEF SameRow, Sound, Unused
<1>2. \A t : Accepted(t)' = Accepted(t)
  BY <1>1 DEF Accepted, Rows, Unused
<1>3. \A u \in Trip : \A a \in Accepted(u) : CompanyOfRow(a)' = CompanyOfRow(a)
  BY <1>1 DEF Accepted, Rows, CompanyOfRow
<1> QED
  BY <1>2, <1>3 DEF HeldByOne

(* A step that takes trip t out of the held statuses together with all its *)
(* accepted rows, and touches no accepted row of another trip.             *)
LEMMA LeavingStep ==
  ASSUME Sound, [Next]_vars, HeldByOne, NEW t \in Trip,
         status'[t] \notin HeldStatus,
         \A u \in Trip : u # t => status'[u] = status[u] /\ owner'[u] = owner[u],
         \A a \in Assignment : rowStatus'[a] = "accepted" => rowStatus[a] = "accepted" /\ rowTrip[a] # t,
         \A a \in Assignment : rowTrip[a] # t => rowStatus'[a] = rowStatus[a]
  PROVE  HeldByOne'
<1>1. \A a \in Assignment : rowStatus[a] = "accepted" =>
        rowTrip'[a] = rowTrip[a] /\ rowDriver'[a] = rowDriver[a]
  BY RowIdentity DEF SameRow, Sound, Unused
<1>2. \A u \in Trip : Accepted(u)' = IF u = t THEN {} ELSE Accepted(u)
  BY <1>1 DEF Accepted, Rows, Unused
<1>3. \A u \in Trip : \A a \in Accepted(u) : CompanyOfRow(a)' = CompanyOfRow(a)
  BY <1>1 DEF Accepted, Rows, CompanyOfRow
<1> QED
  BY <1>2, <1>3 DEF HeldByOne

LEMMA FinishHeld ==
  ASSUME Sound, RideInFlight, HeldByOne, [Next]_vars, NEW h \in Handler, Finish(h)
  PROVE  HeldByOne'
<1> DEFINE a == request[h].row
           t == rowTrip[a]
           d == rowDriver[a]
<1>0. request[h].op \in DriverOps => /\ a \in Assignment /\ t \in Trip /\ d \in Driver
                                     /\ CompanyOf[d] \in Company
  BY RequestFacts, ConstantsAssumption
<1>1. CASE TakeTrip(h)
  <2>1. a \in Assignment /\ t \in Trip /\ d \in Driver
    BY <1>0, <1>1 DEF TakeTrip, DriverOps
  <2>2. /\ status' = [status EXCEPT ![t] = "assigned"]
        /\ owner' = [owner EXCEPT ![t] = CompanyOf[d]]
        /\ rowStatus' = [rowStatus EXCEPT ![a] = "accepted"]
        /\ rowTrip' = rowTrip /\ rowDriver' = rowDriver /\ Accepted(t) = {}
    BY <1>1 DEF TakeTrip
  <2>3. \A u \in Trip : Accepted(u)' = IF u = t THEN {a} ELSE Accepted(u)
    BY <2>1, <2>2 DEF Accepted, Rows, Unused, Sound, TypeOK
  <2> QED
    BY <2>1, <2>2, <2>3 DEF HeldByOne, HeldStatus, CompanyOfRow, Accepted, Sound, TypeOK
<1>2. CASE Reject(h)
  BY <1>2, CalmStep DEF Reject, Notified, tripVars, Sound, TypeOK
<1>3. CASE MarkEnRoute(h) \/ MarkArrived(h) \/ MarkStarted(h)
  BY <1>3, CalmStep
  DEF MarkEnRoute, MarkStarted, MarkArrived, Advance, HeldStatus, rowVars, Sound, TypeOK
<1>4. CASE Reopen(h)
  <2>1. a \in Assignment /\ t \in Trip
    BY <1>0, <1>4 DEF Reopen, DriverOps
  <2>2. \A b \in Assignment : rowStatus[b] = "accepted" /\ rowTrip[b] = t => b = a
    BY <1>4, RiderHolds DEF Reopen, RideOps, DriverOps
  <2>3. /\ status' = [status EXCEPT ![t] = "pending_assignment"]
        /\ owner' = [owner EXCEPT ![t] = None]
        /\ rowStatus' = [rowStatus EXCEPT ![a] = IF @ = "accepted" THEN "cancelled" ELSE @]
    BY <1>4 DEF Reopen
  <2> QED
    BY <2>1, <2>2, <2>3, LeavingStep DEF HeldStatus, Sound, TypeOK
<1>5. CASE CloseByDriver(h) \/ Complete(h) \/ DeclareNoShow(h)
  <2>1. a \in Assignment /\ t \in Trip /\ request[h].op \in RideOps
    BY <1>0, <1>5 DEF CloseByDriver, Complete, DeclareNoShow, DriverOps, RideOps
  <2>2. PICK to \in {"cancelled_by_driver", "completed", "no_show"} :
          CloseTrip(t, to) /\ CloseRows(t, CompanyOf[d], to, {d})
    BY <1>5 DEF CloseByDriver, Complete, DeclareNoShow
  <2>3. status[t] # "cancelled_by_passenger"
    BY <2>2 DEF CloseTrip, SourceStatusesFor, TripTransitions
  <2>4. /\ rowStatus[a] = "accepted"
        /\ \A b \in Assignment : rowStatus[b] = "accepted" /\ rowTrip[b] = t => b = a
    BY <2>1, <2>3, RiderHolds
  <2>5. \A b \in Assignment : rowStatus'[b] = "accepted" => rowStatus[b] = "accepted" /\ rowTrip[b] # t
    BY <2>1, <2>2, <2>4 DEF CloseRows, Rows, Open, CompanyOfRow, AssignmentStatusByTarget, Unused
  <2>6. \A b \in Assignment : rowTrip[b] # t => rowStatus'[b] = rowStatus[b]
    BY <2>2 DEF CloseRows, Rows
  <2>7. owner' = owner /\ status' = [status EXCEPT ![t] = to]
    BY <2>2 DEF CloseTrip
  <2> QED
    BY <2>1, <2>2, <2>5, <2>6, <2>7, LeavingStep DEF HeldStatus, Sound, TypeOK
<1>6. CASE CancelByPassenger(h)
  <2> DEFINE u == request[h].trip
  <2>1. u \in Trip
    BY <1>6, RequestShape DEF CancelByPassenger, Sound
  <2>2. owner' = owner /\ status' = [status EXCEPT ![u] = "cancelled_by_passenger"]
    BY <1>6 DEF CancelByPassenger, CloseTrip
  <2>3. \A b \in Assignment : rowStatus[b] = "accepted" /\ rowTrip[b] = u => owner[u] = CompanyOfRow(b)
    BY <2>1 DEF HeldByOne, Accepted, Rows, Unused
  <2>4. \A b \in Assignment : rowStatus[b] = "accepted" => CompanyOfRow(b) # None
    BY ConstantsAssumption DEF CompanyOfRow, Sound, RowsFilled, Unused
  <2>5. \A b \in Assignment :
          /\ rowStatus'[b] = "accepted" => rowStatus[b] = "accepted" /\ rowTrip[b] # u
          /\ rowTrip[b] # u => rowStatus'[b] = rowStatus[b]
    <3>1. CASE owner[u] = None
      BY <1>6, <2>3, <2>4, <3>1 DEF CancelByPassenger
    <3>2. CASE owner[u] # None
      <4>1. CloseRows(u, owner[u], "cancelled_by_passenger", Driver)
        BY <1>6, <3>2 DEF CancelByPassenger
      <4>2. \A b \in Assignment : rowStatus[b] = "accepted" => rowDriver[b] \in Driver
        BY DEF Sound, RowsFilled, Unused
      <4> QED
        BY <2>3, <4>1, <4>2 DEF CloseRows, Rows, Open, AssignmentStatusByTarget, Unused
    <3> QED
      BY <3>1, <3>2
  <2> QED
    BY <2>1, <2>2, <2>5, LeavingStep DEF HeldStatus, Sound, TypeOK
<1> QED
  BY <1>1, <1>2, <1>3, <1>4, <1>5, <1>6 DEF Finish

LEMMA HeldStep ==
  ASSUME Sound, RideInFlight, HeldByOne, [Next]_vars
  PROVE  HeldByOne'
<1>1. CASE \E h \in Handler : Finish(h)
  BY <1>1, FinishHeld
<1>2. CASE \E t \in Trip, d \in Driver, a \in Assignment : CreateOffer(t, d, a)
  BY <1>2, CalmStep DEF CreateOffer, tripVars, Unused, Sound, TypeOK
<1>3. CASE \E t \in Trip : CreateTrip(t) \/ MarkNoDriver(t)
  BY <1>3, CalmStep DEF CreateTrip, MarkNoDriver, rowVars, HeldStatus, Unrequested, Sound, TypeOK
<1>4. CASE \E a \in Assignment : OfferLapses(a) \/ MarkTimeout(a) \/ CancelOffer(a)
  BY <1>4, CalmStep DEF OfferLapses, MarkTimeout, CancelOffer, tripVars, Notified, Sound, TypeOK
<1>5. CASE UNCHANGED <<tripVars, rowVars>>
  BY <1>5, CalmStep DEF tripVars, rowVars
<1> QED
  BY <1>1, <1>2, <1>3, <1>4, <1>5
  DEF Next, Respond, StartShift, EndShift, BeginDriverOp, BeginWithdraw, GiveUp, vars, tripVars, rowVars

LEMMA SearchedStep ==
  ASSUME Sound, SearchedIsUnowned, [Next]_vars
  PROVE  SearchedIsUnowned'
<1> DEFINE Searched == {Unrequested, "pending_assignment", "no_driver"}
<1>1. CASE \E t \in Trip : CreateTrip(t) \/ MarkNoDriver(t)
  BY <1>1 DEF CreateTrip, MarkNoDriver, SearchedIsUnowned, Sound, TypeOK
<1>2. CASE \E h \in Handler : TakeTrip(h) \/ Reopen(h)
  <2>1. PICK h \in Handler : TakeTrip(h) \/ Reopen(h)
    BY <1>2
  <2>2. rowTrip[request[h].row] \in Trip
    BY <2>1, RequestFacts DEF TakeTrip, Reopen, DriverOps
  <2> QED
    BY <2>1, <2>2 DEF TakeTrip, Reopen, SearchedIsUnowned, Sound, TypeOK, Unrequested
<1>3. CASE \E h \in Handler : MarkEnRoute(h) \/ MarkStarted(h)
  BY <1>3 DEF MarkEnRoute, MarkStarted, Advance, SearchedIsUnowned, Sound, TypeOK, Unrequested
<1>4. CASE \E h \in Handler : CloseByDriver(h) \/ Complete(h) \/ DeclareNoShow(h) \/ CancelByPassenger(h)
  BY <1>4 DEF CloseByDriver, Complete, DeclareNoShow, CancelByPassenger, CloseTrip, SearchedIsUnowned,
              Sound, TypeOK, Unrequested
<1>5. CASE UNCHANGED <<status, owner>>
  BY <1>5 DEF SearchedIsUnowned
<1> QED
  BY <1>1, <1>2, <1>3, <1>4, <1>5
  DEF Next, Respond, Finish, CreateOffer, OfferLapses, MarkTimeout, CancelOffer, StartShift, EndShift,
      BeginDriverOp, BeginWithdraw, GiveUp, Reject, MarkArrived, vars, tripVars

TakeInv == Sound /\ RideInFlight /\ HeldByOne /\ SearchedIsUnowned

LEMMA TakeInvInit == Init => TakeInv
<1> SUFFICES ASSUME Init PROVE TakeInv
  OBVIOUS
<1>1. Sound
  BY DEF Init, Sound, TypeOK, RowsFilled, RequestsOwned, Request, DriverStatus, Idle, DriverOps
<1>2. RideInFlight /\ SearchedIsUnowned
  BY DEF Init, RideInFlight, RideOps, DriverOps, Idle, SearchedIsUnowned
<1>3. HeldByOne
  BY DEF Init, HeldByOne, Accepted, Rows, HeldStatus, Unrequested, Unused
<1> QED
  BY <1>1, <1>2, <1>3 DEF TakeInv

(* The single take: when each driver has one request in flight at a time,  *)
(* every held trip has exactly one accepted assignment, of the company     *)
(* that owns the trip, and no other trip has any, however offers, answers, *)
(* timeouts, cancellations and closings overlap.                           *)
THEOREM SingleTake ==
  ASSUME OneRequestPerDriver
  PROVE  Spec => []HeldByOne
<1>1. TakeInv /\ [Next]_vars => TakeInv'
  BY SoundStep, RideInFlightStep, HeldStep, SearchedStep DEF TakeInv
<1>2. TakeInv => HeldByOne
  BY DEF TakeInv
<1> QED
  BY <1>1, <1>2, TakeInvInit, PTL DEF Spec

(* A trip in the search, or that the search gave up, carries no company.   *)
THEOREM SearchedUnowned == Spec => []SearchedIsUnowned
<1> DEFINE I == Sound /\ SearchedIsUnowned
<1>1. Init => I
  BY TakeInvInit DEF TakeInv
<1>2. I /\ [Next]_vars => I'
  BY SoundStep, SearchedStep
<1>3. I => SearchedIsUnowned
  OBVIOUS
<1> QED
  BY <1>1, <1>2, <1>3, PTL DEF Spec

(* Two searches never hold a live offer for the same driver: the check and *)
(* the insert of an offer are one step under the lock of the driver.       *)
THEOREM LiveOfferIsOne == Spec => []OneLiveOffer
<1>1. Init => OneLiveOffer
  BY DEF Init, OneLiveOffer, Unused
<1>2. ASSUME Sound, OneLiveOffer, [Next]_vars
      PROVE  OneLiveOffer'
  <2>1. CASE \E t \in Trip, d \in Driver, a \in Assignment : CreateOffer(t, d, a)
    BY <1>2, <2>1 DEF CreateOffer, OneLiveOffer, Sound, TypeOK
  <2>2. ASSUME NEW a \in Assignment, rowStatus'[a] = "notified",
               ~\E t \in Trip, d \in Driver, b \in Assignment : CreateOffer(t, d, b)
        PROVE  rowStatus[a] = "notified" /\ rowDriver'[a] = rowDriver[a]
    <3>1. CASE \E b \in Assignment : OfferLapses(b) \/ MarkTimeout(b) \/ CancelOffer(b)
      BY <1>2, <2>2, <3>1 DEF OfferLapses, MarkTimeout, CancelOffer, Sound, TypeOK
    <3>2. CASE \E h \in Handler : TakeTrip(h) \/ Reject(h) \/ Reopen(h)
      BY <1>2, <2>2, <3>2 DEF TakeTrip, Reject, Reopen, Sound, TypeOK
    <3>3. CASE \E h \in Handler : CloseByDriver(h) \/ Complete(h) \/ DeclareNoShow(h) \/ CancelByPassenger(h)
      <4>1. \A t, c, to, by : CloseRows(t, c, to, by) => rowStatus[a] = "notified"
        BY <2>2 DEF CloseRows, AssignmentStatusByTarget
      <4> QED
        BY <2>2, <3>3, <4>1 DEF CloseByDriver, Complete, DeclareNoShow, CancelByPassenger, CloseTrip
    <3>4. CASE UNCHANGED rowVars
      BY <2>2, <3>4 DEF rowVars
    <3> QED
      BY <1>2, <2>2, <3>1, <3>2, <3>3, <3>4
      DEF Next, Respond, Finish, CreateTrip, MarkNoDriver, StartShift, EndShift, BeginDriverOp,
          BeginWithdraw, GiveUp, MarkEnRoute, MarkArrived, MarkStarted, Advance, vars, rowVars
  <2> QED
    BY <1>2, <2>1, <2>2 DEF OneLiveOffer
<1>3. Init => Sound
  BY TakeInvInit DEF TakeInv
<1>4. Sound /\ [Next]_vars => Sound'
  BY SoundStep
<1> QED
  BY <1>1, <1>2, <1>3, <1>4, PTL DEF Spec

-----------------------------------------------------------------------------
(* Action properties.                                                      *)

(* What each step does to the status of a trip.                            *)
LEMMA TripSteps ==
  ASSUME Sound, [Next]_vars, NEW t \in Trip, status'[t] # status[t]
  PROVE  \/ status[t] = Unrequested /\ status'[t] = "pending_assignment"
         \/ status[t] = "pending_assignment" /\ status'[t] \in {"assigned", "no_driver"}
         \/ \E h \in Handler :
              /\ request[h].op \in RideOps /\ rowTrip[request[h].row] = t /\ request'[h] = Idle
              /\ \/ status[t] = "assigned" /\ status'[t] \in {"pending_assignment", "driver_en_route"}
                 \/ status[t] = "driver_en_route" /\ status'[t] = "in_progress"
                 \/ /\ status'[t] \in {"cancelled_by_driver", "completed", "no_show"}
                    /\ status[t] \in SourceStatusesFor(status'[t])
         \/ \E h \in Handler :
              /\ request[h].op = "withdraw" /\ request[h].trip = t /\ request'[h] = Idle
              /\ status'[t] = "cancelled_by_passenger"
              /\ status[t] \in SourceStatusesFor("cancelled_by_passenger")
<1>1. CASE \E u \in Trip : CreateTrip(u) \/ MarkNoDriver(u)
  BY <1>1 DEF CreateTrip, MarkNoDriver, Sound, TypeOK
<1>2. CASE \E h \in Handler : Finish(h)
  <2>1. PICK h \in Handler : Finish(h)
    BY <1>2
  <2>2. CASE TakeTrip(h) \/ Reject(h) \/ MarkArrived(h)
    BY <2>2 DEF TakeTrip, Reject, MarkArrived, tripVars, Sound, TypeOK
  <2>3. CASE Reopen(h) \/ MarkEnRoute(h) \/ MarkStarted(h)
    BY <2>3 DEF Reopen, MarkEnRoute, MarkStarted, Advance, Answered, RideOps, DriverOps, Sound, TypeOK
  <2>4. CASE CloseByDriver(h) \/ Complete(h) \/ DeclareNoShow(h)
    BY <2>4 DEF CloseByDriver, Complete, DeclareNoShow, CloseTrip, Answered, RideOps, DriverOps, Sound, TypeOK
  <2>5. CASE CancelByPassenger(h)
    BY <2>5 DEF CancelByPassenger, CloseTrip, Answered, Sound, TypeOK
  <2> QED
    BY <2>1, <2>2, <2>3, <2>4, <2>5 DEF Finish
<1>3. CASE UNCHANGED status
  BY <1>3
<1> QED
  BY <1>1, <1>2, <1>3
  DEF Next, Respond, CreateOffer, OfferLapses, MarkTimeout, CancelOffer, StartShift, EndShift,
      BeginDriverOp, BeginWithdraw, GiveUp, vars, tripVars

(* A step moves at most one trip.                                          *)
LEMMA OneTripMoves ==
  ASSUME Sound, [Next]_vars, NEW t \in Trip, NEW u \in Trip,
         status'[t] # status[t], status'[u] # status[u]
  PROVE  t = u
<1>1. \A x, s : status' = [status EXCEPT ![x] = s] => x = t /\ x = u
  BY DEF Sound, TypeOK
<1>2. CASE \E x \in Trip : CreateTrip(x) \/ MarkNoDriver(x)
  BY <1>1, <1>2 DEF CreateTrip, MarkNoDriver
<1>3. CASE \E h \in Handler : TakeTrip(h) \/ Reopen(h) \/ MarkEnRoute(h) \/ MarkStarted(h)
  BY <1>1, <1>3 DEF TakeTrip, Reopen, MarkEnRoute, MarkStarted, Advance
<1>4. CASE \E h \in Handler : CloseByDriver(h) \/ Complete(h) \/ DeclareNoShow(h) \/ CancelByPassenger(h)
  BY <1>1, <1>4 DEF CloseByDriver, Complete, DeclareNoShow, CancelByPassenger, CloseTrip
<1>5. CASE UNCHANGED status
  BY <1>5
<1> QED
  BY <1>2, <1>3, <1>4, <1>5
  DEF Next, Respond, Finish, CreateOffer, OfferLapses, MarkTimeout, CancelOffer, StartShift, EndShift,
      BeginDriverOp, BeginWithdraw, GiveUp, Reject, MarkArrived, vars, tripVars

(* Every step of a trip is a transition of the shared contract.            *)
THEOREM ContractKept == Spec => TripStepsByContract
<1>1. Sound /\ [Next]_vars =>
        [\A t \in Trip : \/ status'[t] = status[t]
                         \/ <<status[t], status'[t]>> \in TripTransitions
                         \/ status[t] = Unrequested]_vars
  BY TripSteps DEF SourceStatusesFor, TripTransitions
<1>2. Init => Sound
  BY TakeInvInit DEF TakeInv
<1>3. Sound /\ [Next]_vars => Sound'
  BY SoundStep
<1> QED
  BY <1>1, <1>2, <1>3, PTL DEF Spec, TripStepsByContract

(* Only the passenger and the driver who holds the trip at that moment     *)
(* move a held trip, when each driver has one request in flight.           *)
THEOREM HolderMoves ==
  ASSUME OneRequestPerDriver
  PROVE  Spec => OnlyHolderMoves
<1>1. TakeInv /\ [Next]_vars =>
        [\A t \in Trip :
           status[t] \in HeldStatus /\ status'[t] # status[t] =>
             \E h \in Handler :
               /\ request[h] # Idle /\ request'[h] = Idle
               /\ request[h].row \in Accepted(t) \/ request[h].trip = t]_vars
  <2> SUFFICES ASSUME TakeInv, [Next]_vars, NEW t \in Trip,
                      status[t] \in HeldStatus, status'[t] # status[t]
               PROVE  \E h \in Handler :
                        /\ request[h] # Idle /\ request'[h] = Idle
                        /\ request[h].row \in Accepted(t) \/ request[h].trip = t
    OBVIOUS
  <2>1. \/ \E h \in Handler : /\ request[h].op \in RideOps /\ rowTrip[request[h].row] = t
                              /\ request'[h] = Idle
        \/ \E h \in Handler : /\ request[h].op = "withdraw" /\ request[h].trip = t
                              /\ request'[h] = Idle
    BY TripSteps DEF TakeInv, HeldStatus, Unrequested
  <2>2. CASE \E h \in Handler : /\ request[h].op \in RideOps /\ rowTrip[request[h].row] = t
                              /\ request'[h] = Idle
    <3>1. PICK h \in Handler : /\ request[h].op \in RideOps /\ rowTrip[request[h].row] = t
                             /\ request'[h] = Idle
      BY <2>2
    <3>2. request[h].row \in Assignment /\ rowStatus[request[h].row] = "accepted"
      BY <3>1, RiderHolds, RequestFacts DEF TakeInv, RideOps, HeldStatus
    <3> QED
      BY <3>1, <3>2 DEF Accepted, Rows, Unused, Idle, RideOps, DriverOps
  <2> QED
    BY <2>1, <2>2 DEF Idle
<1>2. TakeInv /\ [Next]_vars => TakeInv'
  BY SoundStep, RideInFlightStep, HeldStep, SearchedStep DEF TakeInv
<1> QED
  BY <1>1, <1>2, TakeInvInit, PTL DEF Spec, OnlyHolderMoves

(* An answered offer and a finished assignment are final.                  *)
THEOREM ClosedIsFinal == Spec => ClosedForGood
<1>1. Sound /\ [Next]_vars =>
        [\A a \in Assignment : rowStatus[a] \in Closed => rowStatus'[a] = rowStatus[a]]_vars
  <2> SUFFICES ASSUME Sound, [Next]_vars, NEW a \in Assignment, rowStatus[a] \in Closed
               PROVE  rowStatus'[a] = rowStatus[a]
    OBVIOUS
  <2> USE DEF Closed, Notified, Unused
  <2>1. CASE \E t \in Trip, d \in Driver, b \in Assignment : CreateOffer(t, d, b)
    BY <2>1 DEF CreateOffer, Sound, TypeOK
  <2>2. CASE \E b \in Assignment : OfferLapses(b) \/ MarkTimeout(b) \/ CancelOffer(b)
    BY <2>2 DEF OfferLapses, MarkTimeout, CancelOffer, Sound, TypeOK
  <2>3. CASE \E h \in Handler : TakeTrip(h) \/ Reject(h) \/ Reopen(h)
    BY <2>3 DEF TakeTrip, Reject, Reopen, Sound, TypeOK
  <2>4. CASE \E h \in Handler : CloseByDriver(h) \/ Complete(h) \/ DeclareNoShow(h) \/ CancelByPassenger(h)
    BY <2>4 DEF CloseByDriver, Complete, DeclareNoShow, CancelByPassenger, CloseRows, Open
  <2>5. CASE UNCHANGED rowVars
    BY <2>5 DEF rowVars
  <2> QED
    BY <2>1, <2>2, <2>3, <2>4, <2>5
    DEF Next, Respond, Finish, CreateTrip, MarkNoDriver, StartShift, EndShift, BeginDriverOp,
        BeginWithdraw, GiveUp, MarkEnRoute, MarkArrived, MarkStarted, Advance, vars, rowVars
<1>2. Init => Sound
  BY TakeInvInit DEF TakeInv
<1>3. Sound /\ [Next]_vars => Sound'
  BY SoundStep
<1> QED
  BY <1>1, <1>2, <1>3, PTL DEF Spec, ClosedForGood

-----------------------------------------------------------------------------
(* Offers for a trip are made one at a time.                               *)

LEMMA SequentialIsNext == NextSequential => Next
BY DEF NextSequential, Next

(* At most one row of a trip is open.                                      *)
OneOpenRow ==
  \A t \in Trip : \A a, b \in Rows(t) : rowStatus[a] \in Open /\ rowStatus[b] \in Open => a = b

(* A trip that left its company's hands by being closed has no open row.   *)
ClosedIsCleared ==
  \A t \in Trip : owner[t] # None /\ status[t] \notin HeldStatus =>
    \A a \in Rows(t) : rowStatus[a] \notin Open

(* A row that becomes open is a new offer, made while no row of its trip   *)
(* was open and the trip had no company.                                   *)
LEMMA OpenOrigin ==
  ASSUME Sound, [NextSequential]_vars, NEW a \in Assignment,
         rowStatus'[a] \in Open, rowStatus[a] \notin Open
  PROVE  /\ \A b \in Assignment : b # a => rowStatus'[b] = rowStatus[b]
         /\ UNCHANGED <<status, owner, driver>>
         /\ owner[rowTrip'[a]] = None
         /\ \A b \in Rows(rowTrip'[a]) : rowStatus[b] \notin Open
<1> USE DEF Open, Notified
<1>1. CASE \E t \in Trip, d \in Driver, b \in Assignment : Undisputed(t) /\ CreateOffer(t, d, b)
  BY <1>1 DEF CreateOffer, Undisputed, Sound, TypeOK, tripVars
<1>2. CASE \E b \in Assignment : OfferLapses(b) \/ MarkTimeout(b) \/ CancelOffer(b)
  BY <1>2 DEF OfferLapses, MarkTimeout, CancelOffer, Sound, TypeOK
<1>3. CASE \E h \in Handler : TakeTrip(h) \/ Reject(h) \/ Reopen(h)
  BY <1>3 DEF TakeTrip, Reject, Reopen, Sound, TypeOK
<1>4. CASE \E h \in Handler : CloseByDriver(h) \/ Complete(h) \/ DeclareNoShow(h) \/ CancelByPassenger(h)
  BY <1>4 DEF CloseByDriver, Complete, DeclareNoShow, CancelByPassenger, CloseRows,
              AssignmentStatusByTarget
<1>5. CASE UNCHANGED rowVars
  BY <1>5 DEF rowVars
<1> QED
  BY <1>1, <1>2, <1>3, <1>4, <1>5
  DEF NextSequential, Respond, Finish, CreateTrip, MarkNoDriver, StartShift, EndShift, BeginDriverOp,
      BeginWithdraw, GiveUp, MarkEnRoute, MarkArrived, MarkStarted, Advance, vars, rowVars

LEMMA OneOpenRowStep ==
  ASSUME Sound, OneOpenRow, [NextSequential]_vars
  PROVE  OneOpenRow'
<1> SUFFICES ASSUME NEW a \in Assignment, NEW b \in Assignment, NEW t \in Trip,
                    rowTrip'[a] = t, rowTrip'[b] = t,
                    rowStatus'[a] \in Open, rowStatus'[b] \in Open, a # b
             PROVE  FALSE
  BY DEF OneOpenRow, Rows
<1>0. \A c \in Assignment : rowStatus[c] \in Open => rowStatus[c] # Unused
  BY DEF Open, Notified, Unused
<1>1. \A c \in Assignment : rowStatus[c] \in Open => rowTrip'[c] = rowTrip[c]
  BY <1>0, RowIdentity, SequentialIsNext DEF SameRow, Sound
<1>2. CASE rowStatus[a] \in Open /\ rowStatus[b] \in Open
  BY <1>0, <1>1, <1>2 DEF OneOpenRow, Rows
<1>3. CASE rowStatus[a] \notin Open
  <2>1. rowStatus[b] \in Open /\ \A c \in Rows(t) : rowStatus[c] \notin Open
    BY <1>3, OpenOrigin
  <2> QED
    BY <1>0, <1>1, <2>1 DEF Rows
<1>4. CASE rowStatus[b] \notin Open
  <2>1. rowStatus[a] \in Open /\ \A c \in Rows(t) : rowStatus[c] \notin Open
    BY <1>4, OpenOrigin
  <2> QED
    BY <1>0, <1>1, <2>1 DEF Rows
<1> QED
  BY <1>2, <1>3, <1>4

SequentialInv == TakeInv /\ OneOpenRow /\ ClosedIsCleared

(* What a closing does: it closes the accepted row of the trip, the only   *)
(* open one, and releases its driver; or it finds nothing open.            *)
LEMMA ClosingEffect ==
  ASSUME SequentialInv, NEW h \in Handler,
         CloseByDriver(h) \/ Complete(h) \/ DeclareNoShow(h) \/ CancelByPassenger(h)
  PROVE  \/ /\ UNCHANGED <<rowStatus, driver>>
            /\ \A t \in Trip : owner[t] # None /\ status'[t] \notin HeldStatus =>
                  \A a \in Rows(t) : rowStatus[a] \notin Open
         \/ \E a \in Assignment, s \in Closed :
              /\ rowStatus[a] = "accepted"
              /\ rowStatus' = [rowStatus EXCEPT ![a] = s]
              /\ Release(rowDriver[a])
              /\ \A t \in Trip : t # rowTrip[a] => status'[t] = status[t]
<1>0. /\ TypeOK /\ Sound /\ HeldByOne /\ OneOpenRow /\ ClosedIsCleared /\ SearchedIsUnowned
      /\ RideInFlight
  BY DEF SequentialInv, TakeInv, Sound
<1>1. ASSUME NEW t \in Trip, NEW c, NEW by, NEW to \in TripStatus, CloseRows(t, c, to, by),
             CloseTrip(t, to), NEW a \in Assignment,
             rowTrip[a] = t, rowStatus[a] = "accepted", rowDriver[a] \in by, CompanyOfRow(a) = c
      PROVE  \E s \in Closed : /\ rowStatus' = [rowStatus EXCEPT ![a] = s]
                               /\ Release(rowDriver[a])
                               /\ \A u \in Trip : u # rowTrip[a] => status'[u] = status[u]
  <2> DEFINE closing == { b \in Rows(t) : /\ rowStatus[b] \in Open
                                          /\ rowDriver[b] \in by
                                          /\ CompanyOfRow(b) = c }
  <2>1. closing = {a}
    BY <1>0, <1>1 DEF OneOpenRow, Rows, Open, Unused
  <2>2. /\ rowStatus' = [b \in Assignment |->
                          IF b \in closing THEN AssignmentStatusByTarget(to) ELSE rowStatus[b]]
        /\ (closing = {} /\ UNCHANGED driver) \/ \E first \in closing : Release(rowDriver[first])
    BY <1>1 DEF CloseRows
  <2>3. AssignmentStatusByTarget(to) \in Closed
    BY DEF AssignmentStatusByTarget, Closed
  <2>4. rowStatus' = [rowStatus EXCEPT ![a] = AssignmentStatusByTarget(to)]
    BY <1>0, <2>1, <2>2 DEF TypeOK
  <2>5. Release(rowDriver[a])
    BY <2>1, <2>2
  <2> QED
    BY <1>0, <1>1, <2>3, <2>4, <2>5 DEF CloseTrip, TypeOK
<1>2. CASE CloseByDriver(h) \/ Complete(h) \/ DeclareNoShow(h)
  <2> DEFINE a == request[h].row
             t == rowTrip[a]
             d == rowDriver[a]
  <2>1. a \in Assignment /\ t \in Trip /\ request[h].op \in RideOps
    BY <1>0, <1>2, RequestFacts DEF CloseByDriver, Complete, DeclareNoShow, DriverOps, RideOps
  <2>2. PICK to \in {"cancelled_by_driver", "completed", "no_show"} :
          CloseTrip(t, to) /\ CloseRows(t, CompanyOf[d], to, {d})
    BY <1>2 DEF CloseByDriver, Complete, DeclareNoShow
  <2>3. status[t] # "cancelled_by_passenger"
    BY <2>2 DEF CloseTrip, SourceStatusesFor, TripTransitions
  <2>4. rowStatus[a] = "accepted"
    BY <1>0, <2>1, <2>3, RiderHolds
  <2> QED
    BY <1>1, <2>1, <2>2, <2>4 DEF CompanyOfRow, TripStatus
<1>3. CASE CancelByPassenger(h)
  <2> DEFINE u == request[h].trip
  <2>1. u \in Trip
    BY <1>0, <1>3, RequestShape DEF CancelByPassenger
  <2>2. CloseTrip(u, "cancelled_by_passenger")
    BY <1>3 DEF CancelByPassenger
  <2>3. status[u] \in {"pending_assignment", "assigned", "driver_en_route", "cancelled_by_passenger"}
    BY <2>2 DEF CloseTrip, SourceStatusesFor, TripTransitions
  <2>4. CASE owner[u] = None
    <3>1. UNCHANGED <<rowStatus, driver>>
      BY <1>3, <2>4 DEF CancelByPassenger
    <3>2. \A t \in Trip : t # u => status'[t] = status[t]
      BY <1>0, <2>2 DEF CloseTrip, TypeOK
    <3> QED
      BY <1>0, <2>4, <3>1, <3>2 DEF ClosedIsCleared
  <2>5. CASE owner[u] # None /\ status[u] \in HeldStatus
    <3>1. PICK a \in Accepted(u) : owner[u] = CompanyOfRow(a)
      BY <1>0, <2>1, <2>5 DEF HeldByOne
    <3>2. a \in Assignment /\ rowTrip[a] = u /\ rowStatus[a] = "accepted" /\ rowDriver[a] \in Driver
      BY <1>0, <3>1 DEF Accepted, Rows, Sound, RowsFilled
    <3>3. CloseRows(u, owner[u], "cancelled_by_passenger", Driver)
      BY <1>3, <2>5 DEF CancelByPassenger
    <3> QED
      BY <1>1, <2>1, <2>2, <3>1, <3>2, <3>3 DEF TripStatus
  <2>6. CASE owner[u] # None /\ status[u] \notin HeldStatus
    <3>1. status[u] = "cancelled_by_passenger"
      BY <1>0, <2>1, <2>3, <2>6 DEF HeldStatus, SearchedIsUnowned
    <3>2. status' = status
      BY <1>0, <2>1, <2>2, <3>1 DEF CloseTrip, TypeOK
    <3>3. \A a \in Rows(u) : rowStatus[a] \notin Open
      BY <1>0, <2>1, <2>6 DEF ClosedIsCleared
    <3>4. CloseRows(u, owner[u], "cancelled_by_passenger", Driver)
      BY <1>3, <2>6 DEF CancelByPassenger
    <3>5. UNCHANGED <<rowStatus, driver>>
      BY <1>0, <3>3, <3>4 DEF CloseRows, TypeOK
    <3> QED
      BY <1>0, <3>2, <3>5 DEF ClosedIsCleared
  <2> QED
    BY <2>4, <2>5, <2>6
<1> QED
  BY <1>2, <1>3

LEMMA ClosedIsClearedStep ==
  ASSUME SequentialInv, [NextSequential]_vars
  PROVE  ClosedIsCleared'
<1> SUFFICES ASSUME NEW t \in Trip, NEW a \in Assignment, owner'[t] # None,
                    status'[t] \notin HeldStatus, rowTrip'[a] = t, rowStatus'[a] \in Open
             PROVE  FALSE
  BY DEF ClosedIsCleared, Rows
<1>0. /\ TypeOK /\ Sound /\ SearchedIsUnowned /\ OneOpenRow /\ ClosedIsCleared
  BY DEF SequentialInv, TakeInv, Sound
<1>1. CASE rowStatus[a] \notin Open
  BY <1>0, <1>1, OpenOrigin
<1>2. CASE rowStatus[a] \in Open
  <2>1. a \in Rows(t)
    BY <1>0, <1>2, RowIdentity, SequentialIsNext DEF SameRow, Rows, Open, Notified, Unused
  <2>2. ~(status'[t] = status[t] /\ owner'[t] = owner[t])
    BY <1>0, <1>2, <2>1 DEF ClosedIsCleared
  <2>3. CASE \E h \in Handler :
               CloseByDriver(h) \/ Complete(h) \/ DeclareNoShow(h) \/ CancelByPassenger(h)
    <3>1. owner' = owner
      BY <2>3 DEF CloseByDriver, Complete, DeclareNoShow, CancelByPassenger, CloseTrip
    <3>2. CASE \E b \in Assignment, s \in Closed :
                 /\ rowStatus[b] = "accepted"
                 /\ rowStatus' = [rowStatus EXCEPT ![b] = s]
                 /\ Release(rowDriver[b])
                 /\ \A u \in Trip : u # rowTrip[b] => status'[u] = status[u]
      <4>1. PICK b \in Assignment, s \in Closed :
                 /\ rowStatus[b] = "accepted"
                 /\ rowStatus' = [rowStatus EXCEPT ![b] = s]
                 /\ \A u \in Trip : u # rowTrip[b] => status'[u] = status[u]
        BY <3>2
      <4>2. a # b
        BY <1>0, <4>1 DEF TypeOK, Closed, Open, Notified
      <4>3. rowTrip[b] # t
        BY <1>0, <1>2, <2>1, <4>1, <4>2 DEF OneOpenRow, Rows, Open, Unused
      <4> QED
        BY <2>2, <3>1, <4>1, <4>3
    <3> QED
      BY <1>2, <2>1, <2>3, <3>1, <3>2, ClosingEffect
  <2>4. CASE \E h \in Handler : TakeTrip(h) \/ Reopen(h) \/ MarkEnRoute(h) \/ MarkStarted(h)
    BY <1>0, <2>2, <2>4
    DEF TakeTrip, Reopen, MarkEnRoute, MarkStarted, Advance, HeldStatus, TypeOK
  <2>5. CASE \E u \in Trip : CreateTrip(u) \/ MarkNoDriver(u)
    BY <1>0, <2>2, <2>5 DEF CreateTrip, MarkNoDriver, SearchedIsUnowned, TypeOK
  <2>6. CASE UNCHANGED <<status, owner>>
    BY <2>2, <2>6
  <2> QED
    BY <2>3, <2>4, <2>5, <2>6
    DEF NextSequential, Respond, Finish, CreateOffer, OfferLapses, MarkTimeout, CancelOffer, StartShift,
        EndShift, BeginDriverOp, BeginWithdraw, GiveUp, Reject, MarkArrived, vars, tripVars
<1> QED
  BY <1>1, <1>2

-----------------------------------------------------------------------------
(* Busy drivers.                                                           *)

(* A step that closes one accepted row and releases its driver.            *)
LEMMA ReleasingStep ==
  ASSUME SequentialInv, BusyIffAccepted, [NextSequential]_vars,
         NEW a \in Assignment, NEW s \in Closed, rowStatus[a] = "accepted",
         rowStatus' = [rowStatus EXCEPT ![a] = s], rowDriver' = rowDriver, Release(rowDriver[a])
  PROVE  BusyIffAccepted'
<1>1. TypeOK /\ rowDriver[a] \in Driver
  BY DEF SequentialInv, TakeInv, Sound, RowsFilled, Unused
<1>2. driver[rowDriver[a]] = "on_trip"
  BY <1>1 DEF BusyIffAccepted
<1>3. PICK x \in {"available", "off_shift"} : driver' = [driver EXCEPT ![rowDriver[a]] = x]
  BY <1>2 DEF Release
<1> QED
  BY <1>1, <1>3 DEF BusyIffAccepted, TypeOK, Closed

LEMMA BusyCalm ==
  ASSUME BusyIffAccepted,
         \A d \in Driver : driver'[d] = "on_trip" <=> driver[d] = "on_trip",
         \A a \in Assignment :
           /\ rowStatus'[a] = "accepted" <=> rowStatus[a] = "accepted"
           /\ rowStatus[a] = "accepted" => rowDriver'[a] = rowDriver[a]
  PROVE  BusyIffAccepted'
BY DEF BusyIffAccepted

LEMMA BusyStep ==
  ASSUME SequentialInv, BusyIffAccepted, [NextSequential]_vars
  PROVE  BusyIffAccepted'
<1>0. /\ TypeOK /\ Sound /\ RideInFlight /\ HeldByOne
  BY DEF SequentialInv, TakeInv, Sound
<1>1. CASE \E h \in Handler : TakeTrip(h)
  <2>1. PICK h \in Handler : TakeTrip(h)
    BY <1>1
  <2> DEFINE a == request[h].row
             d == rowDriver[a]
  <2>2. /\ a \in Assignment /\ d \in Driver
        /\ driver[d] = "available" /\ rowStatus[a] \in Notified
        /\ driver' = [driver EXCEPT ![d] = "on_trip"]
        /\ rowStatus' = [rowStatus EXCEPT ![a] = "accepted"]
        /\ rowDriver' = rowDriver
    BY <1>0, <2>1, RequestFacts DEF TakeTrip, DriverOps
  <2> QED
    BY <1>0, <2>2 DEF BusyIffAccepted, TypeOK, Notified
<1>2. CASE \E h \in Handler : Reopen(h)
  <2>1. PICK h \in Handler : Reopen(h)
    BY <1>2
  <2>2. request[h].op \in RideOps /\ request[h].row \in Assignment
    BY <1>0, <2>1, RequestFacts DEF Reopen, RideOps, DriverOps
  <2>3. rowStatus[request[h].row] = "accepted"
    BY <1>0, <2>1, <2>2, RiderHolds DEF Reopen
  <2> QED
    BY <1>0, <2>1, <2>2, <2>3, ReleasingStep DEF Reopen, TypeOK, Closed
<1>3. CASE \E h \in Handler :
             CloseByDriver(h) \/ Complete(h) \/ DeclareNoShow(h) \/ CancelByPassenger(h)
  <2>1. rowDriver' = rowDriver
    BY <1>3 DEF CloseByDriver, Complete, DeclareNoShow, CancelByPassenger, CloseTrip
  <2> QED
    BY <1>3, <2>1, ClosingEffect, ReleasingStep, BusyCalm
<1>4. CASE \E t \in Trip, d \in Driver, a \in Assignment : Undisputed(t) /\ CreateOffer(t, d, a)
  BY <1>0, <1>4, BusyCalm DEF CreateOffer, Unused, TypeOK
<1>5. CASE \E a \in Assignment : OfferLapses(a) \/ MarkTimeout(a) \/ CancelOffer(a)
  BY <1>0, <1>5, BusyCalm DEF OfferLapses, MarkTimeout, CancelOffer, Notified, TypeOK
<1>6. CASE \E d \in Driver : StartShift(d) \/ EndShift(d)
  BY <1>0, <1>6, BusyCalm DEF StartShift, EndShift, rowVars, TypeOK
<1>7. CASE \E h \in Handler : Reject(h)
  BY <1>0, <1>7, BusyCalm DEF Reject, Notified, TypeOK
<1>8. CASE UNCHANGED <<rowVars, driver>>
  BY <1>8, BusyCalm DEF rowVars
<1> QED
  BY <1>1, <1>2, <1>3, <1>4, <1>5, <1>6, <1>7, <1>8
  DEF NextSequential, Respond, Finish, CreateTrip, MarkNoDriver, BeginDriverOp, BeginWithdraw, GiveUp,
      MarkEnRoute, MarkArrived, MarkStarted, Advance, vars, rowVars

FullInv == SequentialInv /\ BusyIffAccepted

LEMMA FullInvInit == Init => FullInv
<1>1. Init => OneOpenRow /\ ClosedIsCleared /\ BusyIffAccepted
  BY DEF Init, OneOpenRow, ClosedIsCleared, BusyIffAccepted, Rows, Unused
<1> QED
  BY <1>1, TakeInvInit DEF FullInv, SequentialInv

LEMMA FullInvStep ==
  ASSUME FullInv, OneRequestPerDriver, [NextSequential]_vars
  PROVE  FullInv'
<1>1. TakeInv'
  BY SequentialIsNext, SoundStep, RideInFlightStep, HeldStep, SearchedStep
  DEF FullInv, SequentialInv, TakeInv
<1>2. OneOpenRow' /\ ClosedIsCleared' /\ BusyIffAccepted'
  BY OneOpenRowStep, ClosedIsClearedStep, BusyStep DEF FullInv, SequentialInv, TakeInv
<1> QED
  BY <1>1, <1>2 DEF FullInv, SequentialInv

(* When offers for a trip are made one at a time and each driver has one   *)
(* request in flight, a driver is marked on a trip exactly while he has an *)
(* accepted assignment, and he never has two.                              *)
THEOREM BusyWhileHolding ==
  ASSUME OneRequestPerDriver
  PROVE  SpecSequential => []BusyIffAccepted
<1>1. FullInv /\ [NextSequential]_vars => FullInv'
  BY FullInvStep
<1>2. FullInv => BusyIffAccepted
  BY DEF FullInv
<1> QED
  BY <1>1, <1>2, FullInvInit, PTL DEF SpecSequential

-----------------------------------------------------------------------------
(* The refinement of TripHolding.                                          *)

LEMMA HolderIs ==
  ASSUME HeldByOne, NEW t \in Trip, NEW a \in Accepted(t)
  PROVE  HolderOf(t) = rowDriver[a]
<1>1. Accepted(t) = {a}
  BY DEF HeldByOne
<1>2. (CHOOSE b \in Accepted(t) : TRUE) = a
  BY <1>1
<1> QED
  BY <1>1, <1>2 DEF HolderOf

(* A row becomes accepted only by a take.                                  *)
LEMMA AcceptedOrigin ==
  ASSUME Sound, [Next]_vars, NEW a \in Assignment,
         rowStatus'[a] = "accepted", rowStatus[a] # "accepted"
  PROVE  \E h \in Handler : TakeTrip(h) /\ request[h].row = a
<1>1. CASE \E t \in Trip, d \in Driver, b \in Assignment : CreateOffer(t, d, b)
  BY <1>1 DEF CreateOffer, Sound, TypeOK
<1>2. CASE \E b \in Assignment : OfferLapses(b) \/ MarkTimeout(b) \/ CancelOffer(b)
  BY <1>2 DEF OfferLapses, MarkTimeout, CancelOffer, Sound, TypeOK
<1>3. CASE \E h \in Handler : TakeTrip(h) \/ Reject(h) \/ Reopen(h)
  BY <1>3 DEF TakeTrip, Reject, Reopen, Sound, TypeOK
<1>4. CASE \E h \in Handler : CloseByDriver(h) \/ Complete(h) \/ DeclareNoShow(h) \/ CancelByPassenger(h)
  <2>1. \A t, c, to, by : CloseRows(t, c, to, by) => rowStatus'[a] # "accepted"
    BY DEF CloseRows, AssignmentStatusByTarget
  <2>2. \/ UNCHANGED rowStatus
        \/ \E t, c, to, by : CloseRows(t, c, to, by)
    BY <1>4 DEF CloseByDriver, Complete, DeclareNoShow, CancelByPassenger
  <2> QED
    BY <2>1, <2>2
<1>5. CASE UNCHANGED rowVars
  BY <1>5 DEF rowVars
<1> QED
  BY <1>1, <1>2, <1>3, <1>4, <1>5
  DEF Next, Respond, Finish, CreateTrip, MarkNoDriver, StartShift, EndShift, BeginDriverOp,
      BeginWithdraw, GiveUp, MarkEnRoute, MarkArrived, MarkStarted, Advance, vars, rowVars

(* The holder of a trip after a step follows from its status before and    *)
(* after the step.                                                         *)
LEMMA HolderAfter ==
  ASSUME Sound, HeldByOne, HeldByOne', [Next]_vars, NEW t \in Trip
  PROVE  /\ status'[t] \notin HeldStatus => HolderOf(t)' = None
         /\ status[t] \in HeldStatus /\ status'[t] \in HeldStatus => HolderOf(t)' = HolderOf(t)
<1>1. CASE status'[t] \notin HeldStatus
  <2>1. Accepted(t)' = {}
    BY <1>1 DEF HeldByOne
  <2> QED
    BY <1>1, <2>1 DEF HolderOf
<1>2. CASE status[t] \in HeldStatus /\ status'[t] \in HeldStatus
  <2>1. PICK a : a \in Accepted(t)'
    BY <1>2 DEF HeldByOne
  <2>2. a \in Assignment /\ rowStatus'[a] = "accepted" /\ rowTrip'[a] = t
    BY <2>1 DEF Accepted, Rows
  <2>3. rowStatus[a] = "accepted"
    <3>1. ~ \E h \in Handler : TakeTrip(h) /\ request[h].row = a
      BY <1>2, <2>2 DEF TakeTrip, HeldStatus
    <3> QED
      BY <2>2, <3>1, AcceptedOrigin
  <2>4. rowTrip[a] = t /\ rowDriver'[a] = rowDriver[a]
    BY <2>2, <2>3, RowIdentity DEF SameRow, Sound, Unused
  <2>5. a \in Accepted(t)
    BY <2>2, <2>3, <2>4 DEF Accepted, Rows, Unused
  <2>6. HolderOf(t)' = rowDriver'[a]
    <3>1. Accepted(t)' = {a}
      BY <2>1 DEF HeldByOne
    <3>2. (CHOOSE b \in Accepted(t)' : TRUE) = a
      BY <3>1
    <3> QED
      BY <3>1, <3>2 DEF HolderOf
  <2> QED
    BY <1>2, <2>4, <2>5, <2>6, HolderIs
<1> QED
  BY <1>1, <1>2

(* A take gives a trip to a driver who holds no other.                     *)
LEMMA HolderTaken ==
  ASSUME FullInv, HeldByOne', NEW h \in Handler, TakeTrip(h),
         NEW a \in Assignment, a = request[h].row, NEW t \in Trip, t = rowTrip[a]
  PROVE  \E d \in Driver : HolderOf(t)' = d /\ \A u \in Trip : HolderOf(u) # d
<1>0. TypeOK /\ Sound /\ HeldByOne /\ BusyIffAccepted
  BY DEF FullInv, SequentialInv, TakeInv, Sound
<1>1. PICK d \in Driver : d = rowDriver[a]
  BY <1>0, RequestFacts DEF TakeTrip, DriverOps
<1>2. /\ driver[d] = "available" /\ rowStatus'[a] = "accepted"
      /\ rowTrip' = rowTrip /\ rowDriver' = rowDriver
  BY <1>0, <1>1 DEF TakeTrip, TypeOK
<1>3. HolderOf(t)' = d
  <2>1. a \in Accepted(t)'
    BY <1>1, <1>2 DEF Accepted, Rows, Unused
  <2>2. Accepted(t)' = {a}
    BY <1>1, <2>1 DEF HeldByOne
  <2>3. (CHOOSE b \in Accepted(t)' : TRUE) = a
    BY <2>2
  <2> QED
    BY <1>1, <1>2, <2>2, <2>3 DEF HolderOf
<1>4. ASSUME NEW u \in Trip PROVE HolderOf(u) # d
  <2>1. CASE Accepted(u) = {}
    BY <1>1, <2>1, ConstantsAssumption DEF HolderOf
  <2>2. CASE Accepted(u) # {}
    <3>1. PICK b : b \in Accepted(u)
      BY <2>2
    <3>2. HolderOf(u) = rowDriver[b]
      BY <1>0, <3>1, HolderIs
    <3>3. rowDriver[b] # d
      BY <1>0, <1>1, <1>2, <3>1 DEF BusyIffAccepted, Accepted, Rows
    <3> QED
      BY <3>2, <3>3
  <2> QED
    BY <2>1, <2>2
<1> QED
  BY <1>1, <1>3, <1>4

LEMMA HoldingInit == Init => Holding!Init
<1> SUFFICES ASSUME Init PROVE Holding!Init
  OBVIOUS
<1>1. \A t \in Trip : PhaseOf(t) = "none" /\ HolderOf(t) = None
  BY DEF Init, PhaseOf, HolderOf, Accepted, Rows
<1> QED
  BY <1>1 DEF Holding!Init

(* Every step of the tables is a step of TripHolding or leaves its state   *)
(* alone.                                                                  *)
LEMMA HoldingStep ==
  ASSUME FullInv, FullInv', [NextSequential]_vars
  PROVE  [Holding!Next]_(Holding!holdingVars)
<1> DEFINE phases == [t \in Trip |-> PhaseOf(t)]
           holders == [t \in Trip |-> HolderOf(t)]
<1>0. /\ TypeOK /\ Sound /\ HeldByOne /\ HeldByOne' /\ [Next]_vars
  BY SequentialIsNext DEF FullInv, SequentialInv, TakeInv, Sound
<1>1. ASSUME NEW t \in Trip, status'[t] = status[t]
      PROVE  PhaseOf(t)' = PhaseOf(t) /\ HolderOf(t)' = HolderOf(t)
  <2>1. PhaseOf(t)' = PhaseOf(t)
    BY <1>1 DEF PhaseOf
  <2>2. HolderOf(t)' = HolderOf(t)
    <3>1. CASE status[t] \in HeldStatus
      BY <1>0, <1>1, <3>1, HolderAfter
    <3>2. CASE status[t] \notin HeldStatus
      <4>1. HolderOf(t) = None
        BY <1>0, <3>2 DEF HolderOf, HeldByOne
      <4> QED
        BY <1>0, <1>1, <3>2, <4>1, HolderAfter
    <3> QED
      BY <3>1, <3>2
  <2> QED
    BY <2>1, <2>2
<1>2. CASE \A t \in Trip : status'[t] = status[t]
  BY <1>1, <1>2 DEF Holding!holdingVars
<1>3. CASE \E t \in Trip : status'[t] # status[t]
  <2>1. PICK t \in Trip : status'[t] # status[t]
    BY <1>3
  <2>2. \A u \in Trip : u # t => PhaseOf(u)' = PhaseOf(u) /\ HolderOf(u)' = HolderOf(u)
    BY <1>0, <1>1, <2>1, OneTripMoves
  <2>3. ASSUME NEW p, NEW d, PhaseOf(t)' = p, HolderOf(t)' = d
        PROVE  Holding!Move(t, p, d)
    <3>1. phases' = [phases EXCEPT ![t] = p]
      BY <2>2, <2>3
    <3>2. holders' = [holders EXCEPT ![t] = d]
      BY <2>2, <2>3
    <3> QED
      BY <3>1, <3>2 DEF Holding!Move
  <2>4. status'[t] \notin HeldStatus => HolderOf(t)' = None
    BY <1>0, HolderAfter
  <2> USE DEF HeldStatus, Unrequested
  <2>5. CASE status[t] = Unrequested /\ status'[t] = "pending_assignment"
    <3>1. PhaseOf(t) = "none" /\ PhaseOf(t)' = "open" /\ HolderOf(t)' = None
      BY <2>4, <2>5 DEF PhaseOf
    <3> QED
      BY <2>3, <3>1 DEF Holding!Next, Holding!Ask
  <2>6. CASE status[t] = "pending_assignment" /\ status'[t] = "assigned"
    <3>1. PhaseOf(t) = "open" /\ PhaseOf(t)' = "held"
      BY <2>6 DEF PhaseOf
    <3>2. PICK a : a \in Accepted(t)'
      BY <1>0, <2>6 DEF HeldByOne
    <3>3. a \in Assignment /\ rowStatus'[a] = "accepted" /\ rowTrip'[a] = t
      BY <3>2 DEF Accepted, Rows
    <3>4. rowStatus[a] # "accepted"
      <4>1. Accepted(t) = {}
        BY <1>0, <2>6 DEF HeldByOne
      <4> QED
        BY <1>0, <3>3, <4>1, RowIdentity DEF SameRow, Accepted, Rows, Unused
    <3>5. PICK h \in Handler : TakeTrip(h) /\ request[h].row = a
      BY <1>0, <3>3, <3>4, AcceptedOrigin
    <3>6. rowTrip[a] = t
      BY <3>3, <3>5 DEF TakeTrip
    <3>7. PICK d \in Driver : HolderOf(t)' = d /\ \A u \in Trip : HolderOf(u) # d
      BY <1>0, <3>3, <3>5, <3>6, HolderTaken
    <3>8. Holding!Take(t, d)
      BY <2>3, <3>1, <3>7 DEF Holding!Take
    <3> QED
      BY <3>8 DEF Holding!Next
  <2>7. CASE status[t] = "assigned" /\ status'[t] = "pending_assignment"
    <3>1. PhaseOf(t) = "held" /\ PhaseOf(t)' = "open" /\ HolderOf(t)' = None
      BY <2>4, <2>7 DEF PhaseOf
    <3> QED
      BY <2>3, <3>1 DEF Holding!Next, Holding!GiveBack
  <2>8. CASE status[t] \in HeldStatus /\ status'[t] \in HeldStatus
    <3>1. PhaseOf(t)' = PhaseOf(t) /\ HolderOf(t)' = HolderOf(t)
      BY <1>0, <2>8, HolderAfter DEF PhaseOf
    <3> QED
      BY <2>2, <3>1 DEF Holding!holdingVars
  <2>9. CASE /\ status[t] \in HeldStatus \cup {"pending_assignment"}
             /\ status'[t] \in {"no_driver", "cancelled_by_driver", "completed", "no_show",
                               "cancelled_by_passenger"}
    <3>1. PhaseOf(t) \in {"open", "held"} /\ PhaseOf(t)' = "closed" /\ HolderOf(t)' = None
      BY <2>4, <2>9 DEF PhaseOf
    <3> QED
      BY <2>3, <3>1 DEF Holding!Next, Holding!Close
  <2> QED
    BY <1>0, <2>1, <2>5, <2>6, <2>7, <2>8, <2>9, TripSteps DEF SourceStatusesFor, TripTransitions
<1> QED
  BY <1>2, <1>3

(* The tables implement the abstract taking of trips, when offers for a    *)
(* trip are made one at a time and each driver has one request in flight.  *)
THEOREM TakingImplementsHolding ==
  ASSUME OneRequestPerDriver
  PROVE  SpecSequential => ImplementsHolding
<1>1. FullInv /\ [NextSequential]_vars => FullInv'
  BY FullInvStep
<1>2. FullInv /\ FullInv' /\ [NextSequential]_vars => [Holding!Next]_(Holding!holdingVars)
  BY HoldingStep
<1> QED
  BY <1>1, <1>2, FullInvInit, HoldingInit, PTL DEF SpecSequential, ImplementsHolding, Holding!Spec

-----------------------------------------------------------------------------
(* The search.                                                             *)

(* What a task, a chain, an offer and a timer refer to.                    *)
TaskKnown(r) ==
  /\ r.at # "rest" => r.trip \in Trip /\ status[r.trip] # Unrequested
  /\ r.at \in {"query", "offer", "record", "expire"} =>
       r.search \in Search /\ search[r.search].trip = r.trip
  /\ r.at \in {"offer", "record"} => r.driver \in Driver
  /\ r.at \in {"record", "expire", "declined"} =>
       r.row \in Assignment /\ rowStatus[r.row] # Unused /\ rowTrip[r.row] = r.trip

TasksKnown == \A w \in Worker : TaskKnown(task[w])

ChainsKnown == \A t \in Trip : chain[t] # None => search[chain[t]].trip = t

OffersKnown ==
  \A c \in Search :
    search[c].offer # None =>
      rowStatus[search[c].offer] # Unused /\ rowTrip[search[c].offer] = search[c].trip

TimersKnown == \A a \in timer : rowStatus[a] # Unused

Known == TasksKnown /\ ChainsKnown /\ OffersKnown /\ TimersKnown

(* Every step of the search is one of the transactions on the tables, or   *)
(* leaves them alone.                                                      *)
LEMMA SearchStep ==
  ASSUME Sound, TasksKnown, [DispatchNext]_dispatchVars
  PROVE  [Next]_vars
<1>1. CASE \E t \in Trip : Submit(t) \/ SearchExhausted(t)
  BY <1>1 DEF Submit, SearchExhausted, Next, Respond
<1>2. CASE \E w \in Worker : Offer(w)
  BY <1>2 DEF Offer, TasksKnown, TaskKnown, TaskOf, Next
<1>3. CASE \E w \in Worker : Expire(w)
  BY <1>3 DEF Expire, TasksKnown, TaskKnown, TaskOf, Next, Respond
<1>4. CASE \E a \in Assignment : Lapse(a) \/ Retract(a)
  BY <1>4 DEF Lapse, Retract, Next, Respond
<1>5. CASE \E h \in Handler : Answer(h)
  BY <1>5 DEF Answer, Decline, Accept, HandBack, Withdraw, Finish, Next, Respond
<1>6. CASE Ask
  <2>1. \A op \in {"accept", "reject", "cancel"} : op \in DriverOps
    BY DEF DriverOps
  <2> QED
    BY <1>6, <2>1 DEF Ask, Next, Respond
<1>7. CASE UNCHANGED vars
  BY <1>7
<1> QED
  BY <1>1, <1>2, <1>3, <1>4, <1>5, <1>6, <1>7
  DEF DispatchNext, Work, Start, Begin, Query, Lost, Record, Declined, TimerFires, CallFails, Crash,
      dispatchVars

-----------------------------------------------------------------------------
(* Type correctness.                                                       *)

MemoryOK ==
  /\ chain \in [Trip -> Search \cup {None}]
  /\ search \in [Search -> Context]
  /\ timer \subseteq Assignment
  /\ task \in [Worker -> Task]
  /\ exhausted \subseteq Trip
  /\ withdrawn \subseteq Assignment
  /\ failures \in 0..MaxFailures

LEMMA RestIsTask == Rest \in Task /\ Blank \in Context
BY DEF Rest, Task, TaskAt, Blank, Context

LEMMA TryNextType ==
  ASSUME MemoryOK, NEW w \in Worker, NEW c \in Search, NEW s \in Context, s.trip \in Trip,
         TryNext(w, c, s)
  PROVE  /\ chain' \in [Trip -> Search \cup {None}]
         /\ search' \in [Search -> Context]
         /\ task' \in [Worker -> Task]
         /\ exhausted' \subseteq Trip
<1>1. [Rest EXCEPT !.at = "query", !.trip = s.trip, !.search = c] \in Task
  BY DEF Rest, Task, TaskAt
<1> QED
  BY <1>1, RestIsTask DEF TryNext, Becomes, MemoryOK

LEMMA SpawnType ==
  ASSUME MemoryOK, NEW r \in Task, Spawn(r)
  PROVE  task' \in [Worker -> Task]
BY DEF Spawn, Becomes, MemoryOK

LEMMA MemoryType ==
  ASSUME Sound, MemoryOK, TasksKnown, ChainsKnown, TimersKnown,
         [DispatchNext]_dispatchVars
  PROVE  MemoryOK'
<1> USE RestIsTask
<1>1. ASSUME NEW t \in Trip, Submit(t)
      PROVE  MemoryOK'
  <2>1. StartTask(t) \in Task
    BY DEF StartTask, Rest, Task, TaskAt
  <2> QED
    BY <1>1, <2>1, SpawnType DEF Submit, MemoryOK
<1>2. ASSUME NEW t \in Trip, SearchExhausted(t)
      PROVE  MemoryOK'
  BY <1>2 DEF SearchExhausted, MemoryOK
<1>3. ASSUME NEW w \in Worker, Start(w)
      PROVE  MemoryOK'
  BY <1>3 DEF Start, Becomes, MemoryOK, Task, TaskAt
<1>4. ASSUME NEW w \in Worker, Begin(w)
      PROVE  MemoryOK'
  <2>1. task[w].trip \in Trip
    BY <1>4 DEF Begin, TaskOf, TasksKnown, TaskKnown
  <2>2. PICK c \in Search :
          /\ search' = [search EXCEPT ![c] = [Blank EXCEPT !.trip = task[w].trip]]
          /\ chain' = [chain EXCEPT ![task[w].trip] = c]
          /\ task' = [task EXCEPT ![w] = [Rest EXCEPT !.at = "query", !.trip = task[w].trip, !.search = c]]
    BY <1>4 DEF Begin, Becomes
  <2>3. [Rest EXCEPT !.at = "query", !.trip = task[w].trip, !.search = c] \in Task
    BY <2>1 DEF Rest, Task, TaskAt
  <2>4. [Blank EXCEPT !.trip = task[w].trip] \in Context
    BY <2>1 DEF Blank, Context
  <2> QED
    BY <1>4, <2>2, <2>3, <2>4 DEF Begin, MemoryOK
<1>5. ASSUME NEW w \in Worker, Query(w)
      PROVE  MemoryOK'
  <2> DEFINE c == task[w].search
  <2>1. c \in Search /\ search[c] \in Context /\ search[c].trip = task[w].trip /\ task[w].trip \in Trip
    BY <1>5 DEF Query, TaskOf, TasksKnown, TaskKnown, MemoryOK
  <2>2. CASE TryNext(w, c, [search[c] EXCEPT !.expanded = TRUE])
    <3>1. [search[c] EXCEPT !.expanded = TRUE] \in Context /\ [search[c] EXCEPT !.expanded = TRUE].trip \in Trip
      BY <2>1 DEF Context
    <3> QED
      BY <1>5, <2>1, <2>2, <3>1, TryNextType DEF Query, MemoryOK
  <2>3. CASE \E d \in Candidates(c) :
               /\ task' = [task EXCEPT ![w] =
                    [task[w] EXCEPT !.at = "offer", !.driver = d, !.order = search[c].order + 1]]
               /\ UNCHANGED <<chain, search, exhausted>>
    <3>1. PICK d \in Candidates(c) :
               /\ task' = [task EXCEPT ![w] =
                    [task[w] EXCEPT !.at = "offer", !.driver = d, !.order = search[c].order + 1]]
               /\ UNCHANGED <<chain, search, exhausted>>
      BY <2>3
    <3>2. d \in Driver
      BY <3>1 DEF Candidates
    <3>3. search[c].order + 1 \in Nat
      BY <2>1 DEF Context
    <3>4. task[w] \in Task
      BY DEF MemoryOK
    <3>5. [task[w] EXCEPT !.at = "offer", !.driver = d, !.order = search[c].order + 1] \in Task
      BY <3>2, <3>3, <3>4 DEF Task, TaskAt
    <3> QED
      BY <1>5, <3>1, <3>5 DEF Query, MemoryOK
  <2>4. CASE /\ chain' = [chain EXCEPT ![task[w].trip] = None]
             /\ exhausted' = exhausted \cup {task[w].trip}
             /\ task' = [task EXCEPT ![w] = Rest]
             /\ UNCHANGED search
    BY <1>5, <2>1, <2>4 DEF Query, MemoryOK
  <2> QED
    BY <1>5, <2>2, <2>3, <2>4 DEF Query, Becomes
<1>6. ASSUME NEW w \in Worker, Offer(w)
      PROVE  MemoryOK'
  <2>1. PICK a \in Assignment : task' = [task EXCEPT ![w] = [task[w] EXCEPT !.at = "record", !.row = a]]
    BY <1>6 DEF Offer, Becomes
  <2>2. task[w] \in Task
    BY DEF MemoryOK
  <2>3. [task[w] EXCEPT !.at = "record", !.row = a] \in Task
    BY <2>2 DEF Task, TaskAt
  <2> QED
    BY <1>6, <2>1, <2>3 DEF Offer, MemoryOK
<1>7. ASSUME NEW w \in Worker, Lost(w)
      PROVE  MemoryOK'
  <2> DEFINE c == task[w].search
             s == [search[c] EXCEPT !.attempted = @ \cup {task[w].driver}]
  <2>1. c \in Search /\ search[c] \in Context /\ search[c].trip \in Trip /\ task[w].driver \in Driver
    BY <1>7 DEF Lost, TaskOf, TasksKnown, TaskKnown, MemoryOK
  <2>2. s \in Context /\ s.trip \in Trip
    BY <2>1 DEF Context
  <2>3. TryNext(w, c, s)
    BY <1>7 DEF Lost
  <2> QED
    BY <1>7, <2>1, <2>2, <2>3, TryNextType DEF Lost, MemoryOK
<1>8. ASSUME NEW w \in Worker, Record(w)
      PROVE  MemoryOK'
  <2>1. /\ task[w].search \in Search /\ search[task[w].search] \in Context
        /\ task[w] \in Task /\ task[w].driver \in Driver /\ task[w].row \in Assignment
    BY <1>8 DEF Record, TaskOf, TasksKnown, TaskKnown, MemoryOK
  <2>2. search[task[w].search].attempted \cup {task[w].driver} \in SUBSET Driver /\ task[w].order \in Nat
    BY <2>1 DEF Context, Task
  <2>3. PICK s : s = [search[task[w].search] EXCEPT !.attempted = @ \cup {task[w].driver},
                                                    !.order = task[w].order, !.offer = task[w].row]
    OBVIOUS
  <2>4. s \in Context
    BY <2>1, <2>2, <2>3 DEF Context
  <2>5. search' = [search EXCEPT ![task[w].search] = s]
    BY <1>8, <2>3 DEF Record
  <2>6. search' \in [Search -> Context]
    BY <2>1, <2>4, <2>5 DEF MemoryOK
  <2> QED
    BY <1>8, <2>1, <2>6 DEF Record, Becomes, MemoryOK
<1>9. ASSUME NEW w \in Worker, Expire(w)
      PROVE  MemoryOK'
  <2> DEFINE c == task[w].search
             s == [search[c] EXCEPT !.offer = None]
  <2>1. c \in Search /\ search[c] \in Context /\ search[c].trip \in Trip
    BY <1>9 DEF Expire, TaskOf, TasksKnown, TaskKnown, MemoryOK
  <2>2. s \in Context /\ s.trip \in Trip
    BY <2>1 DEF Context
  <2>3. CASE TryNext(w, c, s)
    BY <1>9, <2>1, <2>2, <2>3, TryNextType DEF Expire, MemoryOK
  <2> QED
    BY <1>9, <2>3 DEF Expire, Becomes, MemoryOK
<1>10. ASSUME NEW w \in Worker, Declined(w)
       PROVE  MemoryOK'
  <2>1. task[w].trip \in Trip /\ timer' \subseteq Assignment
    BY <1>10 DEF Declined, TaskOf, TasksKnown, TaskKnown, MemoryOK
  <2>2. CASE chain[task[w].trip] = None
    BY <1>10, <2>1, <2>2 DEF Declined, Becomes, MemoryOK
  <2>3. CASE chain[task[w].trip] # None
    <3>1. PICK c \in Search : chain[task[w].trip] = c
      BY <2>1, <2>3 DEF MemoryOK
    <3>2. search[c] \in Context /\ search[c].trip = task[w].trip
      BY <2>1, <2>3, <3>1 DEF MemoryOK, ChainsKnown
    <3>3. PICK s : s = [search[c] EXCEPT !.offer = None]
      OBVIOUS
    <3>4. s \in Context /\ s.trip \in Trip
      BY <2>1, <3>2, <3>3 DEF Context
    <3>5. TryNext(w, c, s)
      BY <1>10, <2>3, <3>1, <3>3 DEF Declined
    <3> QED
      BY <1>10, <2>1, <3>4, <3>5, TryNextType DEF Declined, MemoryOK
  <2> QED
    BY <2>2, <2>3
<1>11. ASSUME NEW a \in Assignment, Lapse(a) \/ Retract(a)
       PROVE  MemoryOK'
  BY <1>11 DEF Lapse, Retract, MemoryOK, memory
<1>12. ASSUME NEW a \in Assignment, TimerFires(a)
       PROVE  MemoryOK'
  <2>1. rowTrip[a] \in Trip /\ chain[rowTrip[a]] \in Search \cup {None}
    BY <1>12 DEF TimerFires, TimersKnown, Sound, RowsFilled, MemoryOK
  <2>2. task' \in [Worker -> Task]
    <3>1. CASE UNCHANGED task
      BY <3>1 DEF MemoryOK
    <3>2. CASE Spawn([Rest EXCEPT !.at = "expire", !.trip = rowTrip[a], !.search = chain[rowTrip[a]], !.row = a])
      <4>1. [Rest EXCEPT !.at = "expire", !.trip = rowTrip[a], !.search = chain[rowTrip[a]], !.row = a] \in Task
        BY <2>1 DEF Rest, Task, TaskAt
      <4> QED
        BY <3>2, <4>1, SpawnType
    <3> QED
      BY <1>12, <3>1, <3>2 DEF TimerFires
  <2> QED
    BY <1>12, <2>2 DEF TimerFires, MemoryOK
<1>13. ASSUME NEW h \in Handler, Decline(h)
       PROVE  MemoryOK'
  <2>1. request[h].row \in Assignment /\ rowTrip[request[h].row] \in Trip
    BY <1>13, RequestFacts DEF Decline, Reject, DriverOps
  <2>2. [Rest EXCEPT !.at = "declined", !.trip = rowTrip[request[h].row], !.row = request[h].row] \in Task
    BY <2>1 DEF Rest, Task, TaskAt
  <2>3. task' \in [Worker -> Task]
    BY <1>13, <2>2, SpawnType DEF Decline
  <2> QED
    BY <1>13, <2>3 DEF Decline, MemoryOK
<1>14. ASSUME NEW h \in Handler, Accept(h)
       PROVE  MemoryOK'
  BY <1>14 DEF Accept, MemoryOK
<1>15. ASSUME NEW h \in Handler, HandBack(h)
       PROVE  MemoryOK'
  <2>1. rowTrip[request[h].row] \in Trip
    BY <1>15, RequestFacts DEF HandBack, Reopen, DriverOps
  <2>2. StartTask(rowTrip[request[h].row]) \in Task
    BY <2>1 DEF StartTask, Rest, Task, TaskAt
  <2>3. task' \in [Worker -> Task]
    BY <1>15, <2>2, SpawnType DEF HandBack
  <2> QED
    BY <1>15, <2>3 DEF HandBack, MemoryOK
<1>16. ASSUME NEW h \in Handler, Withdraw(h)
       PROVE  MemoryOK'
  <2>1. request[h].trip \in Trip
    BY <1>16, RequestShape DEF Withdraw, CancelByPassenger, Sound
  <2>2. CurrentOffer(request[h].trip) \subseteq Assignment
    BY <2>1 DEF CurrentOffer, MemoryOK, Context
  <2> QED
    BY <1>16, <2>2 DEF Withdraw, MemoryOK
<1>17. CASE Ask \/ UNCHANGED dispatchVars
  BY <1>17 DEF Ask, MemoryOK, memory, dispatchVars
<1>18. CASE CallFails
  <2>1. failures' \in 0..MaxFailures
    BY <1>18, DispatchAssumption DEF CallFails, MemoryOK
  <2>2. task' \in [Worker -> Task] /\ exhausted' \subseteq Trip /\ withdrawn' \subseteq Assignment
    BY <1>18 DEF CallFails, Becomes, MemoryOK
  <2> QED
    BY <1>18, <2>1, <2>2 DEF CallFails, MemoryOK
<1>19. CASE Crash
  <2>1. failures' \in 0..MaxFailures
    BY <1>19, DispatchAssumption DEF Crash, MemoryOK
  <2> QED
    BY <1>19, <2>1 DEF Crash, EmptyMemory, MemoryOK
<1> QED
  BY <1>1, <1>2, <1>3, <1>4, <1>5, <1>6, <1>7, <1>8, <1>9, <1>10, <1>11, <1>12, <1>13, <1>14, <1>15, <1>16,
     <1>17, <1>18, <1>19
  DEF DispatchNext, Work, Answer
-----------------------------------------------------------------------------
(* What the memory refers to stays known.                                  *)

(* Rows and trips, once there, stay what they are.                         *)
Lasting ==
  /\ \A a \in Assignment :
       rowStatus[a] # Unused => rowStatus'[a] # Unused /\ rowTrip'[a] = rowTrip[a]
  /\ \A t \in Trip : status[t] # Unrequested => status'[t] # Unrequested

LEMMA TablesLast ==
  ASSUME Sound, [Next]_vars
  PROVE  Lasting
<1>1. ASSUME NEW a \in Assignment, rowStatus[a] # Unused
      PROVE  rowStatus'[a] # Unused /\ rowTrip'[a] = rowTrip[a]
  BY <1>1, RowIdentity DEF SameRow, Sound
<1>2. ASSUME NEW t \in Trip, status[t] # Unrequested
      PROVE  status'[t] # Unrequested
  BY <1>2, TripSteps DEF Unrequested
<1> QED
  BY <1>1, <1>2 DEF Lasting

(* A call that goes on with the same search is still known.                *)
LEMMA TaskLasts ==
  ASSUME Lasting, NEW r \in Task, TaskKnown(r),
         r.search \in Search => search'[r.search].trip = search[r.search].trip
  PROVE  TaskKnown(r)'
BY DEF Lasting, TaskKnown

SameTrips == \A c \in Search : search'[c].trip = search[c].trip

(* One call goes on as r, and no search changes its trip.                  *)
LEMMA TaskMoves ==
  ASSUME MemoryOK, TasksKnown, Lasting, SameTrips,
         NEW w \in Worker, NEW r, Becomes(w, r), TaskKnown(r)'
  PROVE  TasksKnown'
<1> SUFFICES ASSUME NEW v \in Worker
             PROVE  TaskKnown(task[v])'
  BY DEF TasksKnown
<1>1. CASE v = w
  BY <1>1 DEF Becomes, MemoryOK, TaskKnown
<1>2. CASE v # w
  <2>1. PICK q \in Task : q = task[v]
    BY DEF MemoryOK
  <2>2. task'[v] = q
    BY <1>2, <2>1 DEF Becomes, MemoryOK
  <2>3. TaskKnown(q)'
    BY <2>1, TaskLasts DEF TasksKnown, SameTrips
  <2> QED
    BY <2>2, <2>3 DEF TaskKnown
<1> QED
  BY <1>1, <1>2

LEMMA TasksLast ==
  ASSUME MemoryOK, TasksKnown, Lasting, SameTrips, task' = task
  PROVE  TasksKnown'
<1> SUFFICES ASSUME NEW v \in Worker
             PROVE  TaskKnown(task[v])'
  BY DEF TasksKnown
<1>1. PICK q \in Task : q = task[v]
  BY DEF MemoryOK
<1>2. TaskKnown(q)'
  BY <1>1, TaskLasts DEF TasksKnown, SameTrips
<1> QED
  BY <1>1, <1>2 DEF TaskKnown

LEMMA RestKnown == TaskKnown(Rest)' 
BY DEF TaskKnown, Rest

(* The searches after a TryNext.                                           *)
LEMMA TryNextKnown ==
  ASSUME MemoryOK, Known, Lasting,
         NEW w \in Worker, NEW c \in Search, NEW s \in Context,
         s.trip = search[c].trip, s.offer \in {None, search[c].offer},
         s.trip \in Trip, status[s.trip] # Unrequested,
         timer' \subseteq timer, TryNext(w, c, s)
  PROVE  Known'
<1>1. search' = [search EXCEPT ![c] = s]
  BY DEF TryNext
<1>2. SameTrips
  BY <1>1 DEF SameTrips, MemoryOK
<1>3. TasksKnown'
  <2>1. CASE Becomes(w, Rest)
    BY <1>2, <2>1, TaskMoves, RestKnown DEF Known
  <2>2. CASE Becomes(w, [Rest EXCEPT !.at = "query", !.trip = s.trip, !.search = c])
    <3>1. PICK r : r = [Rest EXCEPT !.at = "query", !.trip = s.trip, !.search = c]
      OBVIOUS
    <3>2. r.at = "query" /\ r.trip = s.trip /\ r.search = c
      BY <3>1 DEF Rest
    <3>3. TaskKnown(r)'
      BY <1>2, <3>2 DEF TaskKnown, Lasting, SameTrips
    <3> QED
      BY <1>2, <2>2, <3>1, <3>3, TaskMoves DEF Known
  <2> QED
    BY <2>1, <2>2 DEF TryNext
<1>4. ChainsKnown'
  BY <1>2 DEF TryNext, Known, ChainsKnown, MemoryOK, SameTrips
<1>5. OffersKnown'
  <2> SUFFICES ASSUME NEW b \in Search, search'[b].offer # None
               PROVE  /\ rowStatus'[search'[b].offer] # Unused
                      /\ rowTrip'[search'[b].offer] = search'[b].trip
    BY DEF OffersKnown
  <2>1. search'[b].offer = search[b].offer /\ search'[b].trip = search[b].trip
    BY <1>1, <1>2 DEF SameTrips, MemoryOK
  <2>2. search[b].offer \in Assignment
    BY <2>1 DEF MemoryOK, Context
  <2> QED
    BY <2>1, <2>2 DEF Known, OffersKnown, Lasting
<1>6. TimersKnown'
  BY DEF Known, TimersKnown, MemoryOK, Lasting
<1> QED
  BY <1>3, <1>4, <1>5, <1>6 DEF Known

(* The searches are left alone, no chain is added, and timers only stop.   *)
LEMMA QuietKnown ==
  ASSUME MemoryOK, Known, Lasting, search' = search, timer' \subseteq timer, TasksKnown',
         \A t \in Trip : chain'[t] \in {None, chain[t]}
  PROVE  Known'
<1>1. ChainsKnown'
  BY DEF Known, ChainsKnown
<1>2. OffersKnown'
  BY DEF Known, OffersKnown, MemoryOK, Context, Lasting
<1>3. TimersKnown'
  BY DEF Known, TimersKnown, MemoryOK, Lasting
<1> QED
  BY <1>1, <1>2, <1>3 DEF Known

LEMMA SpawnKnown ==
  ASSUME MemoryOK, TasksKnown, Lasting, SameTrips, NEW r, Spawn(r), TaskKnown(r)'
  PROVE  TasksKnown'
BY TaskMoves DEF Spawn

LEMMA WorkKnown ==
  ASSUME Sound, MemoryOK, Known, Lasting, NEW w \in Worker, Work(w)
  PROVE  Known'
<1> USE RestKnown
<1>1. CASE Start(w)
  <2>1. PICK r : r = IF status[task[w].trip] = "pending_assignment"
                     THEN [task[w] EXCEPT !.at = "begin"] ELSE Rest
    OBVIOUS
  <2>2. Becomes(w, r) /\ SameTrips /\ UNCHANGED <<search, timer, chain>>
    BY <1>1, <2>1 DEF Start, SameTrips
  <2>3. r = Rest \/ (r.at = "begin" /\ r.trip = task[w].trip)
    BY <2>1 DEF MemoryOK, Task
  <2>4. task[w].trip \in Trip /\ status[task[w].trip] # Unrequested
    BY <1>1 DEF Start, TaskOf, Known, TasksKnown, TaskKnown
  <2>5. CASE r = Rest
    BY <2>2, <2>5, TaskMoves, QuietKnown DEF Known
  <2>6. CASE r.at = "begin" /\ r.trip = task[w].trip
    <3>1. TaskKnown(r)'
      BY <2>4, <2>6 DEF TaskKnown, Lasting
    <3> QED
      BY <2>2, <3>1, TaskMoves, QuietKnown DEF Known
  <2> QED
    BY <2>3, <2>5, <2>6
<1>2. CASE Begin(w)
  <2>1. PICK t \in Trip : t = task[w].trip /\ status[t] # Unrequested
    BY <1>2 DEF Begin, TaskOf, Known, TasksKnown, TaskKnown
  <2>0. PICK c \in Search :
          /\ Idling(c)
          /\ search' = [search EXCEPT ![c] = [Blank EXCEPT !.trip = t]]
          /\ chain' = [chain EXCEPT ![t] = c]
          /\ Becomes(w, [Rest EXCEPT !.at = "query", !.trip = t, !.search = c])
    BY <1>2, <2>1 DEF Begin
  <2>2. PICK s, r :
          /\ s = [Blank EXCEPT !.trip = t] /\ search' = [search EXCEPT ![c] = s]
          /\ r = [Rest EXCEPT !.at = "query", !.trip = t, !.search = c] /\ Becomes(w, r)
          /\ chain' = [chain EXCEPT ![t] = c] /\ Idling(c)
    BY <2>0
  <2>3. s.trip = t /\ s.offer = None /\ r.at = "query" /\ r.trip = t /\ r.search = c
    BY <2>2 DEF Blank, Rest
  <2>4. search'[c] = s /\ \A b \in Search \ {c} : search'[b] = search[b]
    BY <2>2 DEF MemoryOK
  <2>5. TasksKnown'
    <3> SUFFICES ASSUME NEW v \in Worker
                 PROVE  TaskKnown(task[v])'
      BY DEF TasksKnown
    <3>1. CASE v = w
      BY <2>1, <2>2, <2>3, <2>4, <3>1 DEF Becomes, MemoryOK, TaskKnown, Lasting
    <3>2. CASE v # w
      <4>1. PICK q \in Task : q = task[v] /\ task'[v] = q
        BY <2>2, <3>2 DEF Becomes, MemoryOK
      <4>2. q.search # c
        BY <2>2, <4>1 DEF Idling
      <4>3. TaskKnown(q)'
        BY <2>4, <4>1, <4>2, TaskLasts DEF Known, TasksKnown
      <4> QED
        BY <4>1, <4>3 DEF TaskKnown
    <3> QED
      BY <3>1, <3>2
  <2>6. ChainsKnown'
    BY <2>2, <2>3, <2>4 DEF Idling, Known, ChainsKnown, MemoryOK
  <2>7. OffersKnown'
    <3> SUFFICES ASSUME NEW b \in Search, search'[b].offer # None
                 PROVE  /\ rowStatus'[search'[b].offer] # Unused
                        /\ rowTrip'[search'[b].offer] = search'[b].trip
      BY DEF OffersKnown
    <3>1. search'[b] = search[b] /\ search[b].offer \in Assignment
      BY <2>3, <2>4 DEF MemoryOK, Context
    <3> QED
      BY <3>1 DEF Known, OffersKnown, Lasting
  <2>8. TimersKnown'
    BY <1>2 DEF Begin, Known, TimersKnown, MemoryOK, Lasting
  <2> QED
    BY <2>5, <2>6, <2>7, <2>8 DEF Known
<1>3. CASE Query(w)
  <2>1. PICK c \in Search : c = task[w].search /\ search[c] \in Context /\ search[c].trip = task[w].trip
    BY <1>3 DEF Query, TaskOf, Known, TasksKnown, TaskKnown, MemoryOK
  <2>2. task[w] \in Task /\ task[w].trip \in Trip /\ status[task[w].trip] # Unrequested
    BY <1>3 DEF Query, TaskOf, Known, TasksKnown, TaskKnown, MemoryOK
  <2>3. timer' = timer
    BY <1>3 DEF Query
  <2>4. CASE \E d \in Candidates(c) :
               /\ Becomes(w, [task[w] EXCEPT !.at = "offer", !.driver = d, !.order = search[c].order + 1])
               /\ UNCHANGED <<chain, search, exhausted>>
    <3>0. PICK d \in Candidates(c) :
               /\ Becomes(w, [task[w] EXCEPT !.at = "offer", !.driver = d, !.order = search[c].order + 1])
               /\ UNCHANGED <<chain, search, exhausted>>
      BY <2>4
    <3>1. PICK r :
               /\ r = [task[w] EXCEPT !.at = "offer", !.driver = d, !.order = search[c].order + 1]
               /\ Becomes(w, r)
               /\ UNCHANGED <<chain, search, exhausted>>
      BY <3>0
    <3>2. /\ d \in Driver /\ r.at = "offer" /\ r.driver = d
          /\ r.search = c /\ r.trip = task[w].trip
      BY <2>1, <2>2, <3>0, <3>1 DEF Candidates, Task
    <3>3. TaskKnown(r)'
      BY <2>1, <2>2, <3>1, <3>2 DEF TaskKnown, Lasting
    <3>4. TasksKnown'
      BY <3>1, <3>3, TaskMoves DEF Known, SameTrips
    <3> QED
      BY <2>3, <3>1, <3>4, QuietKnown
  <2>5. CASE TryNext(w, c, [search[c] EXCEPT !.expanded = TRUE])
    <3>1. PICK s : s = [search[c] EXCEPT !.expanded = TRUE]
      OBVIOUS
    <3>2. s \in Context /\ s.trip = search[c].trip /\ s.offer = search[c].offer
      BY <2>1, <3>1 DEF Context
    <3> QED
      BY <2>1, <2>2, <2>3, <2>5, <3>1, <3>2, TryNextKnown
  <2>6. CASE /\ chain' = [chain EXCEPT ![task[w].trip] = None]
             /\ Becomes(w, Rest)
             /\ UNCHANGED search
    <3>1. TasksKnown'
      BY <2>6, TaskMoves DEF Known, SameTrips
    <3> QED
      BY <2>3, <2>6, <3>1, QuietKnown DEF MemoryOK
  <2> QED
    BY <1>3, <2>1, <2>4, <2>5, <2>6 DEF Query
<1>4. CASE Offer(w)
  <2>0. PICK a \in Assignment :
          /\ CreateOffer(task[w].trip, task[w].driver, a)
          /\ Becomes(w, [task[w] EXCEPT !.at = "record", !.row = a])
    BY <1>4 DEF Offer
  <2>1. PICK r :
          /\ CreateOffer(task[w].trip, task[w].driver, a)
          /\ r = [task[w] EXCEPT !.at = "record", !.row = a] /\ Becomes(w, r)
    BY <2>0
  <2>2. UNCHANGED <<chain, search, timer>> /\ SameTrips
    BY <1>4 DEF Offer, SameTrips
  <2>3. task[w] \in Task /\ task[w].at = "offer"
    BY <1>4 DEF Offer, TaskOf, MemoryOK
  <2>4. /\ r.at = "record" /\ r.row = a
        /\ r.trip = task[w].trip /\ r.search = task[w].search /\ r.driver = task[w].driver
    BY <2>1, <2>3 DEF Task
  <2>5. rowStatus'[a] # Unused /\ rowTrip'[a] = task[w].trip
    BY <2>1 DEF CreateOffer, Sound, TypeOK, Unused
  <2>6. TaskKnown(r)'
    BY <2>2, <2>3, <2>4, <2>5 DEF TaskKnown, Known, TasksKnown, Lasting
  <2> QED
    BY <2>1, <2>2, <2>6, TaskMoves, QuietKnown DEF Known
<1>5. CASE Lost(w)
  <2>1. PICK c \in Search : c = task[w].search /\ search[c] \in Context /\ search[c].trip = task[w].trip
    BY <1>5 DEF Lost, TaskOf, Known, TasksKnown, TaskKnown, MemoryOK
  <2>2. task[w].trip \in Trip /\ status[task[w].trip] # Unrequested /\ task[w].driver \in Driver
    BY <1>5 DEF Lost, TaskOf, Known, TasksKnown, TaskKnown
  <2>3. PICK s : s = [search[c] EXCEPT !.attempted = @ \cup {task[w].driver}]
    OBVIOUS
  <2>4. s \in Context /\ s.trip = search[c].trip /\ s.offer = search[c].offer
    BY <2>1, <2>2, <2>3 DEF Context
  <2>5. TryNext(w, c, s) /\ timer' = timer
    BY <1>5, <2>1, <2>3 DEF Lost
  <2> QED
    BY <2>1, <2>2, <2>4, <2>5, TryNextKnown
<1>6. CASE Record(w)
  <2>1. PICK c \in Search : c = task[w].search /\ search[c] \in Context /\ search[c].trip = task[w].trip
    BY <1>6 DEF Record, TaskOf, Known, TasksKnown, TaskKnown, MemoryOK
  <2>2. PICK a \in Assignment : a = task[w].row /\ rowStatus[a] # Unused /\ rowTrip[a] = task[w].trip
    BY <1>6 DEF Record, TaskOf, Known, TasksKnown, TaskKnown
  <2>3. PICK s : s = [search[c] EXCEPT !.attempted = @ \cup {task[w].driver},
                                      !.order = task[w].order, !.offer = task[w].row]
    OBVIOUS
  <2>4. s.trip = search[c].trip /\ s.offer = a
    BY <2>1, <2>2, <2>3 DEF Context
  <2>5. search' = [search EXCEPT ![c] = s] /\ timer' = timer \cup {a} /\ Becomes(w, Rest) /\ chain' = chain
    BY <1>6, <2>1, <2>2, <2>3 DEF Record
  <2>6. SameTrips
    BY <2>4, <2>5 DEF SameTrips, MemoryOK
  <2>7. TasksKnown'
    BY <2>5, <2>6, TaskMoves DEF Known
  <2>8. ChainsKnown'
    BY <2>5, <2>6 DEF Known, ChainsKnown, SameTrips, MemoryOK
  <2>9. OffersKnown'
    <3> SUFFICES ASSUME NEW b \in Search, search'[b].offer # None
                 PROVE  /\ rowStatus'[search'[b].offer] # Unused
                        /\ rowTrip'[search'[b].offer] = search'[b].trip
      BY DEF OffersKnown
    <3>1. CASE b = c
      BY <2>1, <2>2, <2>4, <2>5, <3>1 DEF MemoryOK, Lasting
    <3>2. CASE b # c
      <4>1. search'[b] = search[b] /\ search[b].offer \in Assignment
        BY <2>5, <3>2 DEF MemoryOK, Context
      <4> QED
        BY <4>1 DEF Known, OffersKnown, Lasting
    <3> QED
      BY <3>1, <3>2
  <2>10. TimersKnown'
    BY <2>2, <2>5 DEF Known, TimersKnown, MemoryOK, Lasting
  <2> QED
    BY <2>7, <2>8, <2>9, <2>10 DEF Known
<1>7. CASE Expire(w)
  <2>1. PICK c \in Search : c = task[w].search /\ search[c] \in Context /\ search[c].trip = task[w].trip
    BY <1>7 DEF Expire, TaskOf, Known, TasksKnown, TaskKnown, MemoryOK
  <2>2. task[w].trip \in Trip /\ status[task[w].trip] # Unrequested /\ timer' = timer
    BY <1>7 DEF Expire, TaskOf, Known, TasksKnown, TaskKnown
  <2>3. CASE TryNext(w, c, [search[c] EXCEPT !.offer = None])
    <3>1. PICK s : s = [search[c] EXCEPT !.offer = None]
      OBVIOUS
    <3>2. s \in Context /\ s.trip = search[c].trip /\ s.offer = None
      BY <2>1, <3>1 DEF Context
    <3> QED
      BY <2>1, <2>2, <2>3, <3>1, <3>2, TryNextKnown
  <2>4. CASE Becomes(w, Rest) /\ UNCHANGED <<chain, search>>
    BY <2>2, <2>4, TaskMoves, QuietKnown DEF Known, SameTrips
  <2> QED
    BY <1>7, <2>1, <2>3, <2>4 DEF Expire
<1>8. CASE Declined(w)
  <2>1. PICK t \in Trip : t = task[w].trip /\ status[t] # Unrequested
    BY <1>8 DEF Declined, TaskOf, Known, TasksKnown, TaskKnown
  <2>2. timer' \subseteq timer
    BY <1>8 DEF Declined
  <2>3. CASE chain[t] # None
    <3>0. PICK c \in Search : c = chain[t] /\ search[c] \in Context /\ search[c].trip = t
      BY <2>3 DEF Known, ChainsKnown, MemoryOK
    <3>1. PICK s : /\ c = chain[t] /\ search[c] \in Context /\ search[c].trip = t
                   /\ s = [search[c] EXCEPT !.offer = None]
      BY <3>0
    <3>2. s \in Context /\ s.trip = search[c].trip /\ s.offer = None
      BY <3>1 DEF Context
    <3>3. TryNext(w, c, s)
      BY <1>8, <2>1, <2>3, <3>1 DEF Declined
    <3> QED
      BY <2>1, <2>2, <3>1, <3>2, <3>3, TryNextKnown
  <2>4. CASE chain[t] = None
    <3>1. Becomes(w, Rest) /\ UNCHANGED <<chain, search>>
      BY <1>8, <2>1, <2>4 DEF Declined
    <3> QED
      BY <2>2, <3>1, TaskMoves, QuietKnown DEF Known, SameTrips
  <2> QED
    BY <2>3, <2>4
<1> QED
  BY <1>1, <1>2, <1>3, <1>4, <1>5, <1>6, <1>7, <1>8 DEF Work

(* Offers are made for trips that were asked for.                          *)
RowsAsked == \A a \in Assignment : rowStatus[a] # Unused => status[rowTrip[a]] # Unrequested

LEMMA RowsAskedStep ==
  ASSUME Sound, RowsAsked, [Next]_vars
  PROVE  RowsAsked'
<1> SUFFICES ASSUME NEW a \in Assignment, rowStatus'[a] # Unused
             PROVE  status'[rowTrip'[a]] # Unrequested
  BY DEF RowsAsked
<1>1. CASE rowStatus[a] # Unused
  BY <1>1, TablesLast DEF Lasting, RowsAsked, Sound, RowsFilled
<1>2. CASE rowStatus[a] = Unused
  <2>1. CASE \E t \in Trip, d \in Driver, b \in Assignment : CreateOffer(t, d, b)
    BY <1>2, <2>1 DEF CreateOffer, Sound, TypeOK, tripVars
  <2>2. CASE \E b \in Assignment : OfferLapses(b) \/ MarkTimeout(b) \/ CancelOffer(b)
    BY <1>2, <2>2 DEF OfferLapses, MarkTimeout, CancelOffer, Sound, TypeOK, Unused, Notified
  <2>3. CASE \E h \in Handler : Finish(h)
    BY <1>2, <2>3, FinishSameRow DEF Sound
  <2>4. CASE UNCHANGED rowVars
    BY <1>2, <2>4 DEF rowVars
  <2> QED
    BY <2>1, <2>2, <2>3, <2>4
    DEF Next, Respond, CreateTrip, MarkNoDriver, StartShift, EndShift, BeginDriverOp, BeginWithdraw,
        GiveUp, vars, rowVars
<1> QED
  BY <1>1, <1>2

LEMMA KnownStep ==
  ASSUME Sound, RowsAsked, MemoryOK, Known, [DispatchNext]_dispatchVars
  PROVE  Known'
<1>0. [Next]_vars /\ Lasting
  BY SearchStep, TablesLast DEF Known
<1> USE RestKnown
<1>1. ASSUME NEW t \in Trip, Submit(t)
      PROVE  Known'
  <2>1. PICK r : r = StartTask(t)
    OBVIOUS
  <2>2. Spawn(r) /\ r.at = "start" /\ r.trip = t /\ UNCHANGED <<chain, search, timer>>
    BY <1>1, <2>1 DEF Submit, StartTask, Rest
  <2>3. TaskKnown(r)'
    BY <1>1, <2>2 DEF TaskKnown, Submit, CreateTrip, Unrequested, Sound, TypeOK
  <2> QED
    BY <1>0, <2>2, <2>3, SpawnKnown, QuietKnown DEF Known, SameTrips
<1>2. ASSUME NEW t \in Trip, SearchExhausted(t)
      PROVE  Known'
  BY <1>0, <1>2, TasksLast, QuietKnown DEF SearchExhausted, Known, SameTrips
<1>3. ASSUME NEW w \in Worker, Work(w)
      PROVE  Known'
  BY <1>0, <1>3, WorkKnown
<1>4. ASSUME NEW a \in Assignment, Lapse(a) \/ Retract(a)
      PROVE  Known'
  BY <1>0, <1>4, TasksLast, QuietKnown DEF Lapse, Retract, memory, Known, SameTrips
<1>5. ASSUME NEW a \in Assignment, TimerFires(a)
      PROVE  Known'
  <2>1. rowTrip[a] \in Trip /\ rowStatus[a] # Unused
    BY <1>5 DEF TimerFires, Known, TimersKnown, Sound, RowsFilled
  <2>2. UNCHANGED <<chain, search>> /\ timer' \subseteq timer
    BY <1>5 DEF TimerFires
  <2>3. CASE UNCHANGED task
    BY <1>0, <2>2, <2>3, TasksLast, QuietKnown DEF Known, SameTrips
  <2>4. CASE task' # task
    <3>1. PICK c, r : /\ c = chain[rowTrip[a]] /\ c # None /\ search[c].offer = a
                      /\ r = [Rest EXCEPT !.at = "expire", !.trip = rowTrip[a], !.search = c, !.row = a]
                      /\ Spawn(r)
      BY <1>5, <2>4 DEF TimerFires
    <3>2. c \in Search /\ search[c].trip = rowTrip[a]
      BY <2>1, <3>1 DEF Known, ChainsKnown, MemoryOK
    <3>3. r.at = "expire" /\ r.trip = rowTrip[a] /\ r.search = c /\ r.row = a
      BY <3>1 DEF Rest
    <3>4. status[rowTrip[a]] # Unrequested
      BY <2>1 DEF RowsAsked
    <3>5. TaskKnown(r)'
      BY <1>0, <2>1, <2>2, <3>2, <3>3, <3>4 DEF TaskKnown, Lasting
    <3> QED
      BY <1>0, <2>2, <3>1, <3>5, SpawnKnown, QuietKnown DEF Known, SameTrips
  <2> QED
    BY <2>3, <2>4
<1>6. ASSUME NEW h \in Handler, Decline(h)
      PROVE  Known'
  <2>1. PICK a \in Assignment : /\ a = request[h].row /\ rowTrip[a] \in Trip /\ rowStatus[a] # Unused
    BY <1>6, RequestFacts DEF Decline, Reject, DriverOps, Sound, RequestsOwned
  <2>2. PICK r : r = [Rest EXCEPT !.at = "declined", !.trip = rowTrip[a], !.row = a]
    OBVIOUS
  <2>3. Spawn(r) /\ UNCHANGED <<chain, search, timer>>
    BY <1>6, <2>1, <2>2 DEF Decline
  <2>4. r.at = "declined" /\ r.trip = rowTrip[a] /\ r.row = a
    BY <2>2 DEF Rest
  <2>5. TaskKnown(r)'
    BY <1>0, <2>1, <2>4 DEF TaskKnown, Lasting, RowsAsked
  <2> QED
    BY <1>0, <2>3, <2>5, SpawnKnown, QuietKnown DEF Known, SameTrips
<1>7. ASSUME NEW h \in Handler, Accept(h)
      PROVE  Known'
  BY <1>0, <1>7, TasksLast, QuietKnown DEF Accept, Known, SameTrips, MemoryOK
<1>8. ASSUME NEW h \in Handler, HandBack(h)
      PROVE  Known'
  <2>1. PICK t \in Trip : t = rowTrip[request[h].row]
    BY <1>8, RequestFacts DEF HandBack, Reopen, DriverOps
  <2>2. PICK r : r = StartTask(t)
    OBVIOUS
  <2>3. Spawn(r) /\ r.at = "start" /\ r.trip = t
    BY <1>8, <2>1, <2>2 DEF HandBack, StartTask, Rest
  <2>4. search' = search /\ timer' \subseteq timer /\ chain' = [chain EXCEPT ![t] = None]
    BY <1>8, <2>1 DEF HandBack
  <2>5. status[t] # Unrequested
    BY <1>8, <2>1 DEF HandBack, Reopen, Unrequested
  <2>6. TaskKnown(r)'
    BY <1>0, <2>3, <2>5 DEF TaskKnown, Lasting
  <2> QED
    BY <1>0, <2>3, <2>4, <2>6, SpawnKnown, QuietKnown DEF Known, SameTrips, MemoryOK
<1>9. ASSUME NEW h \in Handler, Withdraw(h)
      PROVE  Known'
  <2>1. search' = search /\ task' = task /\ timer' \subseteq timer
    BY <1>9 DEF Withdraw
  <2>2. \A u \in Trip : chain'[u] \in {None, chain[u]}
    BY <1>9 DEF Withdraw, MemoryOK
  <2> QED
    BY <1>0, <2>1, <2>2, TasksLast, QuietKnown DEF Known, SameTrips
<1>10. CASE Ask \/ UNCHANGED dispatchVars
  BY <1>0, <1>10, TasksLast, QuietKnown DEF Ask, memory, dispatchVars, Known, SameTrips
<1>11. CASE CallFails
  <2>1. TasksKnown'
    <3>1. CASE UNCHANGED task
      BY <1>0, <1>11, <3>1, TasksLast DEF CallFails, Known, SameTrips
    <3>2. CASE \E w \in Worker : Becomes(w, Rest)
      BY <1>0, <1>11, <3>2, TaskMoves DEF CallFails, Known, SameTrips
    <3> QED
      BY <1>11, <3>1, <3>2 DEF CallFails
  <2> QED
    BY <1>0, <1>11, <2>1, QuietKnown DEF CallFails
<1>12. CASE Crash
  BY <1>12 DEF Crash, EmptyMemory, Known, TasksKnown, TaskKnown, ChainsKnown, OffersKnown, TimersKnown,
               Rest, Blank
<1> QED
  BY <1>1, <1>2, <1>3, <1>4, <1>5, <1>6, <1>7, <1>8, <1>9, <1>10, <1>11, <1>12 DEF DispatchNext, Answer

-----------------------------------------------------------------------------
(* The search keeps the promises of the tables.                            *)

SearchInv == Sound /\ RowsAsked /\ MemoryOK /\ Known

LEMMA SearchInvInit == DispatchInit => SearchInv
<1> SUFFICES ASSUME DispatchInit PROVE SearchInv
  OBVIOUS
<1>1. Sound
  BY TakeInvInit DEF DispatchInit, TakeInv
<1>2. RowsAsked
  BY DEF DispatchInit, Init, RowsAsked
<1>3. MemoryOK
  BY RestIsTask, DispatchAssumption DEF DispatchInit, EmptyMemory, MemoryOK
<1>4. Known
  BY DEF DispatchInit, EmptyMemory, Known, TasksKnown, TaskKnown, ChainsKnown, OffersKnown, TimersKnown,
         Rest, Blank
<1> QED
  BY <1>1, <1>2, <1>3, <1>4 DEF SearchInv

LEMMA SearchInvStep ==
  ASSUME SearchInv, [DispatchNext]_dispatchVars
  PROVE  SearchInv' /\ [Next]_vars
<1>1. [Next]_vars
  BY SearchStep DEF SearchInv, Known
<1>2. Sound' /\ RowsAsked'
  BY <1>1, SoundStep, RowsAskedStep DEF SearchInv
<1>3. MemoryOK'
  BY MemoryType DEF SearchInv, Known
<1>4. Known'
  BY KnownStep DEF SearchInv
<1> QED
  BY <1>1, <1>2, <1>3, <1>4 DEF SearchInv

(* The memory of the search is well typed in every reachable state.        *)
THEOREM DispatchTypeCorrect == DispatchSafety => []DispatchTypeOK
<1>1. SearchInv => DispatchTypeOK
  BY DEF SearchInv, Sound, MemoryOK, DispatchTypeOK
<1> QED
  BY <1>1, SearchInvInit, SearchInvStep, PTL DEF DispatchSafety

(* The search refines the tables: whatever the process does between its    *)
(* awaits, and however often its calls fail or it crashes, it changes the  *)
(* tables only by the transactions of TripTaking.                          *)
THEOREM SearchTakesTrips == DispatchSafety => Spec
<1>1. DispatchInit => Init
  BY DEF DispatchInit
<1> QED
  BY <1>1, SearchInvInit, SearchInvStep, PTL DEF DispatchSafety, Spec

(* Hence a trip found by a search is held by one driver.                   *)
THEOREM SearchHeldByOne ==
  ASSUME OneRequestPerDriver
  PROVE  DispatchSafety => []HeldByOne
BY SearchTakesTrips, SingleTake, PTL

-----------------------------------------------------------------------------
(* No trip is stranded. The argument needs to know whose turn it is.       *)

(* An offer has one call at work on it, and no timer while it has.         *)
Turn ==
  \A w \in Worker : task[w].at \in {"record", "expire"} =>
    /\ task[w].row \notin timer
    /\ \A v \in Worker : task[v].at \in {"record", "expire"} /\ task[v].row = task[w].row => v = w

ActiveStatus == HeldStatus \cup {"pending_assignment"}

(* An offer that is about to be recorded is still unanswered.              *)
Recording ==
  \A w \in Worker : task[w].at = "record" =>
    /\ \A h \in Handler : request[h].row # task[w].row
    /\ status[task[w].trip] \in ActiveStatus => rowStatus[task[w].row] = "notified"

(* The call r will move the search of trip t on.                           *)
Moves(r, t) ==
  \/ r.at \in {"start", "begin"} /\ r.trip = t
  \/ /\ chain[t] # None
     /\ \/ r.at \in {"query", "offer", "record"} /\ r.search = chain[t]
        \/ r.at = "declined" /\ r.trip = t
        \/ r.at = "expire" /\ r.search = chain[t] /\ rowStatus[r.row] \in Notified

(* The timer of the offer that trip t waits for will.                      *)
Ticking(t) ==
  /\ chain[t] # None
  /\ search[chain[t]].offer \in timer
  /\ rowStatus[search[chain[t]].offer] \in Notified

Supported(t) == t \in exhausted \/ Ticking(t) \/ \E w \in Worker : Moves(task[w], t)

AllSupported ==
  failures = 0 => \A t \in Trip : status[t] = "pending_assignment" => Supported(t)

LEMMA OfferUntouched ==
  ASSUME Sound, [Next]_vars, NEW a \in Assignment, rowStatus[a] = "notified",
         \A h \in Handler : request[h].row # a,
         status'[rowTrip[a]] \in ActiveStatus, rowStatus'[a] # "lapsed"
  PROVE  rowStatus'[a] = "notified"
<1>0. rowTrip[a] \in Trip
  BY DEF Sound, RowsFilled, Unused
<1>1. CASE \E t \in Trip, d \in Driver, b \in Assignment : CreateOffer(t, d, b)
  BY <1>1 DEF CreateOffer, Sound, TypeOK, Unused
<1>2. CASE \E b \in Assignment : OfferLapses(b) \/ MarkTimeout(b) \/ CancelOffer(b)
  BY <1>0, <1>2 DEF OfferLapses, MarkTimeout, CancelOffer, Sound, TypeOK, ActiveStatus, HeldStatus, tripVars
<1>3. CASE \E h \in Handler : TakeTrip(h) \/ Reject(h) \/ Reopen(h)
  BY <1>3 DEF TakeTrip, Reject, Reopen, Sound, TypeOK
<1>4. CASE \E h \in Handler : CloseByDriver(h) \/ Complete(h) \/ DeclareNoShow(h) \/ CancelByPassenger(h)
  <2>1. \A t, to : /\ CloseTrip(t, to)
                   /\ to \in {"cancelled_by_driver", "completed", "no_show", "cancelled_by_passenger"}
                   => t # rowTrip[a]
    BY <1>0 DEF CloseTrip, ActiveStatus, HeldStatus, Sound, TypeOK
  <2>2. \A t, c, to, by : t # rowTrip[a] /\ CloseRows(t, c, to, by) => rowStatus'[a] = rowStatus[a]
    BY DEF CloseRows, Rows
  <2> QED
    BY <1>4, <2>1, <2>2 DEF CloseByDriver, Complete, DeclareNoShow, CancelByPassenger
<1>5. CASE UNCHANGED rowVars
  BY <1>5 DEF rowVars
<1> QED
  BY <1>1, <1>2, <1>3, <1>4, <1>5
  DEF Next, Respond, Finish, CreateTrip, MarkNoDriver, StartShift, EndShift, BeginDriverOp,
      BeginWithdraw, GiveUp, MarkEnRoute, MarkArrived, MarkStarted, Advance, vars, rowVars

(* A trip that left the active statuses never comes back to them.          *)
LEMMA ActiveOnlyBefore ==
  ASSUME Sound, [Next]_vars, NEW t \in Trip, status[t] # Unrequested, status'[t] \in ActiveStatus
  PROVE  status[t] \in ActiveStatus
BY TripSteps DEF ActiveStatus, HeldStatus, SourceStatusesFor, TripTransitions

(* A new or changed call that is not about to record an offer.             *)
LEMMA RecordingKept ==
  ASSUME SearchInv, Recording, [Next]_vars, RecordedBeforeAnswered,
         NEW w \in Worker, task[w].at = "record", task'[w] = task[w]
  PROVE  /\ \A h \in Handler : request'[h].row # task[w].row
         /\ status'[task[w].trip] \in ActiveStatus => rowStatus'[task[w].row] = "notified"
<1>1. /\ task[w].row \in Assignment /\ rowTrip[task[w].row] = task[w].trip
      /\ task[w].trip \in Trip /\ status[task[w].trip] # Unrequested
  BY DEF SearchInv, Known, TasksKnown, TaskKnown
<1>2. /\ \A h \in Handler : request'[h].row # task[w].row
      /\ rowStatus'[task[w].row] # "lapsed"
  BY DEF RecordedBeforeAnswered, TaskOf
<1>3. ASSUME status'[task[w].trip] \in ActiveStatus
      PROVE  rowStatus'[task[w].row] = "notified"
  <2>1. status[task[w].trip] \in ActiveStatus
    BY <1>1, <1>3, ActiveOnlyBefore DEF SearchInv
  <2>2. /\ rowStatus[task[w].row] = "notified"
        /\ \A h \in Handler : request[h].row # task[w].row
    BY <2>1 DEF Recording
  <2> QED
    BY <1>1, <1>2, <1>3, <2>2, OfferUntouched DEF SearchInv
<1> QED
  BY <1>2, <1>3

(* What a step does to the calls: each stays, or it takes one of the forms *)
(* a call can take next.                                                   *)
LEMMA CallSteps ==
  ASSUME SearchInv, [DispatchNext]_dispatchVars, NEW w \in Worker, task'[w] # task[w]
  PROVE  \/ task'[w].at \notin {"record", "expire"}
         \/ Offer(w) /\ \E a \in Assignment : /\ CreateOffer(task[w].trip, task[w].driver, a)
                                              /\ task' = [task EXCEPT ![w] = [task[w] EXCEPT !.at = "record", !.row = a]]
         \/ \E a \in Assignment :
              /\ TimerFires(a)
              /\ task[w] = Rest
              /\ task' = [task EXCEPT ![w] = [Rest EXCEPT !.at = "expire", !.trip = rowTrip[a],
                                                         !.search = chain[rowTrip[a]], !.row = a]]
<1>0. task \in [Worker -> Task]
  BY DEF SearchInv, MemoryOK
<1>1. ASSUME NEW t \in Trip, Submit(t) \/ SearchExhausted(t)
      PROVE  task'[w].at \notin {"record", "expire"}
  BY <1>0, <1>1 DEF Submit, SearchExhausted, Spawn, Becomes, StartTask, Rest
<1>2. ASSUME NEW v \in Worker, Work(v), ~Offer(v)
      PROVE  task'[w].at \notin {"record", "expire"}
  <2>1. w = v
    BY <1>0, <1>2 DEF Work, Start, Begin, Query, Lost, Record, Expire, Declined, TryNext, Becomes
  <2>2. \A r : Becomes(v, r) => task'[w] = r
    BY <1>0, <2>1 DEF Becomes
  <2>4. Rest.at = "rest"
    BY DEF Rest
  <2>5. ASSUME NEW c, NEW s, TryNext(v, c, s)
        PROVE  task'[w].at \in {"query", "rest"}
    <3>1. CASE Becomes(v, [Rest EXCEPT !.at = "query", !.trip = s.trip, !.search = c])
      <4>1. PICK r : Becomes(v, r) /\ r = [Rest EXCEPT !.at = "query", !.trip = s.trip, !.search = c]
        BY <3>1
      <4>2. r.at = "query"
        BY <4>1 DEF Rest
      <4> QED
        BY <2>2, <4>1, <4>2
    <3> QED
      BY <2>2, <2>4, <2>5, <3>1 DEF TryNext
  <2>6. CASE Start(v)
    BY <1>0, <2>1, <2>2, <2>4, <2>6 DEF Start, Task
  <2>7. CASE Begin(v)
    <3>1. PICK c, r : Becomes(v, r) /\ r = [Rest EXCEPT !.at = "query", !.trip = task[v].trip, !.search = c]
      BY <2>7 DEF Begin
    <3>2. r.at = "query"
      BY <3>1 DEF Rest
    <3> QED
      BY <2>2, <3>1, <3>2
  <2>8. CASE Query(v)
    <3>1. CASE \E d, k : Becomes(v, [task[v] EXCEPT !.at = "offer", !.driver = d, !.order = k])
      <4>1. PICK d, k, r : Becomes(v, r) /\ r = [task[v] EXCEPT !.at = "offer", !.driver = d, !.order = k]
        BY <3>1
      <4>2. r.at = "offer"
        BY <1>0, <4>1 DEF Task
      <4> QED
        BY <2>2, <4>1, <4>2
    <3>2. CASE \E c, s : TryNext(v, c, s)
      BY <2>5, <3>2
    <3>3. CASE Becomes(v, Rest)
      BY <2>2, <2>4, <3>3
    <3>4. \/ \E d, k : Becomes(v, [task[v] EXCEPT !.at = "offer", !.driver = d, !.order = k])
          \/ \E c, s : TryNext(v, c, s)
          \/ Becomes(v, Rest)
      BY <2>8, Zenon DEF Query
    <3> QED
      BY <3>1, <3>2, <3>3, <3>4
  <2>9. CASE Lost(v) \/ Record(v) \/ Expire(v) \/ Declined(v)
    BY <2>2, <2>4, <2>5, <2>9 DEF Lost, Record, Expire, Declined
  <2> QED
    BY <1>2, <2>6, <2>7, <2>8, <2>9 DEF Work
<1>3. ASSUME NEW v \in Worker, Offer(v)
      PROVE  w = v
  BY <1>0, <1>3 DEF Offer, Becomes
<1>4. ASSUME NEW a \in Assignment, TimerFires(a)
      PROVE  /\ task[w] = Rest
             /\ task' = [task EXCEPT ![w] = [Rest EXCEPT !.at = "expire", !.trip = rowTrip[a],
                                                        !.search = chain[rowTrip[a]], !.row = a]]
  <2>1. PICK r : /\ r = [Rest EXCEPT !.at = "expire", !.trip = rowTrip[a], !.search = chain[rowTrip[a]], !.row = a]
                 /\ Spawn(r)
    BY <1>4 DEF TimerFires
  <2> QED
    BY <1>0, <2>1 DEF Spawn, Becomes
<1>5. ASSUME NEW h \in Handler, Answer(h)
      PROVE  task'[w].at \notin {"record", "expire"}
  <2>1. \A r : Spawn(r) => task'[w] = r
    BY <1>0 DEF Spawn, Becomes
  <2>2. \A t : StartTask(t).at = "start"
    BY DEF StartTask, Rest
  <2>3. CASE Decline(h)
    <3>1. PICK t, a, r : Spawn(r) /\ r = [Rest EXCEPT !.at = "declined", !.trip = t, !.row = a]
      BY <2>3 DEF Decline
    <3>2. r.at = "declined"
      BY <3>1 DEF Rest
    <3> QED
      BY <2>1, <3>1, <3>2
  <2>4. CASE HandBack(h)
    BY <2>1, <2>2, <2>4 DEF HandBack
  <2> QED
    BY <1>5, <2>3, <2>4 DEF Answer, Accept, Withdraw
<1>6. ASSUME CallFails \/ Crash
      PROVE  task'[w].at \notin {"record", "expire"}
  <2>1. Rest.at = "rest"
    BY DEF Rest
  <2>2. \A v \in Worker : Becomes(v, Rest) => task'[w] = Rest
    BY <1>0 DEF Becomes
  <2> QED
    BY <1>6, <2>1, <2>2 DEF CallFails, Crash, EmptyMemory
<1> QED
  BY <1>1, <1>2, <1>3, <1>4, <1>5, <1>6
  DEF DispatchNext, Lapse, Retract, Ask, dispatchVars, memory, Offer, Becomes

(* An expiry or a recording after a step was there before it, or is the    *)
(* one new call of the step.                                               *)
LEMMA TurnStep ==
  ASSUME SearchInv, Turn, [DispatchNext]_dispatchVars
  PROVE  Turn'
<1> DEFINE busy(r) == r.at \in {"record", "expire"}
<1>0. /\ task \in [Worker -> Task]
      /\ \A w \in Worker : busy(task[w]) =>
           task[w].row \in Assignment /\ rowStatus[task[w].row] # Unused
      /\ \A a \in timer : rowStatus[a] # Unused
  BY DEF SearchInv, MemoryOK, Known, TasksKnown, TaskKnown, TimersKnown
<1>1. CASE \E w \in Worker, a \in Assignment :
             /\ Offer(w) /\ CreateOffer(task[w].trip, task[w].driver, a)
             /\ task' = [task EXCEPT ![w] = [task[w] EXCEPT !.at = "record", !.row = a]]
  <2>1. PICK w \in Worker, a \in Assignment :
             /\ Offer(w) /\ CreateOffer(task[w].trip, task[w].driver, a)
             /\ task' = [task EXCEPT ![w] = [task[w] EXCEPT !.at = "record", !.row = a]]
    BY <1>1
  <2>2. /\ task'[w].at = "record" /\ task'[w].row = a
        /\ \A v \in Worker \ {w} : task'[v] = task[v]
    BY <1>0, <2>1 DEF Task
  <2>3. timer' = timer /\ rowStatus[a] = Unused
    BY <2>1 DEF Offer, CreateOffer
  <2> QED
    BY <1>0, <2>2, <2>3 DEF Turn
<1>2. CASE \E w \in Worker, a \in Assignment :
             /\ TimerFires(a)
             /\ task' = [task EXCEPT ![w] = [Rest EXCEPT !.at = "expire", !.trip = rowTrip[a],
                                                        !.search = chain[rowTrip[a]], !.row = a]]
  <2>1. PICK w \in Worker, a \in Assignment :
             /\ TimerFires(a)
             /\ task' = [task EXCEPT ![w] = [Rest EXCEPT !.at = "expire", !.trip = rowTrip[a],
                                                        !.search = chain[rowTrip[a]], !.row = a]]
    BY <1>2
  <2>2. /\ task'[w].at = "expire" /\ task'[w].row = a
        /\ \A v \in Worker \ {w} : task'[v] = task[v]
    BY <1>0, <2>1 DEF Rest
  <2>3. timer' = timer \ {a} /\ a \in timer
    BY <2>1 DEF TimerFires
  <2> QED
    BY <2>2, <2>3 DEF Turn
<1>3. CASE \A w \in Worker : task'[w] = task[w] \/ ~busy(task'[w])
  <2>1. ASSUME NEW w \in Worker, busy(task'[w])
        PROVE  task'[w].row \notin timer'
    <3>1. task'[w] = task[w] /\ busy(task[w]) /\ task[w].row \notin timer
      BY <1>3, <2>1 DEF Turn
    <3>2. CASE timer' \subseteq timer
      BY <3>1, <3>2
    <3>3. CASE \E v \in Worker : Record(v)
      <4>1. PICK v \in Worker : Record(v)
        BY <3>3
      <4>2. /\ task[v].at = "record" /\ task'[v] = Rest /\ timer' = timer \cup {task[v].row}
        BY <1>0, <4>1 DEF Record, TaskOf, Becomes
      <4>3. v # w
        BY <2>1, <4>2 DEF Rest
      <4>4. task[v].row # task[w].row
        BY <3>1, <4>2, <4>3 DEF Turn
      <4> QED
        BY <3>1, <4>2, <4>4
    <3>4. \/ timer' \subseteq timer
          \/ \E v \in Worker : Record(v)
      BY DEF DispatchNext, Submit, SearchExhausted, Work, Start, Begin, Query, Offer, Lost, Expire, Declined,
             Lapse, TimerFires, Retract, Answer, Decline, Accept, HandBack, Withdraw, Ask, CallFails, Crash,
             EmptyMemory, memory, dispatchVars
    <3> QED
      BY <3>2, <3>3, <3>4
  <2>2. \A w, v \in Worker : /\ busy(task'[w]) /\ busy(task'[v]) /\ task'[v].row = task'[w].row
                            => v = w
    BY <1>3 DEF Turn
  <2> QED
    BY <2>1, <2>2 DEF Turn
<1>4. \/ \A w \in Worker : task'[w] = task[w] \/ ~busy(task'[w])
      \/ \E w \in Worker, a \in Assignment :
             /\ Offer(w) /\ CreateOffer(task[w].trip, task[w].driver, a)
             /\ task' = [task EXCEPT ![w] = [task[w] EXCEPT !.at = "record", !.row = a]]
      \/ \E w \in Worker, a \in Assignment :
             /\ TimerFires(a)
             /\ task' = [task EXCEPT ![w] = [Rest EXCEPT !.at = "expire", !.trip = rowTrip[a],
                                                        !.search = chain[rowTrip[a]], !.row = a]]
  BY CallSteps
<1> QED
  BY <1>1, <1>2, <1>3, <1>4

LEMMA RecordingStep ==
  ASSUME SearchInv, Recording, [DispatchNext]_dispatchVars, RecordedBeforeAnswered
  PROVE  Recording'
<1>0. [Next]_vars /\ task \in [Worker -> Task]
  BY SearchInvStep DEF SearchInv, MemoryOK
<1> SUFFICES ASSUME NEW w \in Worker, task'[w].at = "record"
             PROVE  /\ \A h \in Handler : request'[h].row # task'[w].row
                    /\ status'[task'[w].trip] \in ActiveStatus => rowStatus'[task'[w].row] = "notified"
  BY DEF Recording
<1>1. CASE task'[w] = task[w]
  BY <1>0, <1>1, RecordingKept
<1>2. CASE task'[w] # task[w]
  <2>1. PICK a \in Assignment :
          /\ CreateOffer(task[w].trip, task[w].driver, a)
          /\ task' = [task EXCEPT ![w] = [task[w] EXCEPT !.at = "record", !.row = a]]
    <3>1. ASSUME NEW a \in Assignment,
                 task' = [task EXCEPT ![w] = [Rest EXCEPT !.at = "expire", !.trip = rowTrip[a],
                                                         !.search = chain[rowTrip[a]], !.row = a]]
          PROVE  FALSE
      BY <1>0, <3>1 DEF Rest
    <3> QED
      BY <1>2, <3>1, CallSteps
  <2>2. task'[w].row = a
    BY <1>0, <2>1 DEF Task
  <2>3. rowStatus'[a] = "notified"
    BY <2>1 DEF CreateOffer, SearchInv, Sound, TypeOK
  <2>4. ASSUME NEW h \in Handler
        PROVE  request'[h].row # a
    <3>1. request'[h] = request[h] /\ rowStatus[a] = Unused
      BY <2>1 DEF CreateOffer
    <3>2. CASE request[h].op \in DriverOps
      BY <3>1, <3>2 DEF SearchInv, Sound, RequestsOwned
    <3>3. CASE request[h].op \notin DriverOps
      <4>1. request[h].row = None
        BY <3>3 DEF SearchInv, Sound, TypeOK, Request, Idle
      <4> QED
        BY <3>1, <4>1, ConstantsAssumption
    <3> QED
      BY <3>2, <3>3
  <2> QED
    BY <2>2, <2>3, <2>4
<1> QED
  BY <1>1, <1>2

(* The offers that support a trip are offers of that trip.                 *)
LEMMA SupportRows ==
  ASSUME SearchInv, NEW t \in Trip
  PROVE  /\ Ticking(t) => /\ search[chain[t]].offer \in Assignment
                          /\ rowTrip[search[chain[t]].offer] = t
         /\ \A w \in Worker : Moves(task[w], t) /\ task[w].at = "expire" =>
              /\ task[w].row \in Assignment /\ rowTrip[task[w].row] = t
              /\ rowStatus[task[w].row] \in Notified
<1>1. ASSUME Ticking(t)
      PROVE  search[chain[t]].offer \in Assignment /\ rowTrip[search[chain[t]].offer] = t
  <2>1. chain[t] \in Search /\ search[chain[t]].trip = t
    BY <1>1 DEF Ticking, SearchInv, MemoryOK, Known, ChainsKnown
  <2>2. search[chain[t]].offer \in Assignment
    BY <1>1 DEF Ticking, SearchInv, MemoryOK
  <2> QED
    BY <2>1, <2>2, ConstantsAssumption DEF SearchInv, Known, OffersKnown
<1>2. ASSUME NEW w \in Worker, Moves(task[w], t), task[w].at = "expire"
      PROVE  /\ task[w].row \in Assignment /\ rowTrip[task[w].row] = t
             /\ rowStatus[task[w].row] \in Notified
  BY <1>2 DEF Moves, SearchInv, Known, TasksKnown, TaskKnown, ChainsKnown
<1> QED
  BY <1>1, <1>2

LEMMA StillSupported ==
  ASSUME NEW t \in Trip, Supported(t), chain'[t] = chain[t],
         t \in exhausted => t \in exhausted',
         Ticking(t) => Supported(t)',
         \A w \in Worker : Moves(task[w], t) =>
           /\ task'[w] = task[w]
           /\ task[w].at = "expire" => rowStatus'[task[w].row] \in Notified
  PROVE  Supported(t)'
<1>1. ASSUME NEW w \in Worker, Moves(task[w], t)
      PROVE  Moves(task[w], t)'
  <2>1. PICK r : r = task[w] /\ task'[w] = r /\ (r.at = "expire" => rowStatus'[r.row] \in Notified)
    BY <1>1
  <2>2. Moves(r, t)'
    BY <1>1, <2>1 DEF Moves
  <2> QED
    BY <2>1, <2>2 DEF Moves
<1> QED
  BY <1>1 DEF Supported

RowsKept(t) ==
  \A a \in Assignment :
    rowTrip[a] = t /\ rowStatus[a] \in Notified => rowStatus'[a] \in Notified

(* The usual case: the search of trip t and its offers are left alone.     *)
LEMMA Undisturbed ==
  ASSUME SearchInv, NEW t \in Trip, Supported(t), RowsKept(t), chain'[t] = chain[t], search' = search,
         t \in exhausted => t \in exhausted',
         \A a \in timer : rowTrip[a] = t => a \in timer',
         \A w \in Worker : Moves(task[w], t) => task'[w] = task[w]
  PROVE  Supported(t)'
<1>1. Ticking(t) => Ticking(t)'
  BY SupportRows DEF Ticking, RowsKept
<1>2. \A w \in Worker : Moves(task[w], t) /\ task[w].at = "expire" => rowStatus'[task[w].row] \in Notified
  BY SupportRows DEF RowsKept
<1> QED
  BY <1>1, <1>2, StillSupported DEF Supported

(* A call in rest moves nothing, so a new one may take its place.          *)
LEMMA SpawnLeaves ==
  ASSUME SearchInv, NEW t \in Trip, NEW r, Spawn(r)
  PROVE  \A w \in Worker : Moves(task[w], t) => task'[w] = task[w]
BY DEF Spawn, Becomes, Moves, Rest, SearchInv, MemoryOK

LEMMA TryNextSupports ==
  ASSUME SearchInv, NEW t \in Trip, Supported(t),
         NEW w \in Worker, NEW c \in Search, NEW s \in Context, s.trip = search[c].trip, TryNext(w, c, s),
         Moves(task[w], t) => chain[t] = c,
         \A v \in Worker \ {w} :
           Moves(task[v], t) /\ task[v].at = "expire" => rowStatus'[task[v].row] \in Notified,
         chain[t] # c /\ Ticking(t) => /\ search[chain[t]].offer \in timer'
                                       /\ rowStatus'[search[chain[t]].offer] \in Notified
  PROVE  Supported(t)'
<1>0. chain \in [Trip -> Search \cup {None}] /\ search \in [Search -> Context] /\ task \in [Worker -> Task]
  BY DEF SearchInv, MemoryOK
<1>1. CASE s.trip = t /\ s.order >= MaxAutoRetries
  BY <1>1 DEF TryNext, Supported
<1>2. CASE chain[t] = c /\ ~(s.order >= MaxAutoRetries)
  <2>1. PICK r : r = [Rest EXCEPT !.at = "query", !.trip = s.trip, !.search = c] /\ task' = [task EXCEPT ![w] = r]
    BY <1>2 DEF TryNext, Becomes
  <2>2. r.at = "query" /\ r.search = c /\ task'[w] = r /\ chain' = chain
    BY <1>0, <1>2, <2>1 DEF Rest, TryNext
  <2>3. chain'[t] = c /\ c # None
    BY <1>2, <2>2, DispatchAssumption
  <2>4. Moves(task[w], t)'
    BY <2>2, <2>3 DEF Moves
  <2> QED
    BY <2>4 DEF Supported
<1>3. CASE chain[t] # c /\ ~(s.trip = t /\ s.order >= MaxAutoRetries)
  <2>1. chain'[t] = chain[t] /\ (t \in exhausted => t \in exhausted')
    BY <1>0, <1>3 DEF TryNext
  <2>2. search' = [search EXCEPT ![c] = s]
    BY DEF TryNext
  <2>3. Ticking(t) => Ticking(t)'
    BY <1>0, <1>3, <2>1, <2>2 DEF Ticking
  <2>4. \A v \in Worker : Moves(task[v], t) => task'[v] = task[v] /\ v # w
    BY <1>0, <1>3 DEF TryNext, Becomes
  <2> QED
    BY <2>1, <2>3, <2>4, StillSupported DEF Supported
<1>4. chain[t] = c => s.trip = t
  BY DispatchAssumption DEF SearchInv, Known, ChainsKnown
<1> QED
  BY <1>1, <1>2, <1>3, <1>4

LEMMA WorkSupports ==
  ASSUME SearchInv, Turn, Recording, NEW t \in Trip, status[t] = "pending_assignment", Supported(t),
         NEW w \in Worker, Work(w)
  PROVE  Supported(t)'
<1>0. task \in [Worker -> Task] /\ chain \in [Trip -> Search \cup {None}] /\ search \in [Search -> Context]
  BY DEF SearchInv, MemoryOK
<1>1. CASE Start(w)
  <2>1. CASE task[w].trip = t
    <3>1. PICK r : r = [task[w] EXCEPT !.at = "begin"] /\ task'[w] = r
      BY <1>0, <1>1, <2>1 DEF Start, Becomes
    <3>2. r.at = "begin" /\ r.trip = t
      BY <1>0, <2>1, <3>1 DEF Task
    <3>3. Moves(task[w], t)'
      BY <3>1, <3>2 DEF Moves
    <3> QED
      BY <3>3 DEF Supported
  <2>2. CASE task[w].trip # t
    <3>1. \A v \in Worker : Moves(task[v], t) => task'[v] = task[v]
      BY <1>0, <1>1, <2>2 DEF Start, Becomes, TaskOf, Moves
    <3> QED
      BY <1>1, <3>1, Undisturbed DEF Start, RowsKept, vars
  <2> QED
    BY <2>1, <2>2
<1>2. CASE Begin(w)
  <2>1. PICK c \in Search :
          /\ Idling(c)
          /\ search' = [search EXCEPT ![c] = [Blank EXCEPT !.trip = task[w].trip]]
          /\ chain' = [chain EXCEPT ![task[w].trip] = c]
          /\ Becomes(w, [Rest EXCEPT !.at = "query", !.trip = task[w].trip, !.search = c])
    BY <1>2 DEF Begin
  <2>2. CASE task[w].trip = t
    <3>1. PICK r : r = [Rest EXCEPT !.at = "query", !.trip = task[w].trip, !.search = c] /\ task'[w] = r
      BY <1>0, <2>1 DEF Becomes
    <3>2. r.at = "query" /\ r.search = c /\ chain'[t] = c /\ c # None
      BY <1>0, <2>1, <2>2, <3>1, DispatchAssumption DEF Rest
    <3>3. Moves(task[w], t)'
      BY <3>1, <3>2 DEF Moves
    <3> QED
      BY <3>3 DEF Supported
  <2>3. CASE task[w].trip # t
    <3>1. \A v \in Worker : Moves(task[v], t) => task'[v] = task[v]
      BY <1>0, <1>2, <2>1, <2>3 DEF Begin, Becomes, TaskOf, Moves
    <3>2. chain'[t] = chain[t] /\ chain[t] # c
      BY <1>0, <2>1, <2>3 DEF Idling
    <3>3. UNCHANGED <<rowStatus, timer, exhausted>>
      BY <1>2 DEF Begin, vars
    <3>4. Ticking(t) => Ticking(t)'
      BY <1>0, <2>1, <3>2, <3>3 DEF Ticking
    <3>5. \A v \in Worker : Moves(task[v], t) /\ task[v].at = "expire" => rowStatus'[task[v].row] \in Notified
      BY <3>3, SupportRows
    <3> QED
      BY <3>1, <3>2, <3>3, <3>4, <3>5, StillSupported DEF Supported
  <2> QED
    BY <2>2, <2>3
<1>3. CASE Query(w)
  <2>1. PICK c \in Search : c = task[w].search /\ search[c] \in Context /\ search[c].trip = task[w].trip
    BY <1>3 DEF Query, TaskOf, SearchInv, Known, TasksKnown, TaskKnown, MemoryOK
  <2>2. UNCHANGED <<rowStatus, timer>> /\ task[w].at = "query" /\ task[w] \in Task
    BY <1>0, <1>3 DEF Query, TaskOf, vars
  <2>3. Moves(task[w], t) => chain[t] = c
    BY <2>1, <2>2 DEF Moves
  <2>4. CASE \E d \in Candidates(c) :
               /\ Becomes(w, [task[w] EXCEPT !.at = "offer", !.driver = d, !.order = search[c].order + 1])
               /\ UNCHANGED <<chain, search, exhausted>>
    <3>1. PICK d \in Candidates(c) :
               /\ Becomes(w, [task[w] EXCEPT !.at = "offer", !.driver = d, !.order = search[c].order + 1])
               /\ UNCHANGED <<chain, search, exhausted>>
      BY <2>4
    <3>2. PICK r : /\ r = [task[w] EXCEPT !.at = "offer", !.driver = d, !.order = search[c].order + 1]
                   /\ task' = [task EXCEPT ![w] = r]
      BY <3>1 DEF Becomes
    <3>3. r.at = "offer" /\ r.search = c /\ task'[w] = r
      BY <1>0, <2>1, <2>2, <3>2 DEF Task
    <3>4. CASE chain[t] = c
      <4>1. Moves(task[w], t)'
        BY <3>1, <3>3, <3>4, DispatchAssumption DEF Moves
      <4> QED
        BY <4>1 DEF Supported
    <3>5. CASE chain[t] # c
      <4>1. \A v \in Worker : Moves(task[v], t) => task'[v] = task[v]
        BY <1>0, <2>3, <3>2, <3>5
      <4> QED
        BY <2>2, <3>1, <4>1, Undisturbed DEF RowsKept
    <3> QED
      BY <3>4, <3>5
  <2>5. CASE TryNext(w, c, [search[c] EXCEPT !.expanded = TRUE])
    <3>1. PICK s : s = [search[c] EXCEPT !.expanded = TRUE]
      OBVIOUS
    <3>2. s \in Context /\ s.trip = search[c].trip
      BY <2>1, <3>1 DEF Context
    <3>3. \A v \in Worker : Moves(task[v], t) /\ task[v].at = "expire" => rowStatus'[task[v].row] \in Notified
      BY <2>2, SupportRows
    <3>4. Ticking(t) => search[chain[t]].offer \in timer' /\ rowStatus'[search[chain[t]].offer] \in Notified
      BY <2>2 DEF Ticking
    <3> QED
      BY <2>3, <2>5, <3>1, <3>2, <3>3, <3>4, TryNextSupports
  <2>6. CASE /\ chain' = [chain EXCEPT ![task[w].trip] = None]
             /\ exhausted' = exhausted \cup {task[w].trip}
             /\ Becomes(w, Rest)
             /\ UNCHANGED search
    <3>1. CASE task[w].trip = t
      BY <2>6, <3>1 DEF Supported
    <3>2. CASE task[w].trip # t
      <4>1. chain[t] # c
        BY <2>1, <3>2, DispatchAssumption DEF SearchInv, Known, ChainsKnown
      <4>2. \A v \in Worker : Moves(task[v], t) => task'[v] = task[v]
        BY <1>0, <2>3, <2>6, <4>1 DEF Becomes
      <4>3. chain'[t] = chain[t]
        BY <1>0, <2>6, <3>2
      <4> QED
        BY <2>2, <2>6, <4>2, <4>3, Undisturbed DEF RowsKept
    <3> QED
      BY <3>1, <3>2
  <2> QED
    BY <1>3, <2>1, <2>4, <2>5, <2>6 DEF Query
<1>4. CASE Offer(w)
  <2>1. PICK a \in Assignment :
          /\ CreateOffer(task[w].trip, task[w].driver, a)
          /\ Becomes(w, [task[w] EXCEPT !.at = "record", !.row = a])
    BY <1>4 DEF Offer
  <2>2. PICK r : r = [task[w] EXCEPT !.at = "record", !.row = a] /\ task' = [task EXCEPT ![w] = r]
    BY <2>1 DEF Becomes
  <2>3. r.at = "record" /\ r.search = task[w].search /\ task'[w] = r /\ task[w].at = "offer"
    BY <1>0, <1>4, <2>2 DEF Task, Offer, TaskOf
  <2>4. UNCHANGED <<chain, search, timer, exhausted>>
    BY <1>4 DEF Offer
  <2>5. CASE Moves(task[w], t)
    <3>1. Moves(task[w], t)'
      BY <2>3, <2>4, <2>5 DEF Moves
    <3> QED
      BY <3>1 DEF Supported
  <2>6. CASE ~Moves(task[w], t)
    <3>1. \A v \in Worker : Moves(task[v], t) => task'[v] = task[v]
      BY <1>0, <2>2, <2>6
    <3>2. RowsKept(t)
      BY <2>1 DEF CreateOffer, RowsKept, SearchInv, Sound, TypeOK, Unused, Notified
    <3> QED
      BY <2>4, <3>1, <3>2, Undisturbed
  <2> QED
    BY <2>5, <2>6
<1>5. CASE Lost(w)
  <2>1. PICK c \in Search : c = task[w].search /\ search[c] \in Context /\ search[c].trip = task[w].trip
    BY <1>5 DEF Lost, TaskOf, SearchInv, Known, TasksKnown, TaskKnown, MemoryOK
  <2>2. UNCHANGED <<rowStatus, timer>> /\ task[w].at = "offer" /\ task[w].driver \in Driver
    BY <1>5 DEF Lost, TaskOf, vars, SearchInv, Known, TasksKnown, TaskKnown
  <2>3. Moves(task[w], t) => chain[t] = c
    BY <2>1, <2>2 DEF Moves
  <2>4. PICK s : s = [search[c] EXCEPT !.attempted = @ \cup {task[w].driver}]
    OBVIOUS
  <2>5. s \in Context /\ s.trip = search[c].trip
    BY <2>1, <2>2, <2>4 DEF Context
  <2>6. TryNext(w, c, s)
    BY <1>5, <2>1, <2>4 DEF Lost
  <2>7. \A v \in Worker : Moves(task[v], t) /\ task[v].at = "expire" => rowStatus'[task[v].row] \in Notified
    BY <2>2, SupportRows
  <2>8. Ticking(t) => search[chain[t]].offer \in timer' /\ rowStatus'[search[chain[t]].offer] \in Notified
    BY <2>2 DEF Ticking
  <2> QED
    BY <2>3, <2>5, <2>6, <2>7, <2>8, TryNextSupports
<1>6. CASE Record(w)
  <2>1. PICK c \in Search : c = task[w].search /\ search[c] \in Context /\ search[c].trip = task[w].trip
    BY <1>6 DEF Record, TaskOf, SearchInv, Known, TasksKnown, TaskKnown, MemoryOK
  <2>2. /\ UNCHANGED <<rowStatus, chain, exhausted>> /\ timer' = timer \cup {task[w].row}
        /\ task[w].at = "record" /\ task' = [task EXCEPT ![w] = Rest]
    BY <1>6 DEF Record, TaskOf, vars, Becomes
  <2>3. PICK s : s = [search[c] EXCEPT !.attempted = @ \cup {task[w].driver},
                                      !.order = task[w].order, !.offer = task[w].row]
    OBVIOUS
  <2>4. s.offer = task[w].row /\ search' = [search EXCEPT ![c] = s]
    BY <1>6, <2>1, <2>3 DEF Record, Context
  <2>5. CASE chain[t] = c
    <3>1. task[w].trip = t
      BY <2>1, <2>5, DispatchAssumption DEF SearchInv, Known, ChainsKnown
    <3>2. rowStatus[task[w].row] = "notified"
      BY <2>2, <3>1 DEF Recording, ActiveStatus
    <3>3. Ticking(t)'
      BY <1>0, <2>2, <2>4, <2>5, <3>2, DispatchAssumption DEF Ticking, Notified
    <3> QED
      BY <3>3 DEF Supported
  <2>6. CASE chain[t] # c
    <3>1. Ticking(t) => Ticking(t)'
      BY <1>0, <2>2, <2>4, <2>6 DEF Ticking
    <3>2. \A v \in Worker : Moves(task[v], t) => task'[v] = task[v]
      BY <1>0, <2>1, <2>2, <2>6 DEF Moves
    <3>3. \A v \in Worker : Moves(task[v], t) /\ task[v].at = "expire" => rowStatus'[task[v].row] \in Notified
      BY <2>2, SupportRows
    <3> QED
      BY <2>2, <3>1, <3>2, <3>3, StillSupported DEF Supported
  <2> QED
    BY <2>5, <2>6
<1>7. CASE Expire(w)
  <2>1. PICK c \in Search : c = task[w].search /\ search[c] \in Context /\ search[c].trip = task[w].trip
    BY <1>7 DEF Expire, TaskOf, SearchInv, Known, TasksKnown, TaskKnown, MemoryOK
  <2>2. timer' = timer /\ task[w].at = "expire"
    BY <1>7 DEF Expire, TaskOf
  <2>3. Moves(task[w], t) => chain[t] = c
    BY <2>1, <2>2 DEF Moves
  <2>4. CASE MarkTimeout(task[w].row) /\ TryNext(w, c, [search[c] EXCEPT !.offer = None])
    <3>1. PICK s : s = [search[c] EXCEPT !.offer = None]
      OBVIOUS
    <3>2. s \in Context /\ s.trip = search[c].trip
      BY <2>1, <3>1 DEF Context
    <3>3. \A b \in Assignment : b # task[w].row => rowStatus'[b] = rowStatus[b]
      BY <2>4 DEF MarkTimeout, SearchInv, Sound, TypeOK
    <3>4. task[w].row \notin timer /\ \A v \in Worker \ {w} : task[v].at = "expire" => task[v].row # task[w].row
      BY <2>2 DEF Turn
    <3>5. \A v \in Worker \ {w} :
            Moves(task[v], t) /\ task[v].at = "expire" => rowStatus'[task[v].row] \in Notified
      BY <3>3, <3>4, SupportRows
    <3>6. Ticking(t) => search[chain[t]].offer \in timer' /\ rowStatus'[search[chain[t]].offer] \in Notified
      BY <2>2, <3>3, <3>4, SupportRows DEF Ticking
    <3> QED
      BY <2>3, <2>4, <3>1, <3>2, <3>5, <3>6, TryNextSupports
  <2>5. CASE /\ rowStatus[task[w].row] \notin Notified
             /\ Becomes(w, Rest)
             /\ UNCHANGED <<vars, chain, search, exhausted>>
    <3>1. \A v \in Worker : Moves(task[v], t) => task'[v] = task[v]
      BY <1>0, <2>2, <2>5 DEF Moves, Becomes
    <3> QED
      BY <2>2, <2>5, <3>1, Undisturbed DEF RowsKept, vars
  <2> QED
    BY <1>7, <2>1, <2>4, <2>5 DEF Expire
<1>8. CASE Declined(w)
  <2>1. /\ task[w].trip \in Trip /\ task[w].at = "declined" /\ timer' = timer \ {task[w].row}
        /\ rowStatus' = rowStatus /\ rowTrip[task[w].row] = task[w].trip
    BY <1>8 DEF Declined, TaskOf, SearchInv, Known, TasksKnown, TaskKnown, vars
  <2>2. \A v \in Worker : Moves(task[v], t) /\ task[v].at = "expire" => rowStatus'[task[v].row] \in Notified
    BY <2>1, SupportRows
  <2>3. task[w].trip # t /\ Ticking(t) =>
          search[chain[t]].offer \in timer' /\ rowStatus'[search[chain[t]].offer] \in Notified
    BY <2>1, SupportRows DEF Ticking
  <2>4. CASE chain[task[w].trip] = None
    <3>1. Becomes(w, Rest) /\ UNCHANGED <<chain, search, exhausted>>
      BY <1>8, <2>4 DEF Declined
    <3>2. \A v \in Worker : Moves(task[v], t) => task'[v] = task[v]
      BY <1>0, <2>1, <2>4, <3>1 DEF Becomes, Moves
    <3>3. Ticking(t) => Ticking(t)'
      BY <2>3, <2>4, <3>1 DEF Ticking
    <3> QED
      BY <2>2, <3>1, <3>2, <3>3, StillSupported DEF Supported
  <2>5. CASE chain[task[w].trip] # None
    <3>1. PICK c \in Search : /\ c = chain[task[w].trip] /\ search[c] \in Context
                              /\ search[c].trip = task[w].trip
      BY <1>0, <2>1, <2>5 DEF SearchInv, Known, ChainsKnown
    <3>2. PICK s : s = [search[c] EXCEPT !.offer = None]
      OBVIOUS
    <3>3. s \in Context /\ s.trip = search[c].trip
      BY <3>1, <3>2 DEF Context
    <3>4. TryNext(w, c, s)
      BY <1>8, <2>5, <3>1, <3>2 DEF Declined
    <3>5. Moves(task[w], t) => chain[t] = c
      BY <2>1, <3>1 DEF Moves
    <3>6. chain[t] # c => task[w].trip # t
      BY <3>1
    <3> QED
      BY <2>2, <2>3, <3>3, <3>4, <3>5, <3>6, TryNextSupports
  <2> QED
    BY <2>4, <2>5
<1> QED
  BY <1>1, <1>2, <1>3, <1>4, <1>5, <1>6, <1>7, <1>8 DEF Work

LEMMA SupportStep ==
  ASSUME SearchInv, SearchedIsUnowned, Turn, Recording, [DispatchNext]_dispatchVars, failures' = 0,
         NEW t \in Trip, status[t] = "pending_assignment", Supported(t), status'[t] = "pending_assignment"
  PROVE  Supported(t)'
<1>0. task \in [Worker -> Task] /\ chain \in [Trip -> Search \cup {None}] /\ search \in [Search -> Context]
  BY DEF SearchInv, MemoryOK
<1>1. ASSUME NEW u \in Trip, Submit(u)
      PROVE  Supported(t)'
  <2>1. Spawn(StartTask(u)) /\ UNCHANGED <<chain, search, timer, exhausted, rowStatus>>
    BY <1>1 DEF Submit, CreateTrip, rowVars
  <2> QED
    BY <2>1, SpawnLeaves, Undisturbed DEF RowsKept
<1>2. ASSUME NEW u \in Trip, SearchExhausted(u)
      PROVE  Supported(t)'
  <2>1. CASE u = t
    BY <1>2, <2>1 DEF SearchExhausted, MarkNoDriver, SearchedIsUnowned, SearchInv, Sound, TypeOK
  <2>2. CASE u # t
    <3>1. /\ exhausted' = exhausted \ {u} /\ UNCHANGED <<chain, search, timer, task>>
          /\ rowStatus' = rowStatus
      BY <1>2 DEF SearchExhausted, MarkNoDriver, vars, rowVars
    <3> QED
      BY <2>2, <3>1, Undisturbed DEF RowsKept
  <2> QED
    BY <2>1, <2>2
<1>3. ASSUME NEW w \in Worker, Work(w)
      PROVE  Supported(t)'
  BY <1>3, WorkSupports
<1>4. ASSUME NEW a \in Assignment, Lapse(a)
      PROVE  Supported(t)'
  <2>1. RowsKept(t)
    BY <1>4 DEF Lapse, OfferLapses, RowsKept, SearchInv, Sound, TypeOK, Notified
  <2> QED
    BY <1>4, <2>1, Undisturbed DEF Lapse, memory
<1>5. ASSUME NEW a \in Assignment, Retract(a)
      PROVE  Supported(t)'
  <2>1. RowsKept(t)
    BY <1>5 DEF Retract, CancelOffer, RowsKept, SearchInv, Sound, TypeOK, vars
  <2> QED
    BY <1>5, <2>1, Undisturbed DEF Retract
<1>6. ASSUME NEW a \in Assignment, TimerFires(a)
      PROVE  Supported(t)'
  <2>1. /\ UNCHANGED <<chain, search, exhausted, rowStatus>> /\ timer' = timer \ {a}
        /\ rowTrip[a] \in Trip
    BY <1>6 DEF TimerFires, vars, SearchInv, Known, TimersKnown, Sound, RowsFilled
  <2>2. \A w \in Worker : Moves(task[w], t) => task'[w] = task[w]
    <3>1. CASE UNCHANGED task
      BY <3>1
    <3>2. CASE Spawn([Rest EXCEPT !.at = "expire", !.trip = rowTrip[a], !.search = chain[rowTrip[a]], !.row = a])
      BY <3>2, SpawnLeaves
    <3> QED
      BY <1>6, <3>1, <3>2 DEF TimerFires
  <2>3. \A w \in Worker : Moves(task[w], t) /\ task[w].at = "expire" => rowStatus'[task[w].row] \in Notified
    BY <2>1, SupportRows
  <2>4. ASSUME Ticking(t)
        PROVE  Supported(t)'
    <3>1. CASE search[chain[t]].offer # a
      <4>1. Ticking(t)'
        BY <2>1, <2>4, <3>1 DEF Ticking
      <4> QED
        BY <4>1 DEF Supported
    <3>2. CASE search[chain[t]].offer = a
      <4>1. rowTrip[a] = t /\ chain[t] # None /\ rowStatus[a] \in Notified
        BY <2>4, <3>2, SupportRows DEF Ticking
      <4>2. Spawn([Rest EXCEPT !.at = "expire", !.trip = t, !.search = chain[t], !.row = a])
        BY <1>6, <3>2, <4>1 DEF TimerFires
      <4>3. PICK r : /\ r = [Rest EXCEPT !.at = "expire", !.trip = t, !.search = chain[t], !.row = a]
                     /\ Spawn(r)
        BY <4>2
      <4>4. r.at = "expire" /\ r.search = chain[t] /\ r.row = a
        BY <4>3 DEF Rest
      <4>5. PICK w \in Worker : task'[w] = r
        BY <1>0, <4>3 DEF Spawn, Becomes
      <4>6. Moves(task[w], t)'
        BY <2>1, <4>1, <4>4, <4>5 DEF Moves
      <4> QED
        BY <4>6 DEF Supported
    <3> QED
      BY <3>1, <3>2
  <2> QED
    BY <2>1, <2>2, <2>3, <2>4, StillSupported
<1>7. ASSUME NEW h \in Handler, Decline(h)
      PROVE  Supported(t)'
  <2>1. PICK a \in Assignment : a = request[h].row /\ rowTrip[a] \in Trip
    BY <1>7, RequestFacts DEF Decline, Reject, DriverOps, SearchInv
  <2>2. PICK r : r = [Rest EXCEPT !.at = "declined", !.trip = rowTrip[a], !.row = a]
    OBVIOUS
  <2>3. /\ Spawn(r) /\ UNCHANGED <<chain, search, timer, exhausted>>
        /\ \A b \in Assignment : b # a => rowStatus'[b] = rowStatus[b]
    BY <1>7, <2>1, <2>2 DEF Decline, Reject, SearchInv, Sound, TypeOK
  <2>4. r.at = "declined" /\ r.trip = rowTrip[a]
    BY <2>2 DEF Rest
  <2>5. CASE rowTrip[a] = t /\ chain[t] # None
    <3>1. PICK w \in Worker : task'[w] = r
      BY <1>0, <2>3 DEF Spawn, Becomes
    <3>2. Moves(task[w], t)'
      BY <2>3, <2>4, <2>5, <3>1 DEF Moves
    <3> QED
      BY <3>2 DEF Supported
  <2>6. CASE rowTrip[a] # t
    <3>1. RowsKept(t)
      BY <2>3, <2>6 DEF RowsKept
    <3> QED
      BY <2>3, <3>1, SpawnLeaves, Undisturbed
  <2>7. CASE chain[t] = None
    <3>1. ~Ticking(t) /\ \A w \in Worker : Moves(task[w], t) => task[w].at # "expire"
      BY <2>7 DEF Ticking, Moves
    <3> QED
      BY <2>3, <3>1, SpawnLeaves, StillSupported
  <2> QED
    BY <2>5, <2>6, <2>7
<1>8. ASSUME NEW h \in Handler, Accept(h) \/ HandBack(h)
      PROVE  Supported(t)'
  <2>1. PICK a \in Assignment : a = request[h].row /\ rowTrip[a] \in Trip
    BY <1>8, RequestFacts DEF Accept, TakeTrip, HandBack, Reopen, DriverOps, SearchInv
  <2>2. rowTrip[a] # t
    BY <1>8, <2>1 DEF Accept, TakeTrip, HandBack, Reopen, SearchInv, Sound, TypeOK
  <2>3. /\ chain' = [chain EXCEPT ![rowTrip[a]] = None] /\ timer' = timer \ {a}
        /\ UNCHANGED <<search, exhausted>>
    BY <1>8, <2>1 DEF Accept, HandBack
  <2>4. \A w \in Worker : Moves(task[w], t) => task'[w] = task[w]
    BY <1>8, SpawnLeaves DEF Accept, HandBack
  <2>5. RowsKept(t)
    BY <1>8, <2>1, <2>2 DEF Accept, TakeTrip, HandBack, Reopen, RowsKept, SearchInv, Sound, TypeOK
  <2>6. chain'[t] = chain[t] /\ \A b \in timer : rowTrip[b] = t => b \in timer'
    BY <1>0, <2>2, <2>3
  <2> QED
    BY <2>3, <2>4, <2>5, <2>6, Undisturbed
<1>9. ASSUME NEW h \in Handler, Withdraw(h)
      PROVE  Supported(t)'
  <2>1. PICK u \in Trip : u = request[h].trip
    BY <1>9, RequestShape DEF Withdraw, CancelByPassenger, SearchInv, Sound
  <2>2. u # t
    BY <1>9, <2>1 DEF Withdraw, CancelByPassenger, CloseTrip, SearchInv, Sound, TypeOK
  <2>3. UNCHANGED <<search, task, exhausted>> /\ chain'[t] = chain[t]
    BY <1>0, <1>9, <2>1, <2>2 DEF Withdraw
  <2>4. RowsKept(t)
    BY <1>9, <2>1, <2>2 DEF Withdraw, CancelByPassenger, CloseRows, Rows, RowsKept
  <2>5. \A b \in timer : rowTrip[b] = t => b \in timer'
    <3>1. \A b \in CurrentOffer(u) : rowTrip[b] = u
      BY <1>0, <2>1 DEF CurrentOffer, SearchInv, Known, ChainsKnown, OffersKnown
    <3> QED
      BY <1>9, <2>1, <2>2, <3>1 DEF Withdraw
  <2> QED
    BY <2>3, <2>4, <2>5, Undisturbed
<1>10. CASE Ask \/ UNCHANGED dispatchVars
  <2>1. UNCHANGED <<memory, rowStatus>>
    BY <1>10 DEF Ask, BeginDriverOp, BeginWithdraw, GiveUp, StartShift, EndShift, rowVars, dispatchVars, vars
  <2> QED
    BY <2>1, Undisturbed DEF memory, RowsKept
<1>11. CASE CallFails \/ Crash
  <2>1. failures \in Nat /\ failures' = failures + 1
    BY <1>11, DispatchAssumption DEF CallFails, Crash, SearchInv, MemoryOK
  <2> QED
    BY <2>1
<1> QED
  BY <1>1, <1>2, <1>3, <1>4, <1>5, <1>6, <1>7, <1>8, <1>9, <1>10, <1>11 DEF DispatchNext, Answer

(* A trip enters the search with a call that begins it.                    *)
LEMMA SearchBegins ==
  ASSUME SearchInv, [DispatchNext]_dispatchVars, NEW t \in Trip,
         status[t] # "pending_assignment", status'[t] = "pending_assignment"
  PROVE  Supported(t)'
<1>0. task \in [Worker -> Task] /\ status \in [Trip -> TripStatus \cup {Unrequested}]
  BY DEF SearchInv, MemoryOK, Sound, TypeOK
<1>1. ASSUME Spawn(StartTask(t))
      PROVE  Supported(t)'
  <2>1. PICK r : r = StartTask(t) /\ Spawn(r)
    BY <1>1
  <2>2. r.at = "start" /\ r.trip = t
    BY <2>1 DEF StartTask, Rest
  <2>3. PICK w \in Worker : task'[w] = r
    BY <1>0, <2>1 DEF Spawn, Becomes
  <2>4. Moves(task[w], t)'
    BY <2>2, <2>3 DEF Moves
  <2> QED
    BY <2>4 DEF Supported
<1>2. CASE \E u \in Trip : Submit(u) \/ SearchExhausted(u)
  BY <1>0, <1>1, <1>2 DEF Submit, CreateTrip, SearchExhausted, MarkNoDriver, vars
<1>3. CASE \E h \in Handler : Answer(h)
  <2>1. PICK h \in Handler : Answer(h)
    BY <1>3
  <2>2. CASE HandBack(h)
    <3>1. rowTrip[request[h].row] \in Trip /\ Spawn(StartTask(rowTrip[request[h].row]))
      BY <2>2, RequestFacts DEF HandBack, Reopen, DriverOps, SearchInv
    <3>2. rowTrip[request[h].row] = t
      BY <1>0, <2>2, <3>1 DEF HandBack, Reopen
    <3> QED
      BY <1>1, <3>1, <3>2
  <2>3. CASE Decline(h) \/ Accept(h) \/ Withdraw(h)
    BY <1>0, <2>3 DEF Decline, Reject, Accept, TakeTrip, Withdraw, CancelByPassenger, CloseTrip, tripVars
  <2> QED
    BY <2>1, <2>2, <2>3 DEF Answer
<1>4. CASE UNCHANGED status
  BY <1>4
<1> QED
  BY <1>2, <1>3, <1>4
  DEF DispatchNext, Work, Start, Begin, Query, Offer, CreateOffer, Lost, Record, Expire, MarkTimeout,
      Declined, Lapse, OfferLapses, TimerFires, Retract, CancelOffer, Ask, BeginDriverOp, BeginWithdraw,
      GiveUp, StartShift, EndShift, CallFails, Crash, dispatchVars, vars, tripVars

StrandInv == SearchInv /\ SearchedIsUnowned /\ Turn /\ Recording /\ AllSupported

LEMMA StrandInvInit == DispatchInit => StrandInv
<1>1. DispatchInit => SearchInv /\ SearchedIsUnowned
  BY SearchInvInit, TakeInvInit DEF DispatchInit, TakeInv
<1>2. DispatchInit => Turn /\ Recording
  BY DEF DispatchInit, EmptyMemory, Turn, Recording, Rest
<1>3. DispatchInit => AllSupported
  BY DEF DispatchInit, Init, AllSupported, Unrequested
<1> QED
  BY <1>1, <1>2, <1>3 DEF StrandInv

LEMMA StrandInvStep ==
  ASSUME StrandInv, [DispatchNext /\ RecordedBeforeAnswered]_dispatchVars
  PROVE  StrandInv'
<1>1. CASE UNCHANGED dispatchVars
  <2>1. SearchInv'
    BY <1>1, SearchInvStep DEF StrandInv
  <2>2. SearchedIsUnowned' /\ Turn' /\ Recording' /\ AllSupported'
    BY <1>1 DEF StrandInv, SearchedIsUnowned, Turn, Recording, AllSupported, Supported, Ticking, Moves,
                dispatchVars, memory, vars
  <2> QED
    BY <2>1, <2>2 DEF StrandInv
<1>2. CASE DispatchNext /\ RecordedBeforeAnswered
  <2>1. SearchInv' /\ [Next]_vars
    BY <1>2, SearchInvStep DEF StrandInv
  <2>2. SearchedIsUnowned'
    BY <2>1, SearchedStep DEF StrandInv, SearchInv
  <2>3. Turn' /\ Recording'
    BY <1>2, TurnStep, RecordingStep DEF StrandInv
  <2>4. AllSupported'
    <3> SUFFICES ASSUME failures' = 0, NEW t \in Trip, status'[t] = "pending_assignment"
                 PROVE  Supported(t)'
      BY DEF AllSupported
    <3>1. failures = 0
      <4>1. failures' = failures \/ failures' = failures + 1
        BY <1>2 DEF DispatchNext, Submit, SearchExhausted, Work, Start, Begin, Query, Offer, Lost, Record,
                    Expire, Declined, Lapse, TimerFires, Retract, Answer, Decline, Accept, HandBack,
                    Withdraw, Ask, CallFails, Crash
      <4> QED
        BY <4>1, DispatchAssumption DEF StrandInv, SearchInv, MemoryOK
    <3>2. CASE status[t] = "pending_assignment"
      BY <1>2, <3>1, <3>2, SupportStep DEF StrandInv, AllSupported
    <3>3. CASE status[t] # "pending_assignment"
      BY <1>2, <3>3, SearchBegins DEF StrandInv
    <3> QED
      BY <3>2, <3>3
  <2> QED
    BY <2>1, <2>2, <2>3, <2>4 DEF StrandInv
<1> QED
  BY <1>1, <1>2

LEMMA SupportedIsNotStranded == StrandInv => NeverStranded
<1> SUFFICES ASSUME StrandInv, NEW t \in Trip, status[t] = "pending_assignment", failures = 0
             PROVE  \/ \E w \in Worker : task[w].trip = t
                    \/ t \in exhausted
                    \/ chain[t] # None /\ search[chain[t]].offer \in timer
  BY DEF NeverStranded
<1>1. Supported(t)
  BY DEF StrandInv, AllSupported
<1>2. \A w \in Worker : Moves(task[w], t) => task[w].trip = t
  BY DEF StrandInv, SearchInv, Known, TasksKnown, TaskKnown, ChainsKnown, Moves
<1> QED
  BY <1>1, <1>2 DEF Supported, Ticking

(* No trip is stranded, for any number of trips, drivers, searches and     *)
(* calls under way: while a trip looks for a driver, and nothing has       *)
(* failed, a call, an event or an armed timer will move its search on.     *)
THEOREM NobodyStranded == PromptSafety => []NeverStranded
BY StrandInvInit, StrandInvStep, SupportedIsNotStranded, PTL DEF PromptSafety

=============================================================================
