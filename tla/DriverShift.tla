---------------------------- MODULE DriverShift ----------------------------
(***************************************************************************)
(* The shift of drivers and their last position in fleet.driver: how they  *)
(* report it under their consent, how it is cleared when they revoke, end  *)
(* the shift or fall silent, and how it is shown to the passenger of their *)
(* trip.                                                                   *)
(*                                                                         *)
(* A request of a driver is a transaction that reads his consent under the *)
(* shared lock of the ledger and writes under it; a revocation waits for   *)
(* those and commits, and clears the position in a transaction of its own, *)
(* so the process may stop in between ("owed"). What the passenger sees is *)
(* read in three statements that no lock holds together. The hourly purge  *)
(* is one long transaction: it locks rows that others see unchanged until  *)
(* it commits. Of the trips, their taking and closing is kept as TripTaking*)
(* describes it, and only the statements on the driver's row matter here.  *)
(* The database stamps what a transaction writes with the time it began.   *)
(***************************************************************************)
EXTENDS ConsentLedger

CONSTANTS
  Company, CompanyOf,
  Trip,
  Request,      \* identities of drivers' requests in flight
  HideAfter,    \* DRIVER_LOCATION_SHARE_HIDE_SEC
  PurgeHours,   \* LOCATION_PURGE_HOURS
  MaxTime,      \* bound: the clock stops here
  MaxMisses,    \* bound: purges in a row that miss a company
  None

ASSUME ShiftAssumption ==
  /\ CompanyOf \in [Driver -> Company]
  /\ HideAfter \in Nat \ {0} /\ PurgeHours \in Nat \ {0}
  /\ MaxTime \in Nat /\ MaxMisses \in Nat
  /\ None \notin Nat /\ None \notin Driver

VARIABLES
  status,     \* fleet.driver.status
  position,   \* its location_updated_at, None without a position
  trip,       \* who holds each trip
  request,
  tracking,   \* the passenger's request to see his driver
  purge,
  due,        \* the purge of this hour has not begun
  now,
  owed,       \* history: revocations after which nothing was cleared
  misses,     \* history: purges in a row that did not reach a company
  covered     \* history: drivers whose consent covered sharing while the
              \* passenger's request was in flight

driverVars == <<status, position, owed>>
purgeVars  == <<purge, due, misses>>
trackVars  == <<tracking, covered>>
vars == <<ledgerVars, driverVars, trip, request, trackVars, purgeVars, now>>

Moment == 0..MaxTime
Status == {"off_shift", "available", "on_trip", "suspended"}
Idle   == [op |-> "idle"]

(* The transactions that write a position, before and after the consent    *)
(* was read; a look at the status between two of them; and the two halves  *)
(* of a revocation.                                                        *)
RequestState ==
  {Idle}
    \cup [op : {"start", "refresh", "report"}, driver : Driver, began : Moment, locked : BOOLEAN]
    \cup [op : {"look", "clear"}, driver : Driver]
    \cup [op : {"grant"}, driver : Driver, began : 1..MaxCalls, version : Version]
    \cup [op : {"revoke"}, driver : Driver, began : 1..MaxCalls]

TripRow ==
  [at : {"open", "closed"}]
    \cup [at : {"window", "riding"}, driver : Driver, assigned : Moment]

Tracking ==
  {Idle}
    \cup [op : {"begun"}, trip : Trip]
    \cup [op : {"accepted", "checked"}, trip : Trip, driver : Driver \cup {None}]
    \cup [op : {"shown"}, trip : Trip, driver : Driver, position : Moment]

Purge == {Idle} \cup [op : {"running"}, began : Moment, todo : SUBSET Company,
                      done : SUBSET Company, cleared : SUBSET Driver]

TypeOK ==
  /\ LedgerTypeOK
  /\ status \in [Driver -> Status]
  /\ position \in [Driver -> Moment \cup {None}]
  /\ trip \in [Trip -> TripRow]
  /\ request \in [Request -> RequestState]
  /\ tracking \in Tracking /\ covered \subseteq Driver
  /\ purge \in Purge /\ due \in BOOLEAN
  /\ now \in Moment
  /\ owed \in [Driver -> BOOLEAN]
  /\ misses \in [Company -> 0..MaxMisses]

(* Drivers at home, or in a shift they opened when the notice they granted *)
(* was the current one.                                                    *)
Init ==
  /\ LedgerInit
  /\ status \in [Driver -> {"off_shift", "available"}]
  /\ \A d \in Driver : status[d] = "available" => Granted(d)
  /\ position = [d \in Driver |-> IF status[d] = "available" THEN 0 ELSE None]
  /\ trip = [t \in Trip |-> [at |-> "open"]]
  /\ request = [r \in Request |-> Idle]
  /\ tracking = Idle /\ covered = {}
  /\ purge = Idle /\ due = FALSE /\ misses = [c \in Company |-> 0]
  /\ now = 0
  /\ owed = [d \in Driver |-> FALSE]

-----------------------------------------------------------------------------
(* Locks: the shared lock of the ledger is held from the read of the       *)
(* consent on; the purge holds the rows it cleared.                        *)

Become(r, q) == request' = [request EXCEPT ![r] = q]

(* Mutant: the consent is read without its lock.                           *)
NeverShared(d) == FALSE

SharedLock(d) ==
  \E r \in Request : /\ request[r].op \in {"start", "refresh", "report"}
                     /\ request[r].driver = d /\ request[r].locked

RowLocked(d) == purge.op = "running" /\ d \in purge.cleared

-----------------------------------------------------------------------------
(* Shift and position.                                                     *)

BeginWrite(r, op, d) ==
  /\ request[r] = Idle
  /\ op \in {"start", "report"}
  /\ Become(r, [op |-> op, driver |-> d, began |-> now, locked |-> FALSE])
  /\ UNCHANGED <<ledgerVars, driverVars, trip, trackVars, purgeVars, now>>

(* isLocationConsentAccepted: a shift takes the current version, a report  *)
(* any.                                                                    *)
ConsentAccepted(op, d) ==
  IF op = "report" THEN Granted(d) ELSE GrantedVersion(d, Current)

WithLocationConsent(r) ==
  LET q == request[r]
  IN  /\ q.op \in {"start", "refresh", "report"} /\ ~q.locked
      /\ ConsentAccepted(q.op, q.driver)
      /\ Become(r, [q EXCEPT !.locked = TRUE])
      /\ UNCHANGED <<ledgerVars, driverVars, trip, trackVars, purgeVars, now>>

WritePosition(d, began) == position' = [position EXCEPT ![d] = began]

StartShift(r) ==
  LET q == request[r]
  IN  /\ q.op = "start" /\ q.locked /\ ~RowLocked(q.driver)
      /\ \/ /\ status[q.driver] \in {"off_shift", "available"}
            /\ status' = [status EXCEPT ![q.driver] = "available"]
            /\ WritePosition(q.driver, q.began)
            /\ Become(r, Idle)
         \/ /\ status[q.driver] \notin {"off_shift", "available"}
            /\ Become(r, [op |-> "look", driver |-> q.driver])
            /\ UNCHANGED <<status, position>>
      /\ UNCHANGED <<ledgerVars, owed, trip, trackVars, purgeVars, now>>

(* A driver who is not on a trip is refused (Fails).                       *)
LookAtStatus(r) ==
  LET d == request[r].driver
  IN  /\ request[r].op = "look"
      /\ status[d] = "on_trip"
      /\ Become(r, [op |-> "refresh", driver |-> d, began |-> now, locked |-> FALSE])
      /\ UNCHANGED <<ledgerVars, driverVars, trip, trackVars, purgeVars, now>>

RefreshLocationWhileOnTrip(r) ==
  LET q == request[r]
  IN  /\ q.op = "refresh" /\ q.locked /\ ~RowLocked(q.driver)
      /\ \/ status[q.driver] = "on_trip" /\ WritePosition(q.driver, q.began)
         \/ status[q.driver] # "on_trip" /\ UNCHANGED position
      /\ Become(r, Idle)
      /\ UNCHANGED <<ledgerVars, status, owed, trip, trackVars, purgeVars, now>>

ReportLocation(r) ==
  LET q == request[r]
  IN  /\ q.op = "report" /\ q.locked /\ ~RowLocked(q.driver)
      /\ \/ status[q.driver] \in {"available", "on_trip"} /\ WritePosition(q.driver, q.began)
         \/ status[q.driver] \notin {"available", "on_trip"} /\ UNCHANGED position
      /\ Become(r, Idle)
      /\ UNCHANGED <<ledgerVars, status, owed, trip, trackVars, purgeVars, now>>

(* A driver on a trip or suspended is refused, which changes nothing.      *)
EndShift(d) ==
  /\ ~RowLocked(d)
  /\ status[d] \in {"off_shift", "available"}
  /\ status' = [status EXCEPT ![d] = "off_shift"]
  /\ position' = [position EXCEPT ![d] = None]
  /\ UNCHANGED <<ledgerVars, owed, trip, request, trackVars, purgeVars, now>>

(* By the company: a suspension and a new PIN leave the position.          *)
Suspend(d) ==
  /\ ~RowLocked(d)
  /\ status[d] # "on_trip"
  /\ status' = [status EXCEPT ![d] = "suspended"]
  /\ UNCHANGED <<ledgerVars, position, owed, trip, request, trackVars, purgeVars, now>>

RotatePin(d) ==
  /\ ~RowLocked(d)
  /\ status[d] = "available"
  /\ status' = [status EXCEPT ![d] = "off_shift"]
  /\ UNCHANGED <<ledgerVars, position, owed, trip, request, trackVars, purgeVars, now>>

-----------------------------------------------------------------------------
(* Grants and revocations.                                                 *)

BeginGrant(r, d, v) ==
  /\ request[r] = Idle
  /\ BeginCall
  /\ Become(r, [op |-> "grant", driver |-> d, began |-> calls + 1, version |-> v])
  /\ UNCHANGED <<ledger, driverVars, trip, trackVars, purgeVars, now>>

Covering == { d \in Driver : CoversLocationSharing(d) }

(* The history notes what a tracking request in flight may see.            *)
GrantConsent(r) ==
  LET q == request[r]
  IN  /\ q.op = "grant"
      /\ ~SharedLock(q.driver)
      /\ Grant(q.driver, q.began, q.version)
      /\ Become(r, Idle)
      /\ covered' = IF tracking = Idle THEN covered ELSE covered \cup Covering'
      /\ UNCHANGED <<calls, driverVars, trip, tracking, purgeVars, now>>

BeginRevoke(r, d) ==
  /\ request[r] = Idle
  /\ BeginCall
  /\ Become(r, [op |-> "revoke", driver |-> d, began |-> calls + 1])
  /\ UNCHANGED <<ledger, driverVars, trip, trackVars, purgeVars, now>>

(* The event is emitted whatever the ledger said before.                   *)
RevokeConsent(r) ==
  LET q == request[r]
  IN  /\ q.op = "revoke"
      /\ ~SharedLock(q.driver)
      /\ Revoke(q.driver, q.began)
      /\ Become(r, [op |-> "clear", driver |-> q.driver])
      /\ owed' = [owed EXCEPT ![q.driver] = TRUE]
      /\ UNCHANGED <<calls, status, position, trip, trackVars, purgeVars, now>>

(* onConsentRevoked.                                                       *)
ClearLocationAfterConsentRevoked(r) ==
  LET d == request[r].driver
  IN  /\ request[r].op = "clear" /\ ~RowLocked(d)
      /\ position' = [position EXCEPT ![d] = None]
      /\ status' = [status EXCEPT ![d] = IF @ = "available" THEN "off_shift" ELSE @]
      /\ owed' = [owed EXCEPT ![d] = FALSE]
      /\ Become(r, Idle)
      /\ UNCHANGED <<ledgerVars, trip, trackVars, purgeVars, now>>

(* A request is refused or fails, or its process stops.                    *)
Fails(r) ==
  /\ request[r] # Idle
  /\ Become(r, Idle)
  /\ UNCHANGED <<ledgerVars, driverVars, trip, trackVars, purgeVars, now>>

-----------------------------------------------------------------------------
(* The statements of a trip on the row of its driver.                      *)

(* The transaction of the taking may have begun before the clock moved.    *)
TakeTrip(t, d) ==
  /\ trip[t].at = "open" /\ status[d] = "available" /\ ~RowLocked(d)
  /\ status' = [status EXCEPT ![d] = "on_trip"]
  /\ \E assigned \in Moment :
       /\ assigned <= now /\ now <= assigned + 1
       /\ trip' = [trip EXCEPT ![t] = [at |-> "window", driver |-> d, assigned |-> assigned]]
  /\ UNCHANGED <<ledgerVars, position, owed, request, trackVars, purgeVars, now>>

(* Mutant: every driver who leaves a trip is available.                    *)
ReleaseAvailable(d) ==
  /\ ~RowLocked(d)
  /\ status' = [status EXCEPT ![d] = "available"]

(* A driver whose position was cleared meanwhile goes home.                *)
ReleaseDriver(d) ==
  /\ ~RowLocked(d)
  /\ status' = [status EXCEPT ![d] = IF position[d] = None THEN "off_shift" ELSE "available"]

(* The driver gives the trip back, or it ends before or after the start.   *)
LeaveTrip(t, at) ==
  /\ \/ trip[t].at = "window" /\ at \in {"open", "closed"}
     \/ trip[t].at = "riding" /\ at = "closed"
  /\ ReleaseDriver(trip[t].driver)
  /\ trip' = [trip EXCEPT ![t] = [at |-> at]]
  /\ UNCHANGED <<ledgerVars, position, owed, request, trackVars, purgeVars, now>>

StartTrip(t) ==
  /\ trip[t].at = "window"
  /\ trip' = [trip EXCEPT ![t].at = "riding"]
  /\ UNCHANGED <<ledgerVars, driverVars, request, trackVars, purgeVars, now>>

-----------------------------------------------------------------------------
(* What the passenger is shown of his driver.                              *)

BeginTracking(t) ==
  /\ tracking.op \in {"idle", "shown"}
  /\ trip[t].at = "window"
  /\ tracking' = [op |-> "begun", trip |-> t]
  /\ covered' = Covering
  /\ UNCHANGED <<ledgerVars, driverVars, trip, request, purgeVars, now>>

GetAcceptedDriverId ==
  LET row == trip[tracking.trip]
  IN  /\ tracking.op = "begun"
      /\ tracking' = [op |-> "accepted", trip |-> tracking.trip,
                      driver |-> IF row.at \in {"window", "riding"} THEN row.driver ELSE None]
      /\ UNCHANGED <<ledgerVars, driverVars, trip, request, covered, purgeVars, now>>

(* The consent is read without its lock.                                   *)
CheckSharing ==
  LET d == tracking.driver
  IN  /\ tracking.op = "accepted"
      /\ tracking' = [op |-> "checked", trip |-> tracking.trip,
                      driver |-> IF d # None /\ CoversLocationSharing(d) THEN d ELSE None]
      /\ UNCHANGED <<ledgerVars, driverVars, trip, request, covered, purgeVars, now>>

(* Mutant: the snapshot asks for whoever holds the trip by now.            *)
ShowableOfHolder(t, d) ==
  /\ d # None
  /\ trip[t].at = "window"
  /\ position[trip[t].driver] # None
  /\ position[trip[t].driver] >= trip[t].assigned
  /\ position[trip[t].driver] + HideAfter > now

Showable(t, d) ==
  /\ d # None
  /\ trip[t].at = "window" /\ trip[t].driver = d
  /\ position[d] # None
  /\ position[d] >= trip[t].assigned
  /\ position[d] + HideAfter > now

GetTrackingSnapshot ==
  LET t == tracking.trip
  IN  /\ tracking.op = "checked"
      /\ tracking' = IF Showable(t, tracking.driver)
                     THEN [op |-> "shown", trip |-> t, driver |-> trip[t].driver,
                           position |-> position[trip[t].driver]]
                     ELSE Idle
      /\ covered' = IF Showable(t, tracking.driver) THEN covered ELSE {}
      /\ UNCHANGED <<ledgerVars, driverVars, trip, request, purgeVars, now>>

-----------------------------------------------------------------------------
(* The purge. Time moves on after the purge of the hour, and a transaction *)
(* of a driver is over before it moves twice.                              *)

Tick ==
  /\ now < MaxTime
  /\ ~due /\ purge = Idle
  /\ \A r \in Request :
       request[r].op \in {"start", "refresh", "report"} => request[r].began = now
  /\ now' = now + 1
  /\ due' = TRUE
  /\ UNCHANGED <<ledgerVars, driverVars, trip, request, trackVars, purge, misses>>

BeginPurge ==
  /\ due
  /\ due' = FALSE
  /\ purge' = [op |-> "running", began |-> now, todo |-> Company, done |-> {}, cleared |-> {}]
  /\ UNCHANGED <<ledgerVars, driverVars, trip, request, trackVars, misses, now>>

(* Mutant: only positions of drivers at home are cleared.                  *)
PurgeableAtHome(d) == position[d] # None /\ status[d] = "off_shift"

Purgeable(d) ==
  /\ position[d] # None
  /\ status[d] = "off_shift" \/ position[d] + PurgeHours < purge.began

PurgeStaleLocations(c) ==
  /\ purge.op = "running" /\ c \in purge.todo
  /\ purge' = [purge EXCEPT
       !.todo = @ \ {c}, !.done = @ \cup {c},
       !.cleared = @ \cup { d \in Driver : CompanyOf[d] = c /\ Purgeable(d) }]
  /\ UNCHANGED <<ledgerVars, driverVars, trip, request, trackVars, due, misses, now>>

(* The statement fails and its savepoint is rolled back.                   *)
MissCompany(c) ==
  /\ purge.op = "running" /\ c \in purge.todo
  /\ misses[c] < MaxMisses
  /\ purge' = [purge EXCEPT !.todo = @ \ {c}]
  /\ UNCHANGED <<ledgerVars, driverVars, trip, request, trackVars, due, misses, now>>

CommitPurge ==
  /\ purge.op = "running" /\ purge.todo = {}
  /\ position' = [d \in Driver |-> IF d \in purge.cleared THEN None ELSE position[d]]
  /\ misses' = [c \in Company |-> IF c \in purge.done THEN 0 ELSE misses[c] + 1]
  /\ purge' = Idle
  /\ UNCHANGED <<ledgerVars, status, owed, trip, request, trackVars, due, now>>

(* The transaction fails or its process stops.                             *)
AbortPurge ==
  /\ purge.op = "running"
  /\ \A c \in Company : misses[c] < MaxMisses
  /\ misses' = [c \in Company |-> misses[c] + 1]
  /\ purge' = Idle
  /\ UNCHANGED <<ledgerVars, driverVars, trip, request, trackVars, due, now>>

-----------------------------------------------------------------------------

DriverCall(r, d) ==
  \/ \E op \in {"start", "report"} : BeginWrite(r, op, d)
  \/ \E v \in Version : BeginGrant(r, d, v)
  \/ BeginRevoke(r, d)

Serve(r) ==
  \/ WithLocationConsent(r) \/ StartShift(r) \/ LookAtStatus(r)
  \/ RefreshLocationWhileOnTrip(r) \/ ReportLocation(r)
  \/ GrantConsent(r) \/ RevokeConsent(r) \/ ClearLocationAfterConsentRevoked(r)
  \/ Fails(r)

Drive(t) ==
  \/ \E d \in Driver : TakeTrip(t, d)
  \/ \E at \in {"open", "closed"} : LeaveTrip(t, at)
  \/ StartTrip(t)

Track == (\E t \in Trip : BeginTracking(t)) \/ GetAcceptedDriverId \/ CheckSharing \/ GetTrackingSnapshot

RunPurge ==
  \/ BeginPurge \/ CommitPurge \/ AbortPurge
  \/ \E c \in Company : PurgeStaleLocations(c) \/ MissCompany(c)

Next ==
  \/ \E r \in Request : Serve(r) \/ \E d \in Driver : DriverCall(r, d)
  \/ \E d \in Driver : EndShift(d) \/ Suspend(d) \/ RotatePin(d)
  \/ \E t \in Trip : Drive(t)
  \/ Track \/ RunPurge \/ Tick

Spec == Init /\ [][Next]_vars

-----------------------------------------------------------------------------
(* No position is stored but under a consent in force at that moment, and  *)
(* no shift is opened but under the current notice: a revocation cannot    *)
(* slip in between the read of the consent and the write.                  *)
StoredUnderConsent ==
  [][\A d \in Driver :
       /\ position'[d] \notin {None, position[d]} => Granted(d)
       /\ status[d] = "off_shift" /\ status'[d] = "available" => GrantedVersion(d, Current)]_vars

(* A driver who revoked has no position and is not available once the      *)
(* revocation was carried through, whatever reports, shifts or ends of     *)
(* trips it met on the way.                                                *)
RevokedIsOut ==
  \A d \in Driver : Revoked(d) /\ ~owed[d] => position[d] = None /\ status[d] # "available"

(* What a passenger is shown is the position of the driver who holds the   *)
(* trip at that moment, sent since he took it and not too old, and his     *)
(* consent covered it at some moment of the request.                       *)
ShownToHisPassenger ==
  [][tracking' # tracking /\ tracking'.op = "shown" =>
       LET d == tracking'.driver
           row == trip[tracking'.trip]
       IN  /\ row.at = "window" /\ row.driver = d
           /\ tracking'.position >= row.assigned /\ tracking'.position + HideAfter > now
           /\ d \in covered]_vars

(* A position is kept an hour longer than the purge allows, and one more   *)
(* for each purge in a row that missed the company.                        *)
KeptAtMost ==
  \A d \in Driver :
    position[d] # None => now <= position[d] + PurgeHours + 1 + misses[CompanyOf[d]]

=============================================================================
