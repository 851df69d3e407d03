------------------------- MODULE DriverShiftProofs -------------------------
(***************************************************************************)
(* What holds of drivers, their consents and positions for any drivers,    *)
(* companies, trips and requests. Three arguments share the types: while a *)
(* transaction holds the shared lock, the consent it read stands           *)
(* (ConsentInv); what a tracking request saw of a consent its history      *)
(* knows (CoveredInv); and a position is as young as the purges that have  *)
(* passed by leave it (KeptInv).                                           *)
(***************************************************************************)
EXTENDS DriverShift, TLAPS

-----------------------------------------------------------------------------
(* Types.                                                                  *)

Writes      == {"start", "refresh", "report"}
WriteState  == [op : Writes, driver : Driver, began : Moment, locked : BOOLEAN]
LookState   == [op : {"look", "clear"}, driver : Driver]
GrantState  == [op : {"grant"}, driver : Driver, began : 1..MaxCalls, version : Version]
RevokeState == [op : {"revoke"}, driver : Driver, began : 1..MaxCalls]

LEMMA StatesAre == RequestState = {Idle} \cup WriteState \cup LookState \cup GrantState \cup RevokeState
  BY DEF RequestState, WriteState, Writes, LookState, GrantState, RevokeState

LEMMA RequestShapes ==
  ASSUME request \in [Request -> RequestState], NEW r \in Request
  PROVE  /\ request[r].op \in Writes => request[r] \in WriteState
         /\ request[r].op \in {"look", "clear"} => request[r] \in LookState
         /\ request[r].op = "grant" => request[r] \in GrantState
         /\ request[r].op = "revoke" => request[r] \in RevokeState
<1>1. request[r] \in {Idle} \cup WriteState \cup LookState \cup GrantState \cup RevokeState
  BY StatesAre
<1> QED  BY <1>1 DEF Idle, Writes, WriteState, LookState, GrantState, RevokeState

LEMMA IdleTyped == Idle \in RequestState /\ Idle \in Tracking /\ Idle \in Purge
  BY DEF RequestState, Tracking, Purge

(* A request that becomes what it may leaves the requests typed.           *)
LEMMA BecomeTyped ==
  ASSUME TypeOK, NEW r \in Request, NEW q \in RequestState, Become(r, q)
  PROVE  /\ request' \in [Request -> RequestState]
         /\ request'[r] = q /\ \A s \in Request \ {r} : request'[s] = request[s]
  BY DEF TypeOK, Become

(* What a held trip says.                                                  *)
LEMMA TripShapes ==
  ASSUME trip \in [Trip -> TripRow], NEW t \in Trip, trip[t].at \in {"window", "riding"}
  PROVE  trip[t] \in [at : {"window", "riding"}, driver : Driver, assigned : Moment]
  BY DEF TripRow

LEMMA PurgeShape ==
  ASSUME purge \in Purge, purge.op = "running"
  PROVE  purge \in [op : {"running"}, began : Moment, todo : SUBSET Company,
                    done : SUBSET Company, cleared : SUBSET Driver]
  BY DEF Purge, Idle

LEMMA TrackingShapes ==
  ASSUME tracking \in Tracking
  PROVE  /\ tracking.op = "begun" => tracking.trip \in Trip
         /\ tracking.op \in {"accepted", "checked"} =>
              tracking.trip \in Trip /\ tracking.driver \in Driver \cup {None}
  BY DEF Tracking, Idle

LEMMA TypeStart == Init => TypeOK
<1> SUFFICES ASSUME Init PROVE TypeOK
  OBVIOUS
<1> USE LedgerAssumption, ShiftAssumption
<1>1. LedgerTypeOK
  BY DEF Init, LedgerInit, LedgerTypeOK, Entry
<1>2. status \in [Driver -> Status] /\ position \in [Driver -> Moment \cup {None}]
  BY DEF Init, Status, Moment
<1>3. trip \in [Trip -> TripRow]
  BY DEF Init, TripRow
<1>4. request \in [Request -> RequestState] /\ tracking \in Tracking /\ purge \in Purge
  BY IdleTyped DEF Init
<1>5. now \in Moment /\ misses \in [Company -> 0..MaxMisses]
  BY DEF Init, Moment
<1>6. covered \subseteq Driver /\ due \in BOOLEAN
  BY DEF Init
<1>7. owed \in [Driver -> BOOLEAN]
  BY DEF Init
<1> QED  BY <1>1, <1>2, <1>3, <1>4, <1>5, <1>6, <1>7 DEF TypeOK

(* The ledger is typed after a grant or a revocation.                      *)
LEMMA LedgerTyped ==
  ASSUME LedgerTypeOK, NEW d \in Driver, NEW n \in 1..MaxCalls,
         (\E v \in Version : Grant(d, n, v)) \/ Revoke(d, n), UNCHANGED calls
  PROVE  LedgerTypeOK'
<1>1. ASSUME NEW action \in {"granted", "revoked"}, NEW v \in Version, AddEntry(d, n, action, v)
      PROVE  ledger' \in [Driver -> SUBSET Entry]
  <2>1. [began |-> n, action |-> action, version |-> v] \in Entry
    BY LedgerAssumption DEF Entry
  <2> QED  BY <1>1, <2>1 DEF AddEntry, LedgerTypeOK
<1>2. ledger' \in [Driver -> SUBSET Entry]
  BY <1>1 DEF Grant, Revoke, LedgerTypeOK
<1> QED  BY <1>2 DEF LedgerTypeOK

(* A call that begins is counted.                                          *)
LEMMA CallCounted ==
  ASSUME TypeOK, BeginCall
  PROVE  calls' \in 0..MaxCalls /\ calls + 1 \in 1..MaxCalls
  BY LedgerAssumption DEF TypeOK, LedgerTypeOK, BeginCall

LEMMA ServeTyped ==
  ASSUME TypeOK, NEW r \in Request, Serve(r)
  PROVE  TypeOK'
<1> USE IdleTyped
<1>1. request \in [Request -> RequestState]
  BY DEF TypeOK
<1>2. CASE WithLocationConsent(r)
  <2> DEFINE q == [request[r] EXCEPT !.locked = TRUE]
  <2>1. request[r] \in WriteState
    BY <1>1, <1>2, RequestShapes DEF WithLocationConsent, Writes
  <2>2. q \in RequestState
    BY <2>1, StatesAre DEF WriteState
  <2>3. Become(r, q)
    BY <1>2 DEF WithLocationConsent
  <2> HIDE DEF q
  <2>4. request' \in [Request -> RequestState]
    BY <2>2, <2>3, BecomeTyped
  <2> QED  BY <1>2, <2>4 DEF WithLocationConsent, TypeOK, LedgerTypeOK, ledgerVars,
                             driverVars, trackVars, purgeVars
<1>3. CASE StartShift(r)
  <2>1. request[r] \in WriteState
    BY <1>1, <1>3, RequestShapes DEF StartShift, Writes
  <2>2. request[r].driver \in Driver /\ request[r].began \in Moment
    BY <2>1 DEF WriteState
  <2>3. [op |-> "look", driver |-> request[r].driver] \in RequestState
    BY <2>2, StatesAre DEF LookState
  <2>4. request' \in [Request -> RequestState]
    BY <1>3, <2>3, BecomeTyped DEF StartShift
  <2>5. status' \in [Driver -> Status] /\ position' \in [Driver -> Moment \cup {None}]
    BY <1>3, <2>2 DEF StartShift, WritePosition, TypeOK, Status
  <2> QED  BY <1>3, <2>4, <2>5 DEF StartShift, TypeOK, LedgerTypeOK, ledgerVars,
                                   trackVars, purgeVars
<1>4. CASE LookAtStatus(r)
  <2>1. request[r].driver \in Driver
    BY <1>1, <1>4, RequestShapes DEF LookAtStatus, LookState
  <2>2. [op |-> "refresh", driver |-> request[r].driver, began |-> now, locked |-> FALSE]
          \in RequestState
    BY <2>1, StatesAre DEF WriteState, Writes, TypeOK
  <2>3. request' \in [Request -> RequestState]
    BY <1>4, <2>2, BecomeTyped DEF LookAtStatus
  <2> QED  BY <1>4, <2>3 DEF LookAtStatus, TypeOK, LedgerTypeOK, ledgerVars,
                             driverVars, trackVars, purgeVars
<1>5. CASE RefreshLocationWhileOnTrip(r) \/ ReportLocation(r)
  <2>1. request[r] \in WriteState
    BY <1>1, <1>5, RequestShapes DEF RefreshLocationWhileOnTrip, ReportLocation, Writes
  <2>2. request[r].driver \in Driver /\ request[r].began \in Moment
    BY <2>1 DEF WriteState
  <2>3. request' \in [Request -> RequestState]
    BY <1>5, BecomeTyped DEF RefreshLocationWhileOnTrip, ReportLocation
  <2>4. position' \in [Driver -> Moment \cup {None}]
    BY <1>5, <2>2 DEF RefreshLocationWhileOnTrip, ReportLocation, WritePosition, TypeOK
  <2> QED  BY <1>5, <2>3, <2>4 DEF RefreshLocationWhileOnTrip, ReportLocation, TypeOK,
                                   LedgerTypeOK, ledgerVars, trackVars, purgeVars
<1>6. CASE GrantConsent(r)
  <2>1. request[r] \in GrantState
    BY <1>1, <1>6, RequestShapes DEF GrantConsent
  <2>2. request[r].driver \in Driver /\ request[r].began \in 1..MaxCalls /\ request[r].version \in Version
    BY <2>1 DEF GrantState
  <2>3. request' \in [Request -> RequestState]
    BY <1>6, BecomeTyped DEF GrantConsent
  <2>4. LedgerTypeOK'
    BY <1>6, <2>2, LedgerTyped DEF GrantConsent, TypeOK
  <2>5. covered' \subseteq Driver
    BY <1>6 DEF GrantConsent, TypeOK, Covering
  <2> QED  BY <1>6, <2>3, <2>4, <2>5 DEF GrantConsent, TypeOK, driverVars, purgeVars
<1>7. CASE RevokeConsent(r)
  <2>1. request[r] \in RevokeState
    BY <1>1, <1>7, RequestShapes DEF RevokeConsent
  <2>2. request[r].driver \in Driver /\ request[r].began \in 1..MaxCalls
    BY <2>1 DEF RevokeState
  <2>3. [op |-> "clear", driver |-> request[r].driver] \in RequestState
    BY <2>2, StatesAre DEF LookState
  <2>4. request' \in [Request -> RequestState]
    BY <1>7, <2>3, BecomeTyped DEF RevokeConsent
  <2>5. LedgerTypeOK'
    BY <1>7, <2>2, LedgerTyped DEF RevokeConsent, TypeOK
  <2>6. owed' \in [Driver -> BOOLEAN]
    BY <1>7 DEF RevokeConsent, TypeOK
  <2> QED  BY <1>7, <2>4, <2>5, <2>6 DEF RevokeConsent, TypeOK, trackVars, purgeVars
<1>8. CASE ClearLocationAfterConsentRevoked(r)
  <2>1. request[r].driver \in Driver
    BY <1>1, <1>8, RequestShapes DEF ClearLocationAfterConsentRevoked, LookState
  <2>2. request' \in [Request -> RequestState]
    BY <1>8, BecomeTyped DEF ClearLocationAfterConsentRevoked
  <2>3. status' \in [Driver -> Status] /\ position' \in [Driver -> Moment \cup {None}]
    BY <1>8, <2>1 DEF ClearLocationAfterConsentRevoked, TypeOK, Status
  <2>4. owed' \in [Driver -> BOOLEAN]
    BY <1>8 DEF ClearLocationAfterConsentRevoked, TypeOK
  <2> QED  BY <1>8, <2>2, <2>3, <2>4 DEF ClearLocationAfterConsentRevoked, TypeOK, LedgerTypeOK,
                                         ledgerVars, trackVars, purgeVars
<1>9. CASE Fails(r)
  <2>1. request' \in [Request -> RequestState]
    BY <1>9, BecomeTyped DEF Fails
  <2> QED  BY <1>9, <2>1 DEF Fails, TypeOK, LedgerTypeOK, ledgerVars, driverVars, trackVars, purgeVars
<1> QED  BY <1>2, <1>3, <1>4, <1>5, <1>6, <1>7, <1>8, <1>9 DEF Serve

LEMMA CallTyped ==
  ASSUME TypeOK, NEW r \in Request, NEW d \in Driver, DriverCall(r, d)
  PROVE  TypeOK'
<1>1. ASSUME NEW op \in {"start", "report"}, BeginWrite(r, op, d) PROVE TypeOK'
  <2>1. [op |-> op, driver |-> d, began |-> now, locked |-> FALSE] \in RequestState
    BY StatesAre DEF WriteState, Writes, TypeOK
  <2>2. request' \in [Request -> RequestState]
    BY <1>1, <2>1, BecomeTyped DEF BeginWrite
  <2> QED  BY <1>1, <2>2 DEF BeginWrite, TypeOK, LedgerTypeOK, ledgerVars, driverVars,
                             trackVars, purgeVars
<1>2. ASSUME NEW v \in Version, BeginGrant(r, d, v) PROVE TypeOK'
  <2>1. calls' \in 0..MaxCalls /\ calls + 1 \in 1..MaxCalls
    BY <1>2, CallCounted DEF BeginGrant
  <2>2. [op |-> "grant", driver |-> d, began |-> calls + 1, version |-> v] \in RequestState
    BY <2>1, StatesAre DEF GrantState
  <2>3. request' \in [Request -> RequestState]
    BY <1>2, <2>2, BecomeTyped DEF BeginGrant
  <2> QED  BY <1>2, <2>1, <2>3 DEF BeginGrant, TypeOK, LedgerTypeOK, driverVars, trackVars, purgeVars
<1>3. CASE BeginRevoke(r, d)
  <2>1. calls' \in 0..MaxCalls /\ calls + 1 \in 1..MaxCalls
    BY <1>3, CallCounted DEF BeginRevoke
  <2>2. [op |-> "revoke", driver |-> d, began |-> calls + 1] \in RequestState
    BY <2>1, StatesAre DEF RevokeState
  <2>3. request' \in [Request -> RequestState]
    BY <1>3, <2>2, BecomeTyped DEF BeginRevoke
  <2> QED  BY <1>3, <2>1, <2>3 DEF BeginRevoke, TypeOK, LedgerTypeOK, driverVars, trackVars, purgeVars
<1> QED  BY <1>1, <1>2, <1>3 DEF DriverCall

LEMMA DriveTyped ==
  ASSUME TypeOK, NEW t \in Trip, Drive(t)
  PROVE  TypeOK'
<1> USE DEF LedgerTypeOK, ledgerVars, trackVars, purgeVars
<1>1. ASSUME NEW d \in Driver, TakeTrip(t, d) PROVE TypeOK'
  <2>1. status' \in [Driver -> Status]
    BY <1>1 DEF TakeTrip, TypeOK, Status
  <2>2. trip' \in [Trip -> TripRow]
    BY <1>1 DEF TakeTrip, TypeOK, TripRow
  <2> QED  BY <1>1, <2>1, <2>2 DEF TakeTrip, TypeOK
<1>2. ASSUME NEW at \in {"open", "closed"}, LeaveTrip(t, at) PROVE TypeOK'
  <2>1. status' \in [Driver -> Status]
    BY <1>2 DEF LeaveTrip, ReleaseDriver, TypeOK, Status
  <2>2. trip' \in [Trip -> TripRow]
    BY <1>2 DEF LeaveTrip, TypeOK, TripRow
  <2> QED  BY <1>2, <2>1, <2>2 DEF LeaveTrip, TypeOK
<1>3. CASE StartTrip(t)
  <2> DEFINE row == [trip[t] EXCEPT !.at = "riding"]
  <2>1. trip[t] \in [at : {"window", "riding"}, driver : Driver, assigned : Moment]
    BY <1>3, TripShapes DEF StartTrip, TypeOK
  <2>2. row \in TripRow
    BY <2>1 DEF TripRow
  <2>3. trip' = [trip EXCEPT ![t] = row]
    BY <1>3 DEF StartTrip
  <2> HIDE DEF row
  <2>4. trip' \in [Trip -> TripRow]
    BY <2>2, <2>3 DEF TypeOK
  <2> QED  BY <1>3, <2>4 DEF StartTrip, TypeOK, driverVars
<1> QED  BY <1>1, <1>2, <1>3 DEF Drive

LEMMA HomeTyped ==
  ASSUME TypeOK, NEW d \in Driver, EndShift(d) \/ Suspend(d) \/ RotatePin(d)
  PROVE  TypeOK'
<1>1. status' \in [Driver -> Status] /\ position' \in [Driver -> Moment \cup {None}]
  BY DEF EndShift, Suspend, RotatePin, TypeOK, Status
<1> QED  BY <1>1 DEF EndShift, Suspend, RotatePin, TypeOK, LedgerTypeOK, ledgerVars, trackVars, purgeVars

LEMMA TrackTyped == TypeOK /\ Track => TypeOK'
<1> SUFFICES ASSUME TypeOK, Track PROVE TypeOK'
  OBVIOUS
<1> USE DEF LedgerTypeOK, ledgerVars, driverVars, purgeVars
<1>1. ASSUME NEW t \in Trip, BeginTracking(t) PROVE TypeOK'
  <2>1. tracking' \in Tracking /\ covered' \subseteq Driver
    BY <1>1 DEF BeginTracking, Tracking, Covering
  <2> QED  BY <1>1, <2>1 DEF BeginTracking, TypeOK
<1>2. CASE GetAcceptedDriverId
  <2>1. tracking.trip \in Trip
    BY <1>2, TrackingShapes DEF GetAcceptedDriverId, TypeOK
  <2>2. trip[tracking.trip].at \in {"window", "riding"} => trip[tracking.trip].driver \in Driver
    BY <2>1, TripShapes DEF TypeOK
  <2>3. tracking' \in Tracking
    BY <1>2, <2>1, <2>2 DEF GetAcceptedDriverId, Tracking
  <2> QED  BY <1>2, <2>3 DEF GetAcceptedDriverId, TypeOK
<1>3. CASE CheckSharing
  <2>1. tracking.trip \in Trip /\ tracking.driver \in Driver \cup {None}
    BY <1>3, TrackingShapes DEF CheckSharing, TypeOK
  <2>2. tracking' \in Tracking
    BY <1>3, <2>1 DEF CheckSharing, Tracking
  <2> QED  BY <1>3, <2>2 DEF CheckSharing, TypeOK
<1>4. CASE GetTrackingSnapshot
  <2>1. tracking.trip \in Trip /\ tracking.driver \in Driver \cup {None}
    BY <1>4, TrackingShapes DEF GetTrackingSnapshot, TypeOK
  <2>2. Showable(tracking.trip, tracking.driver) =>
          /\ trip[tracking.trip].driver \in Driver
          /\ position[trip[tracking.trip].driver] \in Moment
    BY <2>1 DEF Showable, TypeOK
  <2>3. tracking' \in Tracking
    BY <1>4, <2>1, <2>2, IdleTyped DEF GetTrackingSnapshot, Tracking
  <2>4. covered' \subseteq Driver
    BY <1>4 DEF GetTrackingSnapshot, TypeOK
  <2> QED  BY <1>4, <2>3, <2>4 DEF GetTrackingSnapshot, TypeOK
<1> QED  BY <1>1, <1>2, <1>3, <1>4 DEF Track

(* A company that the purge missed may be missed.                          *)
MissedInv ==
  purge.op = "running" =>
    \A c \in Company : c \in purge.todo \cup purge.done \/ misses[c] < MaxMisses

LEMMA PurgeTyped == TypeOK /\ MissedInv /\ RunPurge => TypeOK'
<1> SUFFICES ASSUME TypeOK, MissedInv, RunPurge PROVE TypeOK'
  OBVIOUS
<1> USE DEF LedgerTypeOK, ledgerVars, driverVars, trackVars
<1>1. CASE BeginPurge
  <2>1. purge' \in Purge /\ due' \in BOOLEAN
    BY <1>1 DEF BeginPurge, Purge, TypeOK
  <2> QED  BY <1>1, <2>1 DEF BeginPurge, TypeOK
<1>2. ASSUME NEW c \in Company, PurgeStaleLocations(c) \/ MissCompany(c) PROVE TypeOK'
  <2> DEFINE Running == [op : {"running"}, began : Moment, todo : SUBSET Company,
                         done : SUBSET Company, cleared : SUBSET Driver]
             found == { d \in Driver : CompanyOf[d] = c /\ Purgeable(d) }
             reached == [purge EXCEPT !.todo = @ \ {c}, !.done = @ \cup {c}, !.cleared = @ \cup found]
             missed == [purge EXCEPT !.todo = @ \ {c}]
  <2>1. purge \in Running
    BY <1>2, PurgeShape DEF PurgeStaleLocations, MissCompany, TypeOK
  <2>2. found \subseteq Driver
    OBVIOUS
  <2>3. purge' = reached \/ purge' = missed
    BY <1>2 DEF PurgeStaleLocations, MissCompany
  <2> HIDE DEF found
  <2>4. reached \in Running
    BY <2>1, <2>2
  <2>5. missed \in Running
    BY <2>1
  <2>6. purge' \in Purge
    BY <2>3, <2>4, <2>5 DEF Purge
  <2> QED  BY <1>2, <2>6 DEF PurgeStaleLocations, MissCompany, TypeOK
<1>3. CASE CommitPurge
  <2>1. position' \in [Driver -> Moment \cup {None}]
    BY <1>3 DEF CommitPurge, TypeOK
  <2>2. misses' \in [Company -> 0..MaxMisses]
    <3>1. \A c \in Company : c \notin purge.done => misses[c] < MaxMisses
      BY <1>3 DEF CommitPurge, MissedInv
    <3>2. \A c \in Company : IF c \in purge.done THEN 0 \in 0..MaxMisses
                                                 ELSE misses[c] + 1 \in 0..MaxMisses
      BY <3>1, ShiftAssumption DEF TypeOK
    <3> QED  BY <1>3, <3>2 DEF CommitPurge
  <2>3. purge' \in Purge
    BY <1>3, IdleTyped DEF CommitPurge
  <2> QED  BY <1>3, <2>1, <2>2, <2>3 DEF CommitPurge, TypeOK
<1>4. CASE AbortPurge
  <2>1. misses' \in [Company -> 0..MaxMisses]
    BY <1>4, ShiftAssumption DEF AbortPurge, TypeOK
  <2>2. purge' \in Purge
    BY <1>4, IdleTyped DEF AbortPurge
  <2> QED  BY <1>4, <2>1, <2>2 DEF AbortPurge, TypeOK
<1> QED  BY <1>1, <1>2, <1>3, <1>4 DEF RunPurge

LEMMA MissedKept == TypeOK /\ MissedInv /\ [Next]_vars => MissedInv'
<1> SUFFICES ASSUME TypeOK, MissedInv, [Next]_vars PROVE MissedInv'
  OBVIOUS
<1>1. CASE UNCHANGED <<purge, misses>>
  BY <1>1 DEF MissedInv
<1>2. CASE BeginPurge
  BY <1>2 DEF BeginPurge, MissedInv
<1>3. ASSUME NEW c \in Company, PurgeStaleLocations(c) \/ MissCompany(c) PROVE MissedInv'
  <2>1. purge \in [op : {"running"}, began : Moment, todo : SUBSET Company,
                   done : SUBSET Company, cleared : SUBSET Driver]
    BY <1>3, PurgeShape DEF PurgeStaleLocations, MissCompany, TypeOK
  <2>2. CASE PurgeStaleLocations(c)
    <3>1. purge'.todo = purge.todo \ {c} /\ purge'.done = purge.done \cup {c} /\ misses' = misses
      BY <2>1, <2>2 DEF PurgeStaleLocations
    <3> QED  BY <2>2, <3>1 DEF PurgeStaleLocations, MissedInv
  <2>3. CASE MissCompany(c)
    <3>1. purge'.todo = purge.todo \ {c} /\ purge'.done = purge.done /\ misses' = misses
      BY <2>1, <2>3 DEF MissCompany
    <3> QED  BY <2>3, <3>1 DEF MissCompany, MissedInv
  <2> QED  BY <1>3, <2>2, <2>3
<1>4. CASE CommitPurge \/ AbortPurge
  BY <1>4 DEF CommitPurge, AbortPurge, MissedInv, Idle
<1>5. ASSUME Next PROVE UNCHANGED <<purge, misses>> \/ RunPurge
  BY <1>5 DEF Next, Serve, DriverCall, Drive, Track, purgeVars,
              WithLocationConsent, StartShift, LookAtStatus, RefreshLocationWhileOnTrip,
              ReportLocation, GrantConsent, RevokeConsent, ClearLocationAfterConsentRevoked,
              Fails, BeginWrite, BeginGrant, BeginRevoke, EndShift, Suspend, RotatePin,
              TakeTrip, LeaveTrip, StartTrip, BeginTracking, GetAcceptedDriverId,
              CheckSharing, GetTrackingSnapshot, Tick
<1>6. UNCHANGED vars => UNCHANGED <<purge, misses>>
  BY DEF vars, purgeVars
<1> QED  BY <1>1, <1>2, <1>3, <1>4, <1>5, <1>6 DEF RunPurge

LEMMA TypeStep == TypeOK /\ MissedInv /\ [Next]_vars => TypeOK'
<1> SUFFICES ASSUME TypeOK, MissedInv, [Next]_vars PROVE TypeOK'
  OBVIOUS
<1>1. CASE UNCHANGED vars
  BY <1>1 DEF vars, TypeOK, LedgerTypeOK, ledgerVars, driverVars, trackVars, purgeVars
<1>2. CASE Tick
  <2>1. now' \in Moment /\ due' \in BOOLEAN
    BY <1>2, ShiftAssumption DEF Tick, TypeOK, Moment
  <2> QED  BY <1>2, <2>1 DEF Tick, TypeOK, LedgerTypeOK, ledgerVars, driverVars, trackVars
<1> QED  BY <1>1, <1>2, ServeTyped, CallTyped, HomeTyped, DriveTyped, TrackTyped, PurgeTyped
            DEF Next

(* Every reachable state of drivers, requests and the purge is well typed. *)
THEOREM TypeCorrect == Spec => []TypeOK
<1>1. Init => MissedInv
  BY DEF Init, MissedInv, Idle
<1>2. Init => TypeOK /\ MissedInv
  BY <1>1, TypeStart
<1>3. TypeOK /\ MissedInv /\ [Next]_vars => (TypeOK /\ MissedInv)'
  BY TypeStep, MissedKept
<1> QED  BY <1>2, <1>3, PTL DEF Spec

-----------------------------------------------------------------------------
(* The ledger: no two entries of a driver, and no call on its way to be    *)
(* one, began at one time. So one entry is in force, and a driver who      *)
(* revoked has not granted.                                                *)

LedgerCall(r) == request[r].op \in {"grant", "revoke"}

EntriesDistinct ==
  \A d \in Driver : \A e \in ledger[d] :
    e.began <= calls /\ \A f \in ledger[d] : e.began = f.began => e = f

CallsDistinct ==
  \A r \in Request : LedgerCall(r) =>
    /\ request[r].began <= calls
    /\ \A d \in Driver : \A e \in ledger[d] : e.began # request[r].began
    /\ \A q \in Request : LedgerCall(q) /\ request[q].began = request[r].began => q = r

LEMMA GrantedIsNotRevoked ==
  ASSUME EntriesDistinct, LedgerTypeOK, NEW d \in Driver, Granted(d)
  PROVE  ~Revoked(d)
  BY DEF EntriesDistinct, LedgerTypeOK, Granted, Revoked, InForce, Entry

LEMMA AcceptedIsGranted ==
  ASSUME NEW op, NEW d \in Driver, ConsentAccepted(op, d)
  PROVE  Granted(d)
  BY DEF ConsentAccepted, Granted, GrantedVersion

(* Requests that become no call of the ledger.                             *)
LEMMA NoNewCall ==
  ASSUME EntriesDistinct, CallsDistinct, UNCHANGED ledgerVars,
         \A r \in Request : LedgerCall(r)' => request'[r] = request[r]
  PROVE  EntriesDistinct' /\ CallsDistinct'
  BY DEF EntriesDistinct, CallsDistinct, LedgerCall, ledgerVars

(* A call that begins is later than all there is.                          *)
LEMMA NewCall ==
  ASSUME TypeOK, EntriesDistinct, CallsDistinct, UNCHANGED ledger, BeginCall,
         NEW r \in Request, request'[r].began = calls + 1,
         \A s \in Request \ {r} : request'[s] = request[s]
  PROVE  EntriesDistinct' /\ CallsDistinct'
<1>1. calls \in Nat /\ calls' = calls + 1
  BY LedgerAssumption DEF TypeOK, LedgerTypeOK, BeginCall
<1>2. \A d \in Driver : \A e \in ledger[d] : e.began \in Nat
  BY DEF TypeOK, LedgerTypeOK, Entry
<1>3. \A s \in Request : LedgerCall(s) => request[s].began \in Nat
  BY RequestShapes DEF LedgerCall, TypeOK, GrantState, RevokeState
<1>4. EntriesDistinct'
  BY <1>1, <1>2 DEF EntriesDistinct
<1>5. ASSUME NEW s \in Request, LedgerCall(s)' PROVE request'[s].began <= calls'
  BY <1>1, <1>3, <1>5 DEF CallsDistinct, LedgerCall
<1>6. ASSUME NEW s \in Request, LedgerCall(s)', NEW d \in Driver, NEW e \in ledger'[d]
      PROVE  e.began # request'[s].began
  BY <1>1, <1>2, <1>6 DEF CallsDistinct, EntriesDistinct, LedgerCall
<1>7. ASSUME NEW s \in Request, LedgerCall(s)', NEW q \in Request, LedgerCall(q)',
             request'[q].began = request'[s].began
      PROVE  q = s
  BY <1>1, <1>3, <1>7 DEF CallsDistinct, LedgerCall
<1> QED  BY <1>4, <1>5, <1>6, <1>7 DEF CallsDistinct

(* A call that writes its entry, if it does.                               *)
LEMMA CallWrites ==
  ASSUME TypeOK, EntriesDistinct, CallsDistinct, UNCHANGED calls,
         NEW r \in Request, LedgerCall(r), ~LedgerCall(r)',
         \A s \in Request \ {r} : request'[s] = request[s],
         \/ UNCHANGED ledger
         \/ \E d \in Driver, action \in {"granted", "revoked"}, v \in Version :
              AddEntry(d, request[r].began, action, v)
  PROVE  EntriesDistinct' /\ CallsDistinct'
<1>1. CASE UNCHANGED ledger
  BY <1>1, NoNewCall DEF ledgerVars
<1>2. ASSUME NEW d \in Driver, NEW action \in {"granted", "revoked"}, NEW v \in Version,
             AddEntry(d, request[r].began, action, v)
      PROVE  EntriesDistinct' /\ CallsDistinct'
  <2> DEFINE new == [began |-> request[r].began, action |-> action, version |-> v]
  <2>1. /\ ledger'[d] = ledger[d] \cup {new}
        /\ \A c \in Driver \ {d} : ledger'[c] = ledger[c]
    BY <1>2 DEF AddEntry, TypeOK, LedgerTypeOK
  <2>2. new.began = request[r].began
    OBVIOUS
  <2> HIDE DEF new
  <2>3. EntriesDistinct'
    BY <2>1, <2>2 DEF EntriesDistinct, CallsDistinct
  <2>4. \A s \in Request : LedgerCall(s)' => s # r /\ LedgerCall(s) /\ request'[s] = request[s]
    BY DEF LedgerCall
  <2>5. ASSUME NEW s \in Request, LedgerCall(s)', NEW c \in Driver, NEW e \in ledger'[c]
        PROVE  e.began # request'[s].began
    BY <2>1, <2>2, <2>4, <2>5 DEF CallsDistinct
  <2>6. CallsDistinct'
    BY <2>4, <2>5 DEF CallsDistinct
  <2> QED  BY <2>3, <2>6
<1> QED  BY <1>1, <1>2

LEMMA LedgerKept ==
  TypeOK /\ EntriesDistinct /\ CallsDistinct /\ [Next]_vars => EntriesDistinct' /\ CallsDistinct'
<1> SUFFICES ASSUME TypeOK, EntriesDistinct, CallsDistinct, [Next]_vars
             PROVE  EntriesDistinct' /\ CallsDistinct'
  OBVIOUS
<1>1. CASE UNCHANGED <<ledgerVars, request>>
  BY <1>1, NoNewCall DEF LedgerCall
<1>2. ASSUME NEW r \in Request, NEW q \in RequestState, Become(r, q),
             q.op \notin {"grant", "revoke"}, UNCHANGED ledgerVars
      PROVE  EntriesDistinct' /\ CallsDistinct'
  BY <1>2, BecomeTyped, NoNewCall DEF LedgerCall
<1>3. request \in [Request -> RequestState]
  BY DEF TypeOK
<1>4. ASSUME NEW r \in Request, Serve(r) PROVE EntriesDistinct' /\ CallsDistinct'
  <2>1. CASE WithLocationConsent(r)
    <3> DEFINE q == [request[r] EXCEPT !.locked = TRUE]
    <3>1. request[r] \in WriteState
      BY <1>3, <2>1, RequestShapes DEF WithLocationConsent, Writes
    <3>2. q \in RequestState /\ q.op \notin {"grant", "revoke"}
      BY <3>1, StatesAre DEF WriteState, Writes
    <3> HIDE DEF q
    <3> QED  BY <1>2, <2>1, <3>2 DEF WithLocationConsent, q
  <2>2. CASE GrantConsent(r)
    <3>1. request[r].driver \in Driver /\ request[r].version \in Version
      BY <1>3, <2>2, RequestShapes DEF GrantConsent, GrantState
    <3>2. request'[r] = Idle /\ \A s \in Request \ {r} : request'[s] = request[s]
      BY <2>2, IdleTyped, BecomeTyped DEF GrantConsent
    <3> QED  BY <2>2, <3>1, <3>2, CallWrites DEF GrantConsent, Grant, LedgerCall, Idle
  <2>3. CASE RevokeConsent(r)
    <3>1. request[r].driver \in Driver
      BY <1>3, <2>3, RequestShapes DEF RevokeConsent, RevokeState
    <3>2. [op |-> "clear", driver |-> request[r].driver] \in RequestState
      BY <3>1, StatesAre DEF LookState
    <3>3. request'[r].op = "clear" /\ \A s \in Request \ {r} : request'[s] = request[s]
      BY <2>3, <3>2, BecomeTyped DEF RevokeConsent
    <3> QED  BY <2>3, <3>1, <3>3, CallWrites DEF RevokeConsent, Revoke, LedgerCall
  <2>4. ASSUME RefreshLocationWhileOnTrip(r) \/ ReportLocation(r)
               \/ ClearLocationAfterConsentRevoked(r) \/ Fails(r)
        PROVE  EntriesDistinct' /\ CallsDistinct'
    BY <1>2, <2>4, IdleTyped DEF RefreshLocationWhileOnTrip, ReportLocation,
       ClearLocationAfterConsentRevoked, Fails, Idle
  <2>5. CASE StartShift(r)
    <3>1. request[r].driver \in Driver
      BY <1>3, <2>5, RequestShapes DEF StartShift, Writes, WriteState
    <3>2. [op |-> "look", driver |-> request[r].driver] \in RequestState
      BY <3>1, StatesAre DEF LookState
    <3> QED  BY <1>2, <2>5, <3>2, IdleTyped DEF StartShift, Idle
  <2>6. CASE LookAtStatus(r)
    <3>1. request[r].driver \in Driver
      BY <1>3, <2>6, RequestShapes DEF LookAtStatus, LookState
    <3>2. [op |-> "refresh", driver |-> request[r].driver, began |-> now, locked |-> FALSE]
            \in RequestState
      BY <3>1, StatesAre DEF WriteState, Writes, TypeOK
    <3> QED  BY <1>2, <2>6, <3>2 DEF LookAtStatus
  <2> QED  BY <1>4, <2>1, <2>2, <2>3, <2>4, <2>5, <2>6 DEF Serve
<1>5. ASSUME NEW r \in Request, NEW d \in Driver, DriverCall(r, d)
      PROVE  EntriesDistinct' /\ CallsDistinct'
  <2>1. ASSUME NEW op \in {"start", "report"}, BeginWrite(r, op, d)
        PROVE  EntriesDistinct' /\ CallsDistinct'
    <3>1. [op |-> op, driver |-> d, began |-> now, locked |-> FALSE] \in RequestState
      BY StatesAre DEF WriteState, Writes, TypeOK
    <3> QED  BY <1>2, <2>1, <3>1 DEF BeginWrite
  <2>2. ASSUME BeginRevoke(r, d) \/ \E v \in Version : BeginGrant(r, d, v)
        PROVE  EntriesDistinct' /\ CallsDistinct'
    <3>1. request'[r].began = calls + 1 /\ \A s \in Request \ {r} : request'[s] = request[s]
      BY <1>3, <2>2 DEF BeginRevoke, BeginGrant, Become
    <3>2. BeginCall /\ UNCHANGED ledger
      BY <2>2 DEF BeginRevoke, BeginGrant
    <3> QED  BY <3>1, <3>2, NewCall
  <2> QED  BY <1>5, <2>1, <2>2 DEF DriverCall
<1>6. ASSUME \/ \E d \in Driver : EndShift(d) \/ Suspend(d) \/ RotatePin(d)
             \/ \E t \in Trip : Drive(t)
             \/ Track \/ RunPurge \/ Tick
      PROVE  UNCHANGED <<ledgerVars, request>>
  BY <1>6 DEF EndShift, Suspend, RotatePin, Drive, TakeTrip, LeaveTrip, StartTrip, Track,
     BeginTracking, GetAcceptedDriverId, CheckSharing, GetTrackingSnapshot, RunPurge,
     BeginPurge, PurgeStaleLocations, MissCompany, CommitPurge, AbortPurge, Tick
<1>7. UNCHANGED vars => UNCHANGED <<ledgerVars, request>>
  BY DEF vars
<1> QED  BY <1>1, <1>4, <1>5, <1>6, <1>7 DEF Next

-----------------------------------------------------------------------------
(* Trips: who holds one is marked so, and holds no other.                  *)

Held(t) == trip[t].at \in {"window", "riding"}

HolderOnTrip ==
  \A t \in Trip : Held(t) =>
    /\ status[trip[t].driver] = "on_trip"
    /\ \A u \in Trip : Held(u) /\ trip[u].driver = trip[t].driver => u = t

LEMMA StillOnTrip ==
  ASSUME HolderOnTrip, TypeOK, UNCHANGED trip,
         \A d \in Driver : status[d] = "on_trip" => status'[d] = "on_trip"
  PROVE  HolderOnTrip'
<1>1. \A t \in Trip : Held(t) => trip[t].driver \in Driver
  BY TripShapes DEF TypeOK, Held
<1> QED  BY <1>1 DEF HolderOnTrip, Held

(* Every step but those of the trips leaves who is on one there.           *)
LEMMA OnTripStays ==
  ASSUME TypeOK, Next, ~\E t \in Trip : Drive(t)
  PROVE  UNCHANGED trip /\ \A d \in Driver : status[d] = "on_trip" => status'[d] = "on_trip"
<1>1. ASSUME NEW r \in Request, Serve(r)
      PROVE  UNCHANGED trip /\ \A d \in Driver : status[d] = "on_trip" => status'[d] = "on_trip"
  BY <1>1 DEF TypeOK, Serve, WithLocationConsent, StartShift, LookAtStatus,
     RefreshLocationWhileOnTrip, ReportLocation, GrantConsent, RevokeConsent,
     ClearLocationAfterConsentRevoked, Fails, driverVars
<1>2. ASSUME NEW d \in Driver, EndShift(d) \/ Suspend(d) \/ RotatePin(d)
      PROVE  UNCHANGED trip /\ \A e \in Driver : status[e] = "on_trip" => status'[e] = "on_trip"
  BY <1>2 DEF TypeOK, EndShift, Suspend, RotatePin
<1>3. ASSUME \/ \E r \in Request, d \in Driver : DriverCall(r, d)
             \/ Track \/ RunPurge \/ Tick
      PROVE  UNCHANGED <<trip, status>>
  BY <1>3 DEF DriverCall, BeginWrite, BeginGrant, BeginRevoke, Track, BeginTracking,
     GetAcceptedDriverId, CheckSharing, GetTrackingSnapshot, RunPurge, BeginPurge,
     PurgeStaleLocations, MissCompany, CommitPurge, AbortPurge, Tick, driverVars
<1> QED  BY <1>1, <1>2, <1>3 DEF Next

LEMMA HolderKept == TypeOK /\ HolderOnTrip /\ [Next]_vars => HolderOnTrip'
<1> SUFFICES ASSUME TypeOK, HolderOnTrip, [Next]_vars PROVE HolderOnTrip'
  OBVIOUS
<1>1. CASE UNCHANGED vars
  BY <1>1 DEF vars, driverVars, HolderOnTrip, Held
<1>2. CASE Next /\ ~\E t \in Trip : Drive(t)
  BY <1>2, OnTripStays, StillOnTrip
<1>3. ASSUME NEW t \in Trip, NEW d \in Driver, TakeTrip(t, d) PROVE HolderOnTrip'
  <2>1. /\ status[d] = "available" /\ status'[d] = "on_trip"
        /\ \A e \in Driver \ {d} : status'[e] = status[e]
    BY <1>3 DEF TakeTrip, TypeOK
  <2>2. /\ trip'[t].at = "window" /\ trip'[t].driver = d
        /\ \A u \in Trip \ {t} : trip'[u] = trip[u]
    BY <1>3 DEF TakeTrip, TypeOK
  <2>3. \A u \in Trip \ {t} : Held(u)' => Held(u) /\ trip[u].driver \in Driver \ {d}
    BY <2>1, <2>2, TripShapes DEF HolderOnTrip, Held, TypeOK
  <2> QED  BY <2>1, <2>2, <2>3 DEF HolderOnTrip, Held
<1>4. ASSUME NEW t \in Trip, NEW at \in {"open", "closed"}, LeaveTrip(t, at) PROVE HolderOnTrip'
  <2>1. Held(t) /\ trip[t].driver \in Driver
    BY <1>4, TripShapes DEF LeaveTrip, Held, TypeOK
  <2>2. \A e \in Driver \ {trip[t].driver} : status'[e] = status[e]
    BY <1>4, <2>1 DEF LeaveTrip, ReleaseDriver, TypeOK
  <2>3. trip'[t].at = at /\ \A u \in Trip \ {t} : trip'[u] = trip[u]
    BY <1>4 DEF LeaveTrip, TypeOK
  <2>4. \A u \in Trip : Held(u)' => u # t /\ Held(u) /\ trip[u].driver \in Driver \ {trip[t].driver}
    BY <2>1, <2>3, TripShapes DEF HolderOnTrip, Held, TypeOK
  <2> QED  BY <2>2, <2>3, <2>4 DEF HolderOnTrip
<1>5. ASSUME NEW t \in Trip, StartTrip(t) PROVE HolderOnTrip'
  <2>1. trip[t] \in [at : {"window", "riding"}, driver : Driver, assigned : Moment]
    BY <1>5, TripShapes DEF StartTrip, TypeOK
  <2>2. /\ trip'[t].at = "riding" /\ trip'[t].driver = trip[t].driver
        /\ \A u \in Trip \ {t} : trip'[u] = trip[u]
    BY <1>5, <2>1 DEF StartTrip, TypeOK
  <2>3. UNCHANGED status
    BY <1>5 DEF StartTrip, driverVars
  <2>4. \A u \in Trip : Held(u)' => Held(u) /\ trip'[u].driver = trip[u].driver
    BY <1>5, <2>2 DEF StartTrip, Held
  <2> QED  BY <2>3, <2>4 DEF HolderOnTrip
<1> QED  BY <1>1, <1>2, <1>3, <1>4, <1>5 DEF Drive

-----------------------------------------------------------------------------
(* Consents: while a transaction holds the shared lock no entry of its     *)
(* driver is written, so what it read is in force.                         *)

LockedIsAccepted ==
  \A r \in Request :
    request[r].op \in Writes /\ request[r].locked => ConsentAccepted(request[r].op, request[r].driver)

ConsentInv ==
  /\ EntriesDistinct /\ CallsDistinct
  /\ HolderOnTrip
  /\ LockedIsAccepted
  /\ RevokedIsOut

(* A locked request is as it was, its driver's ledger is as it was.        *)
LEMMA AcceptedStays ==
  ASSUME LockedIsAccepted,
         \A r \in Request : request'[r].op \in Writes /\ request'[r].locked =>
           request'[r] = request[r] /\ ledger'[request[r].driver] = ledger[request[r].driver]
  PROVE  LockedIsAccepted'
  BY DEF LockedIsAccepted, ConsentAccepted, Granted, GrantedVersion, InForce

LEMMA LockedKept == TypeOK /\ LockedIsAccepted /\ [Next]_vars => LockedIsAccepted'
<1> SUFFICES ASSUME TypeOK, LockedIsAccepted, [Next]_vars PROVE LockedIsAccepted'
  OBVIOUS
<1>1. request \in [Request -> RequestState]
  BY DEF TypeOK
<1>2. CASE UNCHANGED <<ledger, request>>
  BY <1>2, AcceptedStays
<1>3. ASSUME NEW r \in Request, WithLocationConsent(r) PROVE LockedIsAccepted'
  <2>1. request[r] \in WriteState
    BY <1>1, <1>3, RequestShapes DEF WithLocationConsent, Writes
  <2>2. /\ request'[r].op = request[r].op /\ request'[r].driver = request[r].driver
        /\ \A s \in Request \ {r} : request'[s] = request[s]
    BY <1>1, <1>3, <2>1 DEF WithLocationConsent, Become, WriteState
  <2>3. ConsentAccepted(request[r].op, request[r].driver) /\ UNCHANGED ledger
    BY <1>3 DEF WithLocationConsent, ledgerVars
  <2> QED  BY <2>2, <2>3 DEF LockedIsAccepted, ConsentAccepted, Granted, GrantedVersion, InForce
<1>4. ASSUME NEW r \in Request, GrantConsent(r) \/ RevokeConsent(r) PROVE LockedIsAccepted'
  <2>1. request[r].driver \in Driver /\ request[r].op \notin Writes
    BY <1>1, <1>4, RequestShapes DEF GrantConsent, RevokeConsent, GrantState, RevokeState, Writes
  <2>2. /\ request'[r].op \notin Writes
        /\ \A s \in Request \ {r} : request'[s] = request[s]
    BY <1>1, <1>4 DEF GrantConsent, RevokeConsent, Become, Idle, Writes
  <2>3. \A d \in Driver \ {request[r].driver} : ledger'[d] = ledger[d]
    BY <1>4, <2>1 DEF GrantConsent, RevokeConsent, Grant, Revoke, AddEntry, TypeOK, LedgerTypeOK
  <2>4. ~SharedLock(request[r].driver)
    BY <1>4 DEF GrantConsent, RevokeConsent
  <2>5. \A s \in Request : request[s].op \in Writes /\ request[s].locked =>
          request[s].driver \in Driver \ {request[r].driver}
    BY <1>1, <2>4, RequestShapes DEF SharedLock, Writes, WriteState
  <2> QED  BY <2>2, <2>3, <2>5, AcceptedStays
<1>5. ASSUME NEW r \in Request, UNCHANGED ledger,
             \A s \in Request \ {r} : request'[s] = request[s],
             request'[r].op \in Writes => ~request'[r].locked
      PROVE  LockedIsAccepted'
  BY <1>5, AcceptedStays
<1>6. ASSUME NEW r \in Request,
             \/ StartShift(r) \/ LookAtStatus(r) \/ RefreshLocationWhileOnTrip(r)
             \/ ReportLocation(r) \/ ClearLocationAfterConsentRevoked(r) \/ Fails(r)
             \/ \E d \in Driver : DriverCall(r, d)
      PROVE  LockedIsAccepted'
  <2>1. UNCHANGED ledger
    BY <1>6 DEF StartShift, LookAtStatus, RefreshLocationWhileOnTrip, ReportLocation,
       ClearLocationAfterConsentRevoked, Fails, DriverCall, BeginWrite, BeginGrant,
       BeginRevoke, ledgerVars
  <2>2. \A s \in Request \ {r} : request'[s] = request[s]
    BY <1>1, <1>6 DEF StartShift, LookAtStatus, RefreshLocationWhileOnTrip, ReportLocation,
       ClearLocationAfterConsentRevoked, Fails, DriverCall, BeginWrite, BeginGrant,
       BeginRevoke, Become
  <2>3. request'[r].op \in Writes => ~request'[r].locked
    BY <1>1, <1>6 DEF StartShift, LookAtStatus, RefreshLocationWhileOnTrip, ReportLocation,
       ClearLocationAfterConsentRevoked, Fails, DriverCall, BeginWrite, BeginGrant,
       BeginRevoke, Become, Idle, Writes
  <2> QED  BY <1>5, <2>1, <2>2, <2>3
<1>7. ASSUME \/ \E d \in Driver : EndShift(d) \/ Suspend(d) \/ RotatePin(d)
             \/ \E t \in Trip : Drive(t)
             \/ Track \/ RunPurge \/ Tick
      PROVE  UNCHANGED <<ledger, request>>
  BY <1>7 DEF EndShift, Suspend, RotatePin, Drive, TakeTrip, LeaveTrip, StartTrip, Track,
     BeginTracking, GetAcceptedDriverId, CheckSharing, GetTrackingSnapshot, RunPurge,
     BeginPurge, PurgeStaleLocations, MissCompany, CommitPurge, AbortPurge, Tick, ledgerVars
<1>8. UNCHANGED vars => UNCHANGED <<ledger, request>>
  BY DEF vars, ledgerVars
<1> QED  BY <1>2, <1>3, <1>4, <1>6, <1>7, <1>8 DEF Next, Serve

(* A transaction that writes the row of its driver has his consent.        *)
LEMMA WriterIsGranted ==
  ASSUME TypeOK, ConsentInv, NEW r \in Request, request[r].op \in Writes, request[r].locked
  PROVE  /\ request[r].driver \in Driver /\ request[r].began \in Moment
         /\ Granted(request[r].driver) /\ ~Revoked(request[r].driver)
<1>1. request[r].driver \in Driver /\ request[r].began \in Moment
  BY RequestShapes DEF TypeOK, WriteState
<1>2. Granted(request[r].driver)
  BY <1>1, AcceptedIsGranted DEF ConsentInv, LockedIsAccepted
<1> QED  BY <1>1, <1>2, GrantedIsNotRevoked DEF ConsentInv, TypeOK

(* Steps that give no position and no shift to a driver who revoked.       *)
LEMMA OutStays ==
  ASSUME RevokedIsOut, UNCHANGED <<ledger, owed>>,
         \A d \in Driver :
           /\ position'[d] \in {None, position[d]} \/ ~Revoked(d)
           /\ status'[d] = "available" =>
                status[d] = "available" \/ position[d] # None \/ ~Revoked(d)
  PROVE  RevokedIsOut'
<1>1. ASSUME NEW d \in Driver, Revoked(d)' PROVE Revoked(d)
  BY <1>1 DEF Revoked, InForce
<1> QED  BY <1>1 DEF RevokedIsOut

LEMMA RevokedKept == TypeOK /\ ConsentInv /\ [Next]_vars => RevokedIsOut'
<1> SUFFICES ASSUME TypeOK, ConsentInv, [Next]_vars PROVE RevokedIsOut'
  OBVIOUS
<1>1. RevokedIsOut /\ status \in [Driver -> Status] /\ position \in [Driver -> Moment \cup {None}]
      /\ request \in [Request -> RequestState] /\ owed \in [Driver -> BOOLEAN]
      /\ ledger \in [Driver -> SUBSET Entry]
  BY DEF ConsentInv, TypeOK, LedgerTypeOK
<1>2. CASE UNCHANGED <<ledger, owed, status, position>>
  BY <1>1, <1>2, OutStays
<1>3. ASSUME NEW r \in Request, StartShift(r) \/ RefreshLocationWhileOnTrip(r) \/ ReportLocation(r)
      PROVE  RevokedIsOut'
  <2>1. ~Revoked(request[r].driver) /\ request[r].driver \in Driver
    BY <1>3, WriterIsGranted DEF StartShift, RefreshLocationWhileOnTrip, ReportLocation, Writes
  <2>2. \A d \in Driver \ {request[r].driver} : position'[d] = position[d] /\ status'[d] = status[d]
    BY <1>1, <1>3, <2>1 DEF StartShift, RefreshLocationWhileOnTrip, ReportLocation, WritePosition
  <2>3. UNCHANGED <<ledger, owed>>
    BY <1>3 DEF StartShift, RefreshLocationWhileOnTrip, ReportLocation, ledgerVars
  <2> QED  BY <1>1, <2>1, <2>2, <2>3, OutStays
<1>4. ASSUME NEW r \in Request, GrantConsent(r) PROVE RevokedIsOut'
  <2>1. request[r].driver \in Driver
    BY <1>1, <1>4, RequestShapes DEF GrantConsent, GrantState
  <2>2. \A d \in Driver : \A e \in ledger'[d] : e \in ledger[d] \/ e.action = "granted"
    BY <1>1, <1>4, <2>1 DEF GrantConsent, Grant, AddEntry
  <2>3. \A d \in Driver : ledger[d] \subseteq ledger'[d]
    BY <1>1, <1>4, <2>1 DEF GrantConsent, Grant, AddEntry
  <2>4. \A d \in Driver : Revoked(d)' => Revoked(d)
    BY <2>2, <2>3 DEF Revoked, InForce
  <2>5. UNCHANGED <<status, position, owed>>
    BY <1>4 DEF GrantConsent, driverVars
  <2> QED  BY <1>1, <2>4, <2>5 DEF RevokedIsOut
<1>5. ASSUME NEW r \in Request, RevokeConsent(r) PROVE RevokedIsOut'
  <2>1. request[r].driver \in Driver
    BY <1>1, <1>5, RequestShapes DEF RevokeConsent, RevokeState
  <2>2. \A d \in Driver \ {request[r].driver} : ledger'[d] = ledger[d] /\ owed'[d] = owed[d]
    BY <1>1, <1>5, <2>1 DEF RevokeConsent, Revoke, AddEntry
  <2>3. owed'[request[r].driver] /\ UNCHANGED <<status, position>>
    BY <1>1, <1>5, <2>1 DEF RevokeConsent
  <2>4. \A d \in Driver \ {request[r].driver} : Revoked(d)' => Revoked(d)
    BY <2>2 DEF Revoked, InForce
  <2> QED  BY <1>1, <2>2, <2>3, <2>4 DEF RevokedIsOut
<1>6. ASSUME NEW r \in Request, ClearLocationAfterConsentRevoked(r) PROVE RevokedIsOut'
  <2>1. request[r].driver \in Driver
    BY <1>1, <1>6, RequestShapes DEF ClearLocationAfterConsentRevoked, LookState
  <2>2. position'[request[r].driver] = None /\ status'[request[r].driver] # "available"
    BY <1>1, <1>6, <2>1 DEF ClearLocationAfterConsentRevoked
  <2>3. \A d \in Driver \ {request[r].driver} :
          position'[d] = position[d] /\ status'[d] = status[d] /\ owed'[d] = owed[d]
    BY <1>1, <1>6, <2>1 DEF ClearLocationAfterConsentRevoked
  <2>4. \A d \in Driver : Revoked(d)' => Revoked(d)
    BY <1>6 DEF ClearLocationAfterConsentRevoked, ledgerVars, Revoked, InForce
  <2> QED  BY <1>1, <2>2, <2>3, <2>4 DEF RevokedIsOut
<1>7. ASSUME NEW d \in Driver, EndShift(d) \/ Suspend(d) \/ RotatePin(d) PROVE RevokedIsOut'
  <2>1. \A e \in Driver : /\ position'[e] \in {None, position[e]}
                          /\ status'[e] = "available" => status[e] = "available"
    BY <1>1, <1>7 DEF EndShift, Suspend, RotatePin
  <2>2. UNCHANGED <<ledger, owed>>
    BY <1>7 DEF EndShift, Suspend, RotatePin, ledgerVars
  <2> QED  BY <1>1, <2>1, <2>2, OutStays
<1>8. ASSUME NEW t \in Trip, Drive(t) PROVE RevokedIsOut'
  <2>1. \A e \in Driver : status'[e] = "available" => status[e] = "available" \/ position[e] # None
    BY <1>1, <1>8 DEF Drive, TakeTrip, LeaveTrip, ReleaseDriver, StartTrip, driverVars
  <2>2. UNCHANGED <<ledger, owed, position>>
    BY <1>8 DEF Drive, TakeTrip, LeaveTrip, StartTrip, ledgerVars, driverVars
  <2> QED  BY <1>1, <2>1, <2>2, OutStays
<1>9. CASE CommitPurge
  <2>1. \A e \in Driver : position'[e] \in {None, position[e]}
    BY <1>9 DEF CommitPurge
  <2>2. UNCHANGED <<ledger, owed, status>>
    BY <1>9 DEF CommitPurge, ledgerVars
  <2> QED  BY <1>1, <2>1, <2>2, OutStays
<1>10. ASSUME \/ \E r \in Request : \/ WithLocationConsent(r) \/ LookAtStatus(r) \/ Fails(r)
                                    \/ \E d \in Driver : DriverCall(r, d)
              \/ Track \/ BeginPurge \/ AbortPurge \/ Tick
              \/ \E c \in Company : PurgeStaleLocations(c) \/ MissCompany(c)
       PROVE  UNCHANGED <<ledger, owed, status, position>>
  BY <1>10 DEF WithLocationConsent, LookAtStatus, Fails, DriverCall, BeginWrite, BeginGrant,
     BeginRevoke, Track, BeginTracking, GetAcceptedDriverId, CheckSharing, GetTrackingSnapshot,
     BeginPurge, AbortPurge, Tick, PurgeStaleLocations, MissCompany, ledgerVars, driverVars
<1>11. UNCHANGED vars => UNCHANGED <<ledger, owed, status, position>>
  BY DEF vars, ledgerVars, driverVars
<1> QED  BY <1>2, <1>3, <1>4, <1>5, <1>6, <1>7, <1>8, <1>9, <1>10, <1>11
            DEF Next, Serve, RunPurge

LEMMA ConsentStart == Init => ConsentInv
<1> SUFFICES ASSUME Init PROVE ConsentInv
  OBVIOUS
<1>1. \A d \in Driver : \A e \in ledger[d] :
        /\ e.began = 0 /\ e.action = "granted"
        /\ \A f \in ledger[d] : e = f
  BY DEF Init, LedgerInit
<1>2. EntriesDistinct
  BY <1>1 DEF EntriesDistinct, Init, LedgerInit
<1>3. CallsDistinct /\ LockedIsAccepted
  BY DEF CallsDistinct, LedgerCall, LockedIsAccepted, Writes, Init, Idle
<1>4. HolderOnTrip
  BY DEF HolderOnTrip, Held, Init
<1>5. RevokedIsOut
  BY <1>1 DEF RevokedIsOut, Revoked
<1> QED  BY <1>2, <1>3, <1>4, <1>5 DEF ConsentInv

LEMMA ConsentKept == TypeOK /\ ConsentInv /\ [Next]_vars => ConsentInv'
  BY LedgerKept, HolderKept, LockedKept, RevokedKept DEF ConsentInv

LEMMA ConsentHolds == Spec => [](TypeOK /\ ConsentInv)
<1>1. TypeOK /\ ConsentInv /\ [Next]_vars => ConsentInv'
  BY ConsentKept
<1> QED  BY <1>1, TypeCorrect, ConsentStart, PTL DEF Spec

(* Once a clear has run after the last revocation of a driver he has no    *)
(* position and is not available, for any number of requests.              *)
THEOREM RevokedStaysOut == Spec => []RevokedIsOut
<1>1. ConsentInv => RevokedIsOut
  BY DEF ConsentInv
<1> QED  BY <1>1, ConsentHolds, PTL

-----------------------------------------------------------------------------

StoredStep ==
  \A d \in Driver :
    /\ position'[d] \notin {None, position[d]} => Granted(d)
    /\ status[d] = "off_shift" /\ status'[d] = "available" => GrantedVersion(d, Current)

LEMMA StepStores == TypeOK /\ ConsentInv /\ [Next]_vars => StoredStep
<1> SUFFICES ASSUME TypeOK, ConsentInv, [Next]_vars PROVE StoredStep
  OBVIOUS
<1>1. status \in [Driver -> Status] /\ position \in [Driver -> Moment \cup {None}]
  BY DEF TypeOK
<1>2. CASE UNCHANGED <<status, position>>
  BY <1>2 DEF StoredStep
<1>3. ASSUME NEW r \in Request, StartShift(r) PROVE StoredStep
  <2>1. request[r].op = "start" /\ request[r].locked
    BY <1>3 DEF StartShift
  <2>2. request[r].driver \in Driver /\ Granted(request[r].driver)
    BY <2>1, WriterIsGranted DEF Writes
  <2>3. GrantedVersion(request[r].driver, Current)
    BY <2>1 DEF ConsentInv, LockedIsAccepted, ConsentAccepted, Writes
  <2>4. \A d \in Driver \ {request[r].driver} : position'[d] = position[d] /\ status'[d] = status[d]
    BY <1>1, <1>3, <2>2 DEF StartShift, WritePosition
  <2> QED  BY <2>2, <2>3, <2>4 DEF StoredStep
<1>4. ASSUME NEW r \in Request, RefreshLocationWhileOnTrip(r) \/ ReportLocation(r) PROVE StoredStep
  <2>1. request[r].driver \in Driver /\ Granted(request[r].driver)
    BY <1>4, WriterIsGranted DEF RefreshLocationWhileOnTrip, ReportLocation, Writes
  <2>2. \A d \in Driver \ {request[r].driver} : position'[d] = position[d]
    BY <1>1, <1>4, <2>1 DEF RefreshLocationWhileOnTrip, ReportLocation, WritePosition
  <2>3. UNCHANGED status
    BY <1>4 DEF RefreshLocationWhileOnTrip, ReportLocation
  <2> QED  BY <2>1, <2>2, <2>3 DEF StoredStep
<1>5. ASSUME NEW d \in Driver, EndShift(d) \/ Suspend(d) \/ RotatePin(d) PROVE StoredStep
  BY <1>1, <1>5 DEF EndShift, Suspend, RotatePin, StoredStep
<1>6. ASSUME NEW r \in Request, ClearLocationAfterConsentRevoked(r) PROVE StoredStep
  BY <1>1, <1>6 DEF ClearLocationAfterConsentRevoked, StoredStep
<1>7. CASE CommitPurge
  BY <1>1, <1>7 DEF CommitPurge, StoredStep
<1>8. ASSUME NEW t \in Trip, Drive(t) PROVE StoredStep
  <2>1. UNCHANGED position
    BY <1>8 DEF Drive, TakeTrip, LeaveTrip, StartTrip, driverVars
  <2>2. CASE \E d \in Driver : TakeTrip(t, d)
    BY <1>1, <2>1, <2>2 DEF TakeTrip, StoredStep
  <2>3. ASSUME NEW at, LeaveTrip(t, at) PROVE StoredStep
    <3>1. status[trip[t].driver] = "on_trip" /\ trip[t].driver \in Driver
      BY <2>3, TripShapes DEF LeaveTrip, ConsentInv, HolderOnTrip, Held, TypeOK
    <3> QED  BY <1>1, <2>1, <2>3, <3>1 DEF LeaveTrip, ReleaseDriver, StoredStep
  <2>4. CASE StartTrip(t)
    BY <1>2, <2>4 DEF StartTrip, driverVars
  <2> QED  BY <1>8, <2>2, <2>3, <2>4 DEF Drive
<1>9. ASSUME \/ \E r \in Request : \/ WithLocationConsent(r) \/ LookAtStatus(r) \/ Fails(r)
                                   \/ GrantConsent(r) \/ RevokeConsent(r)
                                   \/ \E d \in Driver : DriverCall(r, d)
             \/ Track \/ BeginPurge \/ AbortPurge \/ Tick
             \/ \E c \in Company : PurgeStaleLocations(c) \/ MissCompany(c)
      PROVE  UNCHANGED <<status, position>>
  BY <1>9 DEF WithLocationConsent, LookAtStatus, Fails, GrantConsent, RevokeConsent, DriverCall,
     BeginWrite, BeginGrant, BeginRevoke, Track, BeginTracking, GetAcceptedDriverId, CheckSharing,
     GetTrackingSnapshot, BeginPurge, AbortPurge, Tick, PurgeStaleLocations, MissCompany, driverVars
<1>10. UNCHANGED vars => UNCHANGED <<status, position>>
  BY DEF vars, driverVars
<1> QED  BY <1>2, <1>3, <1>4, <1>5, <1>6, <1>7, <1>8, <1>9, <1>10 DEF Next, Serve, RunPurge

(* No position is stored but under a consent in force at that moment, and  *)
(* no shift is opened but under the current notice.                        *)
THEOREM StoresUnderConsent == Spec => StoredUnderConsent
<1>1. TypeOK /\ ConsentInv /\ [Next]_vars => [StoredStep]_vars
  BY StepStores
<1>2. TypeOK /\ ConsentInv /\ [Next]_vars =>
        [\A d \in Driver :
           /\ position'[d] \notin {None, position[d]} => Granted(d)
           /\ status[d] = "off_shift" /\ status'[d] = "available" => GrantedVersion(d, Current)]_vars
  BY <1>1 DEF StoredStep
<1> QED  BY <1>2, ConsentHolds, PTL DEF Spec, StoredUnderConsent

-----------------------------------------------------------------------------
(* The passenger: whoever's consent covers sharing while he looks, the     *)
(* history knows, and it knows whom the check let through.                 *)

CoveredInv ==
  /\ tracking.op # "idle" => Covering \subseteq covered
  /\ tracking.op = "checked" /\ tracking.driver # None => tracking.driver \in covered

(* A revocation covers nobody who was not covered.                         *)
LEMMA RevokeCovers ==
  ASSUME TypeOK, NEW d \in Driver, NEW n, Revoke(d, n)
  PROVE  Covering' \subseteq Covering
<1>1. \A c \in Driver : /\ ledger[c] \subseteq ledger'[c]
                        /\ \A e \in ledger'[c] : e \in ledger[c] \/ e.action = "revoked"
  BY DEF Revoke, AddEntry, TypeOK, LedgerTypeOK
<1>2. ASSUME NEW c \in Driver, NEW v, GrantedVersion(c, v)' PROVE GrantedVersion(c, v)
  BY <1>1, <1>2 DEF GrantedVersion, InForce
<1> QED  BY <1>2 DEF Covering, CoversLocationSharing

LEMMA CoveredKept == TypeOK /\ CoveredInv /\ [Next]_vars => CoveredInv'
<1> SUFFICES ASSUME TypeOK, CoveredInv, [Next]_vars PROVE CoveredInv'
  OBVIOUS
<1>1. UNCHANGED ledger => Covering' = Covering
  BY DEF Covering, CoversLocationSharing, GrantedVersion, InForce
<1>2. CASE UNCHANGED <<ledger, trackVars>>
  BY <1>1, <1>2 DEF CoveredInv, trackVars
<1>3. ASSUME NEW r \in Request, GrantConsent(r) PROVE CoveredInv'
  <2>1. UNCHANGED tracking /\ covered' = IF tracking = Idle THEN covered ELSE covered \cup Covering'
    BY <1>3 DEF GrantConsent
  <2>2. tracking.op # "idle" => tracking # Idle
    BY DEF Idle
  <2> QED  BY <2>1, <2>2 DEF CoveredInv
<1>4. ASSUME NEW r \in Request, RevokeConsent(r) PROVE CoveredInv'
  <2>1. request[r].driver \in Driver
    BY <1>4, RequestShapes DEF RevokeConsent, RevokeState, TypeOK
  <2>2. Covering' \subseteq Covering /\ UNCHANGED trackVars
    BY <1>4, <2>1, RevokeCovers DEF RevokeConsent
  <2> QED  BY <2>2 DEF CoveredInv, trackVars
<1>5. CASE Track
  <2>1. UNCHANGED ledger
    BY <1>5 DEF Track, BeginTracking, GetAcceptedDriverId, CheckSharing, GetTrackingSnapshot, ledgerVars
  <2>2. ASSUME NEW t \in Trip, BeginTracking(t) PROVE CoveredInv'
    BY <1>1, <2>1, <2>2 DEF BeginTracking, CoveredInv
  <2>3. CASE GetAcceptedDriverId
    BY <1>1, <2>1, <2>3 DEF GetAcceptedDriverId, CoveredInv
  <2>4. CASE CheckSharing
    <3>1. tracking.driver \in Driver \cup {None}
      BY <2>4, TrackingShapes DEF CheckSharing, TypeOK
    <3>2. tracking'.op = "checked" /\ covered' = covered
      BY <2>4 DEF CheckSharing
    <3>3. tracking'.driver # None => tracking'.driver \in Covering
      BY <2>4, <3>1 DEF CheckSharing, Covering
    <3>4. Covering \subseteq covered
      BY <2>4 DEF CheckSharing, CoveredInv
    <3> QED  BY <1>1, <2>1, <3>2, <3>3, <3>4 DEF CoveredInv
  <2>5. CASE GetTrackingSnapshot
    BY <1>1, <2>1, <2>5 DEF GetTrackingSnapshot, CoveredInv, Idle
  <2> QED  BY <1>5, <2>2, <2>3, <2>4, <2>5 DEF Track
<1>6. ASSUME \/ \E r \in Request :
                  \/ WithLocationConsent(r) \/ StartShift(r) \/ LookAtStatus(r)
                  \/ RefreshLocationWhileOnTrip(r) \/ ReportLocation(r)
                  \/ ClearLocationAfterConsentRevoked(r) \/ Fails(r)
                  \/ \E d \in Driver : DriverCall(r, d)
             \/ \E d \in Driver : EndShift(d) \/ Suspend(d) \/ RotatePin(d)
             \/ \E t \in Trip : Drive(t)
             \/ RunPurge \/ Tick
      PROVE  UNCHANGED <<ledger, trackVars>>
  BY <1>6 DEF WithLocationConsent, StartShift, LookAtStatus, RefreshLocationWhileOnTrip,
     ReportLocation, ClearLocationAfterConsentRevoked, Fails, DriverCall, BeginWrite, BeginGrant,
     BeginRevoke, EndShift, Suspend, RotatePin, Drive, TakeTrip, LeaveTrip, StartTrip, RunPurge,
     BeginPurge, AbortPurge, CommitPurge, Tick, PurgeStaleLocations, MissCompany, ledgerVars
<1>7. UNCHANGED vars => UNCHANGED <<ledger, trackVars>>
  BY DEF vars, ledgerVars
<1> QED  BY <1>2, <1>3, <1>4, <1>5, <1>6, <1>7 DEF Next, Serve

ShownStep ==
  tracking' # tracking /\ tracking'.op = "shown" =>
    LET d == tracking'.driver
        row == trip[tracking'.trip]
    IN  /\ row.at = "window" /\ row.driver = d
        /\ tracking'.position >= row.assigned /\ tracking'.position + HideAfter > now
        /\ d \in covered

LEMMA StepShows == CoveredInv /\ [Next]_vars => ShownStep
<1> SUFFICES ASSUME CoveredInv, [Next]_vars, tracking' # tracking, tracking'.op = "shown" PROVE ShownStep
  BY DEF ShownStep
<1>1. CASE GetTrackingSnapshot
  BY <1>1 DEF GetTrackingSnapshot, Showable, Idle, ShownStep, CoveredInv
<1>2. ASSUME Next PROVE GetTrackingSnapshot
  <2>1. ASSUME ~Track PROVE FALSE
    BY <1>2, <2>1 DEF Next, Serve, DriverCall, Drive, RunPurge, trackVars,
       WithLocationConsent, StartShift, LookAtStatus, RefreshLocationWhileOnTrip,
       ReportLocation, GrantConsent, RevokeConsent, ClearLocationAfterConsentRevoked,
       Fails, BeginWrite, BeginGrant, BeginRevoke, EndShift, Suspend, RotatePin,
       TakeTrip, LeaveTrip, StartTrip, Tick, BeginPurge, PurgeStaleLocations, MissCompany,
       CommitPurge, AbortPurge
  <2>2. ~\E t \in Trip : BeginTracking(t)
    BY DEF BeginTracking
  <2>3. ~GetAcceptedDriverId /\ ~CheckSharing
    BY DEF GetAcceptedDriverId, CheckSharing
  <2> QED  BY <2>1, <2>2, <2>3 DEF Track
<1>3. ~UNCHANGED vars
  BY DEF vars, trackVars
<1> QED  BY <1>1, <1>2, <1>3

(* What a passenger is shown is the position of the driver who holds his   *)
(* trip, sent since he took it and not too old, under a consent that       *)
(* covered it at some moment of the request.                               *)
THEOREM ShowsHisPassenger == Spec => ShownToHisPassenger
<1>1. Init => CoveredInv
  BY DEF Init, CoveredInv, Idle
<1>2. TypeOK /\ CoveredInv /\ [Next]_vars => CoveredInv'
  BY CoveredKept
<1>3. CoveredInv /\ [Next]_vars => [ShownStep]_vars
  BY StepShows
<1>4. CoveredInv /\ [Next]_vars =>
        [tracking' # tracking /\ tracking'.op = "shown" =>
           LET d == tracking'.driver
               row == trip[tracking'.trip]
           IN  /\ row.at = "window" /\ row.driver = d
               /\ tracking'.position >= row.assigned /\ tracking'.position + HideAfter > now
               /\ d \in covered]_vars
  BY <1>3 DEF ShownStep
<1> QED  BY <1>1, <1>2, <1>4, TypeCorrect, PTL DEF Spec, ShownToHisPassenger

-----------------------------------------------------------------------------
(* The purge: what a request writes is not older than an hour, a purge     *)
(* under way began in this hour, and a position it passed by is young. A   *)
(* position gains an hour with each purge that missed its company, and     *)
(* with the purge of this hour until it has committed.                     *)

RequestFresh ==
  \A r \in Request : request[r].op \in Writes =>
    request[r].began <= now /\ now <= request[r].began + 1

Running == purge.op = "running"

PassedBy(d) == CompanyOf[d] \in purge.done /\ d \notin purge.cleared

Owing == IF due \/ Running THEN 1 ELSE 0

KeptInv ==
  /\ \A d \in Driver : position[d] # None =>
       now <= position[d] + PurgeHours + misses[CompanyOf[d]] + Owing
  /\ Running =>
       /\ ~due /\ purge.began = now
       /\ \A d \in Driver : PassedBy(d) /\ position[d] # None => now <= position[d] + PurgeHours

LEMMA FreshKept == TypeOK /\ RequestFresh /\ [Next]_vars => RequestFresh'
<1> SUFFICES ASSUME TypeOK, RequestFresh, [Next]_vars PROVE RequestFresh'
  OBVIOUS
<1>1. request \in [Request -> RequestState] /\ now \in Nat
  BY ShiftAssumption DEF TypeOK, Moment
<1>2. CASE UNCHANGED <<request, now>>
  BY <1>2 DEF RequestFresh
<1>3. ASSUME NEW r \in Request, UNCHANGED now, \A s \in Request \ {r} : request'[s] = request[s],
             request'[r].op \in Writes =>
               \/ request'[r].began = now
               \/ request[r].op \in Writes /\ request'[r].began = request[r].began
      PROVE  RequestFresh'
  BY <1>1, <1>3 DEF RequestFresh
<1>4. ASSUME NEW r \in Request, WithLocationConsent(r) PROVE RequestFresh'
  <2>1. request[r] \in WriteState
    BY <1>1, <1>4, RequestShapes DEF WithLocationConsent, Writes
  <2>2. request'[r].began = request[r].began /\ \A s \in Request \ {r} : request'[s] = request[s]
    BY <1>1, <1>4, <2>1 DEF WithLocationConsent, Become, WriteState
  <2> QED  BY <1>3, <1>4, <2>1, <2>2 DEF WithLocationConsent, WriteState
<1>5. ASSUME NEW r \in Request,
             \/ StartShift(r) \/ LookAtStatus(r) \/ RefreshLocationWhileOnTrip(r)
             \/ ReportLocation(r) \/ GrantConsent(r) \/ RevokeConsent(r)
             \/ ClearLocationAfterConsentRevoked(r) \/ Fails(r)
             \/ \E d \in Driver : DriverCall(r, d)
      PROVE  RequestFresh'
  <2>1. \A s \in Request \ {r} : request'[s] = request[s]
    BY <1>1, <1>5 DEF StartShift, LookAtStatus, RefreshLocationWhileOnTrip, ReportLocation,
       GrantConsent, RevokeConsent, ClearLocationAfterConsentRevoked, Fails, DriverCall,
       BeginWrite, BeginGrant, BeginRevoke, Become
  <2>2. request'[r].op \in Writes => request'[r].began = now
    BY <1>1, <1>5 DEF StartShift, LookAtStatus, RefreshLocationWhileOnTrip, ReportLocation,
       GrantConsent, RevokeConsent, ClearLocationAfterConsentRevoked, Fails, DriverCall,
       BeginWrite, BeginGrant, BeginRevoke, Become, Idle, Writes
  <2>3. UNCHANGED now
    BY <1>5 DEF StartShift, LookAtStatus, RefreshLocationWhileOnTrip, ReportLocation,
       GrantConsent, RevokeConsent, ClearLocationAfterConsentRevoked, Fails, DriverCall,
       BeginWrite, BeginGrant, BeginRevoke
  <2> QED  BY <1>3, <2>1, <2>2, <2>3
<1>6. CASE Tick
  BY <1>1, <1>6 DEF Tick, RequestFresh, Writes
<1>7. ASSUME \/ \E d \in Driver : EndShift(d) \/ Suspend(d) \/ RotatePin(d)
             \/ \E t \in Trip : Drive(t)
             \/ Track \/ RunPurge
      PROVE  UNCHANGED <<request, now>>
  BY <1>7 DEF EndShift, Suspend, RotatePin, Drive, TakeTrip, LeaveTrip, StartTrip, Track,
     BeginTracking, GetAcceptedDriverId, CheckSharing, GetTrackingSnapshot, RunPurge,
     BeginPurge, PurgeStaleLocations, MissCompany, CommitPurge, AbortPurge
<1>8. UNCHANGED vars => UNCHANGED <<request, now>>
  BY DEF vars
<1> QED  BY <1>2, <1>4, <1>5, <1>6, <1>7, <1>8 DEF Next, Serve

LEMMA KeptStays ==
  ASSUME TypeOK, KeptInv, UNCHANGED <<purgeVars, now>>,
         \A d \in Driver : \/ position'[d] \in {None, position[d]}
                           \/ position'[d] \in Moment /\ now <= position'[d] + 1
  PROVE  KeptInv'
<1>1. now \in Nat /\ PurgeHours \in Nat \ {0} /\ \A d \in Driver : misses[CompanyOf[d]] \in Nat
  BY ShiftAssumption DEF TypeOK, Moment
<1>2. Owing' = Owing /\ Owing \in Nat
  BY DEF Owing, Running, purgeVars
<1>3. \A d \in Driver : position[d] \in Nat \cup {None}
  BY ShiftAssumption DEF TypeOK, Moment
<1>4. \A d \in Driver : position'[d] # None =>
        \/ position'[d] = position[d]
        \/ position'[d] \in Nat /\ now <= position'[d] + PurgeHours
  <2>1. \A p \in Moment : now <= p + 1 => p \in Nat /\ now <= p + PurgeHours
    BY <1>1, ShiftAssumption DEF Moment
  <2>2. ASSUME NEW d \in Driver, position'[d] # None, position'[d] # position[d]
        PROVE  position'[d] \in Moment /\ now <= position'[d] + 1
    BY <2>2
  <2> QED  BY <2>1, <2>2
<1>5. ASSUME NEW d \in Driver, position'[d] # None
      PROVE  now' <= position'[d] + PurgeHours + misses'[CompanyOf[d]] + Owing'
  <2>1. CASE position'[d] = position[d]
    BY <1>2, <1>5, <2>1 DEF KeptInv, purgeVars
  <2>2. CASE position'[d] \in Nat /\ now <= position'[d] + PurgeHours
    BY <1>1, <1>2, <2>2 DEF purgeVars
  <2> QED  BY <1>4, <1>5, <2>1, <2>2
<1>6. ASSUME Running'
      PROVE  /\ ~due' /\ purge'.began = now'
             /\ \A d \in Driver : PassedBy(d)' /\ position'[d] # None => now' <= position'[d] + PurgeHours
  BY <1>4, <1>6 DEF KeptInv, Running, PassedBy, purgeVars
<1> QED  BY <1>5, <1>6 DEF KeptInv

LEMMA KeptKept == TypeOK /\ RequestFresh /\ KeptInv /\ [Next]_vars => KeptInv'
<1> SUFFICES ASSUME TypeOK, RequestFresh, KeptInv, [Next]_vars PROVE KeptInv'
  OBVIOUS
<1>1. /\ now \in Nat /\ PurgeHours \in Nat \ {0}
      /\ \A d \in Driver : CompanyOf[d] \in Company /\ misses[CompanyOf[d]] \in Nat
      /\ \A d \in Driver : position[d] \in Nat \cup {None}
      /\ position \in [Driver -> Moment \cup {None}]
  BY ShiftAssumption DEF TypeOK, Moment
<1>2. CASE UNCHANGED <<position, purgeVars, now>>
  BY <1>2, KeptStays
<1>3. ASSUME NEW r \in Request, StartShift(r) \/ RefreshLocationWhileOnTrip(r) \/ ReportLocation(r)
      PROVE  KeptInv'
  <2>1. request[r].op \in Writes
    BY <1>3 DEF StartShift, RefreshLocationWhileOnTrip, ReportLocation, Writes
  <2>2. request[r].driver \in Driver /\ request[r].began \in Moment /\ now <= request[r].began + 1
    BY <2>1, RequestShapes DEF TypeOK, WriteState, RequestFresh
  <2>3. \A d \in Driver : position'[d] = position[d] \/ position'[d] = request[r].began
    BY <1>1, <1>3, <2>2 DEF StartShift, RefreshLocationWhileOnTrip, ReportLocation, WritePosition
  <2>4. UNCHANGED <<purgeVars, now>>
    BY <1>3 DEF StartShift, RefreshLocationWhileOnTrip, ReportLocation
  <2> QED  BY <2>2, <2>3, <2>4, KeptStays
<1>4. ASSUME \/ \E r \in Request : ClearLocationAfterConsentRevoked(r)
             \/ \E d \in Driver : EndShift(d) \/ Suspend(d) \/ RotatePin(d)
      PROVE  KeptInv'
  <2>1. \A d \in Driver : position'[d] \in {None, position[d]}
    BY <1>1, <1>4 DEF ClearLocationAfterConsentRevoked, EndShift, Suspend, RotatePin
  <2>2. UNCHANGED <<purgeVars, now>>
    BY <1>4 DEF ClearLocationAfterConsentRevoked, EndShift, Suspend, RotatePin
  <2> QED  BY <2>1, <2>2, KeptStays
<1>5. CASE Tick
  <2>1. ~due /\ purge = Idle /\ due' = TRUE /\ now' = now + 1 /\ UNCHANGED <<position, purge, misses>>
    BY <1>5 DEF Tick, driverVars
  <2>2. ~Running /\ ~Running'
    BY <2>1 DEF Running, Idle
  <2>3. Owing = 0 /\ Owing' = 1
    BY <2>1, <2>2 DEF Owing
  <2> QED  BY <1>1, <2>1, <2>2, <2>3 DEF KeptInv
<1>6. CASE BeginPurge
  <2>1. due /\ due' = FALSE /\ purge'.op = "running" /\ purge'.began = now /\ purge'.done = {}
        /\ UNCHANGED <<position, misses, now>>
    BY <1>6 DEF BeginPurge, driverVars
  <2>2. Owing = 1 /\ Owing' = 1
    BY <2>1 DEF Owing, Running
  <2> QED  BY <2>1, <2>2 DEF KeptInv, PassedBy
<1>7. ASSUME NEW c \in Company, PurgeStaleLocations(c) PROVE KeptInv'
  <2>1. purge \in [op : {"running"}, began : Moment, todo : SUBSET Company,
                   done : SUBSET Company, cleared : SUBSET Driver]
    BY <1>7, PurgeShape DEF PurgeStaleLocations, TypeOK
  <2>2. /\ purge'.op = "running" /\ purge'.began = purge.began /\ purge'.done = purge.done \cup {c}
        /\ purge'.cleared = purge.cleared \cup { d \in Driver : CompanyOf[d] = c /\ Purgeable(d) }
    BY <1>7, <2>1 DEF PurgeStaleLocations
  <2>3. UNCHANGED <<position, misses, now, due>> /\ Running /\ Running' /\ Owing' = Owing
    BY <1>7, <2>2 DEF PurgeStaleLocations, driverVars, Running, Owing
  <2>4. ASSUME NEW d \in Driver, PassedBy(d)', position'[d] # None PROVE now <= position[d] + PurgeHours
    <3>1. CASE PassedBy(d)
      BY <2>3, <2>4, <3>1 DEF KeptInv
    <3>2. CASE ~PassedBy(d)
      <4>1. ~Purgeable(d)
        BY <2>2, <2>4, <3>2 DEF PassedBy
      <4>2. purge.began = now /\ position[d] \in Nat
        BY <1>1, <2>3, <2>4 DEF KeptInv
      <4> QED  BY <1>1, <4>1, <4>2, ShiftAssumption DEF Purgeable
    <3> QED  BY <3>1, <3>2
  <2> QED  BY <2>2, <2>3, <2>4 DEF KeptInv
<1>8. ASSUME NEW c \in Company, MissCompany(c) PROVE KeptInv'
  <2>1. purge \in [op : {"running"}, began : Moment, todo : SUBSET Company,
                   done : SUBSET Company, cleared : SUBSET Driver]
    BY <1>8, PurgeShape DEF MissCompany, TypeOK
  <2>2. /\ purge'.op = "running" /\ purge'.began = purge.began /\ purge'.done = purge.done
        /\ purge'.cleared = purge.cleared
    BY <1>8, <2>1 DEF MissCompany
  <2>3. UNCHANGED <<position, misses, now, due>> /\ Running /\ Running' /\ Owing' = Owing
    BY <1>8, <2>2 DEF MissCompany, driverVars, Running, Owing
  <2> QED  BY <2>2, <2>3 DEF KeptInv, PassedBy
<1>9. CASE CommitPurge \/ AbortPurge
  <2>1. Running /\ ~Running' /\ ~due /\ UNCHANGED <<due, now>>
    BY <1>9 DEF CommitPurge, AbortPurge, Running, Idle, KeptInv
  <2>2. Owing = 1 /\ Owing' = 0
    BY <2>1 DEF Owing
  <2>3. ASSUME NEW d \in Driver, position'[d] # None
        PROVE  now <= position'[d] + PurgeHours + misses'[CompanyOf[d]]
    <3>1. CASE CommitPurge
      <4>1. d \notin purge.cleared /\ position'[d] = position[d] /\ position[d] \in Nat
        BY <1>1, <2>3, <3>1 DEF CommitPurge
      <4>2. misses'[CompanyOf[d]] = IF CompanyOf[d] \in purge.done THEN 0 ELSE misses[CompanyOf[d]] + 1
        BY <1>1, <3>1 DEF CommitPurge
      <4>3. CASE CompanyOf[d] \in purge.done
        BY <1>1, <2>1, <4>1, <4>2, <4>3, ShiftAssumption DEF KeptInv, PassedBy
      <4>4. CASE CompanyOf[d] \notin purge.done
        BY <1>1, <2>2, <4>1, <4>2, <4>4, ShiftAssumption DEF KeptInv
      <4> QED  BY <4>3, <4>4
    <3>2. CASE AbortPurge
      <4>1. UNCHANGED position /\ misses'[CompanyOf[d]] = misses[CompanyOf[d]] + 1
        BY <1>1, <3>2 DEF AbortPurge, driverVars
      <4> QED  BY <1>1, <2>2, <2>3, <4>1, ShiftAssumption DEF KeptInv
    <3> QED  BY <1>9, <3>1, <3>2
  <2>4. \A d \in Driver : position'[d] # None => position'[d] \in Nat /\ misses'[CompanyOf[d]] \in Nat
    BY <1>1, <1>9 DEF CommitPurge, AbortPurge, driverVars
  <2> QED  BY <1>1, <2>1, <2>2, <2>3, <2>4 DEF KeptInv
<1>10. ASSUME \/ \E r \in Request :
                   \/ WithLocationConsent(r) \/ LookAtStatus(r) \/ Fails(r)
                   \/ GrantConsent(r) \/ RevokeConsent(r)
                   \/ \E d \in Driver : DriverCall(r, d)
              \/ \E t \in Trip : Drive(t)
              \/ Track
       PROVE  UNCHANGED <<position, purgeVars, now>>
  BY <1>10 DEF WithLocationConsent, LookAtStatus, Fails, GrantConsent, RevokeConsent, DriverCall,
     BeginWrite, BeginGrant, BeginRevoke, Drive, TakeTrip, LeaveTrip, StartTrip, Track,
     BeginTracking, GetAcceptedDriverId, CheckSharing, GetTrackingSnapshot, driverVars
<1>11. UNCHANGED vars => UNCHANGED <<position, purgeVars, now>>
  BY DEF vars, driverVars
<1> QED  BY <1>2, <1>3, <1>4, <1>5, <1>6, <1>7, <1>8, <1>9, <1>10, <1>11
            DEF Next, Serve, RunPurge

(* No position is kept longer than the purge allows, plus an hour for each *)
(* purge in a row that missed the company.                                 *)
THEOREM KeptNoLonger == Spec => []KeptAtMost
<1>1. Init => RequestFresh /\ KeptInv
  BY ShiftAssumption DEF Init, RequestFresh, KeptInv, Owing, Running, Idle, Writes, Moment
<1>2. TypeOK /\ RequestFresh /\ KeptInv /\ [Next]_vars => (RequestFresh /\ KeptInv)'
  BY FreshKept, KeptKept
<1>3. TypeOK /\ KeptInv => KeptAtMost
  <2>1. TypeOK => /\ now \in Nat /\ PurgeHours \in Nat
                  /\ \A d \in Driver : misses[CompanyOf[d]] \in Nat /\ position[d] \in Nat \cup {None}
    BY ShiftAssumption DEF TypeOK, Moment
  <2>2. Owing \in {0, 1}
    BY DEF Owing
  <2> QED  BY <2>1, <2>2 DEF KeptInv, KeptAtMost
<1> QED  BY <1>1, <1>2, <1>3, TypeCorrect, PTL DEF Spec

=============================================================================
