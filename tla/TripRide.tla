------------------------------ MODULE TripRide ------------------------------
(***************************************************************************)
(* One trip row from its taking to its end: the start code the database    *)
(* issues for each taking and the attempts to use it, the arrival, the     *)
(* no-show, the cash and the penalty of a late cancellation.               *)
(*                                                                         *)
(* A request is checked without a lock (the caller holds the trip, or may  *)
(* cancel it) and runs its statements later; each statement is atomic and  *)
(* sees what was committed before it (READ COMMITTED). Start is three      *)
(* statements and so three steps. The drivers are colleagues: a request    *)
(* checked for one holder may run when another holds the trip. The clock   *)
(* of the service and that of the database are taken to agree. How drivers *)
(* are found, and a search that finds none, are left to TripTaking.        *)
(***************************************************************************)
EXTENDS TripContracts, Naturals, FiniteSets

CONSTANTS
  Code,         \* start codes
  MaxFailed,    \* START_CODE_MAX_FAILED_ATTEMPTS
  Window,       \* minutes of free cancellation after the assignment
  Grace,        \* minutes a passenger may be late after the arrival
  Handler,      \* identities of request handlers that may be in flight
  MaxTime,      \* bound: the clock stops here
  MaxTakes,     \* bound: how often the trip is taken
  None

ASSUME RideAssumption ==
  /\ MaxFailed \in Nat \ {0}
  /\ Window \in Nat /\ Grace \in Nat /\ MaxTime \in Nat /\ MaxTakes \in Nat
  /\ None \notin Nat /\ None \notin Code

VARIABLES
  status,
  code,         \* start_code
  failed,       \* start_code_failed_attempts
  blocked,      \* start_code_blocked_at IS NOT NULL
  exempt,       \* start_code_exempt: taken before start codes existed
  assignedAt, arrivedAt, finishedAt,
  cashAt,       \* cash_collected_at
  penalty,      \* penalty_recorded
  now,
  request,      \* requests that were checked and not yet answered
  takes,        \* history: the times of all takings
  wrongAnswers  \* history: wrong-code answers since the last taking

codeVars == <<code, failed, blocked, exempt>>
timeVars == <<assignedAt, arrivedAt, finishedAt, cashAt>>
histVars == <<takes, wrongAnswers>>
vars == <<status, codeVars, timeVars, penalty, now, request, histVars>>

RideStatus == TripStatus \ {"no_driver", "expired"}
CodeWindow == {"assigned", "driver_en_route"}
Moment     == 0..MaxTime

DriverOps == {"en_route", "arrive", "no_show", "cancel", "cash"}

Idle == [op |-> "idle"]

(* "start", "count" and "outcome" are the three statements of a start,     *)
(* "cancel" and "abandon" the two of a driver's cancellation.              *)
Request ==
  {Idle}
    \cup [op : DriverOps \cup {"abandon"}]
    \cup [op : {"start", "count", "outcome"}, code : Code \cup {None}]
    \cup [op : {"complete"}, cash : BOOLEAN]
    \cup [op : {"withdraw"}, fine : BOOLEAN]

TypeOK ==
  /\ status \in RideStatus
  /\ code \in Code \cup {None}
  /\ failed \in 0..MaxFailed
  /\ blocked \in BOOLEAN /\ exempt \in BOOLEAN /\ penalty \in BOOLEAN
  /\ now \in Moment
  /\ {assignedAt, arrivedAt, finishedAt, cashAt} \subseteq Moment \cup {None}
  /\ request \in [Handler -> Request]
  /\ takes \subseteq Moment
  /\ wrongAnswers \in Nat

(* A new trip, or one the migration found with a driver.                   *)
Init ==
  /\ \/ /\ status = "pending_assignment"
        /\ exempt = FALSE /\ assignedAt = None /\ takes = {}
     \/ /\ status \in CodeWindow
        /\ exempt = TRUE /\ assignedAt = 0 /\ takes = {0}
  /\ code = None /\ failed = 0 /\ blocked = FALSE
  /\ arrivedAt = None /\ finishedAt = None /\ cashAt = None
  /\ penalty = FALSE
  /\ now = 0
  /\ request = [h \in Handler |-> Idle]
  /\ wrongAnswers = 0

-----------------------------------------------------------------------------
(* The trigger trip_request_start_code_guard on the updates of the status. *)

(* Entering the code window: a new code, and the attempts start again.     *)
IssueCode ==
  /\ code' \in Code
  /\ failed' = 0
  /\ blocked' = FALSE
  /\ exempt' = FALSE

(* Leaving it for good: the code is dropped, what happened to it stays.    *)
DropCode ==
  /\ code' = None
  /\ UNCHANGED <<failed, blocked, exempt>>

ClearCode ==
  /\ code' = None
  /\ failed' = 0
  /\ blocked' = FALSE
  /\ exempt' = FALSE

-----------------------------------------------------------------------------
(* Before a driver holds the trip.                                         *)

Tick ==
  /\ now < MaxTime
  /\ now' = now + 1
  /\ UNCHANGED <<status, codeVars, timeVars, penalty, request, histVars>>

(* markTripRequestAssigned.                                                *)
Take ==
  /\ status = "pending_assignment"
  /\ Cardinality(takes) < MaxTakes
  /\ status' = "assigned"
  /\ assignedAt' = now
  /\ IssueCode
  /\ takes' = takes \cup {now}
  /\ wrongAnswers' = 0
  /\ UNCHANGED <<arrivedAt, finishedAt, cashAt, penalty, now, request>>

-----------------------------------------------------------------------------
(* The check a request starts with: inOwnedTrip for the driver (his        *)
(* assignment is accepted; for the cash it is completed), the status and   *)
(* the free window for the passenger.                                      *)

Receive(h, r) ==
  /\ request[h] = Idle
  /\ request' = [request EXCEPT ![h] = r]
  /\ UNCHANGED <<status, codeVars, timeVars, penalty, now, histVars>>

ReceiveFromHolder(h) ==
  /\ status \in HeldStatus
  /\ \/ \E op \in DriverOps \ {"cash"} : Receive(h, [op |-> op])
     \/ \E c \in Code \cup {None} : Receive(h, [op |-> "start", code |-> c])
     \/ \E paid \in BOOLEAN : Receive(h, [op |-> "complete", cash |-> paid])

ReceiveCash(h) ==
  /\ status \in {"completed", "no_show"}
  /\ Receive(h, [op |-> "cash"])

(* Mutant: the window is counted from the request of the trip, not from    *)
(* its assignment.                                                         *)
FreeSinceRequest == now <= Window

(* isFreeCancellation.                                                     *)
FreeCancellation ==
  status \in {"assigned", "driver_en_route"} => now <= assignedAt + Window

ReceiveWithdraw(h) ==
  /\ status \in SourceStatusesFor("cancelled_by_passenger")
  /\ Receive(h, [op |-> "withdraw", fine |-> ~FreeCancellation])

Answered(h) == request' = [request EXCEPT ![h] = Idle]

(* The statement found no row to change and its refusal was answered, or   *)
(* the transaction was rolled back.                                        *)
GiveUp(h) ==
  /\ request[h] # Idle
  /\ Answered(h)
  /\ UNCHANGED <<status, codeVars, timeVars, penalty, now, histVars>>

-----------------------------------------------------------------------------
(* The ride.                                                               *)

MarkEnRoute(h) ==
  /\ request[h].op = "en_route"
  /\ status = "assigned"
  /\ status' = "driver_en_route"
  /\ Answered(h)
  /\ UNCHANGED <<codeVars, timeVars, penalty, now, histVars>>

MarkArrived(h) ==
  /\ request[h].op = "arrive"
  /\ status = "driver_en_route"
  /\ arrivedAt = None
  /\ arrivedAt' = now
  /\ Answered(h)
  /\ UNCHANGED <<status, codeVars, assignedAt, finishedAt, cashAt, penalty, now, histVars>>

Continue(h, op) ==
  request' = [request EXCEPT ![h] = [op |-> op, code |-> request[h].code]]

CodeMatches(c) ==
  /\ ~blocked
  /\ \/ code = c /\ c # None
     \/ code = None /\ exempt

(* startWithCode, its first update: the ride starts, or the code that was  *)
(* sent is counted next, or the refusal is read.                           *)
StartWithCode(h) ==
  /\ request[h].op = "start"
  /\ IF status = "driver_en_route" /\ CodeMatches(request[h].code)
     THEN /\ status' = "in_progress"
          /\ DropCode
          /\ Answered(h)
     ELSE /\ Continue(h, IF request[h].code = None THEN "outcome" ELSE "count")
          /\ UNCHANGED <<status, codeVars>>
  /\ UNCHANGED <<timeVars, penalty, now, histVars>>

(* Mutant: the wrong code is refused by an exception inside the            *)
(* transaction, which undoes the count.                                    *)
FailedAttemptUndone(h) ==
  /\ wrongAnswers' = wrongAnswers + 1
  /\ Answered(h)
  /\ UNCHANGED codeVars

(* The update of recordFailedStartAttempt and the answer it gives.         *)
FailedAttempt(h) ==
  LET last == failed + 1 >= MaxFailed
  IN  /\ failed' = failed + 1
      /\ blocked' = last
      /\ code' = IF last THEN None ELSE code
      /\ UNCHANGED exempt
      /\ wrongAnswers' = wrongAnswers + 1
      /\ Answered(h)

(* recordFailedStartAttempt.                                               *)
RecordFailedStartAttempt(h) ==
  /\ request[h].op = "count"
  /\ IF status = "driver_en_route" /\ ~blocked /\ code \notin {None, request[h].code}
     THEN FailedAttempt(h)
     ELSE /\ Continue(h, "outcome")
          /\ UNCHANGED <<codeVars, wrongAnswers>>
  /\ UNCHANGED <<status, timeVars, penalty, now, takes>>

-----------------------------------------------------------------------------
(* The ends of the trip: closeTripRequest for each target.                 *)

(* A trip already in the status asked for is answered and not written      *)
(* again, like one in any other status (GiveUp).                           *)
Close(h, to) ==
  /\ status \in SourceStatusesFor(to)
  /\ status' = to
  /\ finishedAt' = now
  /\ DropCode
  /\ Answered(h)
  /\ UNCHANGED <<assignedAt, arrivedAt, now, histVars>>

Complete(h) ==
  /\ request[h].op = "complete"
  /\ Close(h, "completed")
  /\ cashAt' = IF request[h].cash THEN now ELSE cashAt
  /\ UNCHANGED penalty

GraceOver == arrivedAt # None /\ arrivedAt + Grace <= now

DeclareNoShow(h) ==
  /\ request[h].op = "no_show"
  /\ GraceOver
  /\ Close(h, "no_show")
  /\ UNCHANGED <<cashAt, penalty>>

(* Whether the cancellation is fined was decided when it was received; the *)
(* block of the start code is read with the update.                        *)
Fine(h) == penalty' = (penalty \/ (request[h].fine /\ ~blocked))

CancelByPassenger(h) ==
  /\ request[h].op = "withdraw"
  /\ Close(h, "cancelled_by_passenger")
  /\ Fine(h)
  /\ UNCHANGED cashAt

(* Mutant: a driver on his way may give the trip back to the search.       *)
ReopenEnRoute(h) ==
  /\ request[h].op = "cancel"
  /\ status \in CodeWindow
  /\ status' = "pending_assignment"
  /\ arrivedAt' = None
  /\ ClearCode
  /\ Answered(h)
  /\ UNCHANGED <<assignedAt, finishedAt, cashAt, penalty, now, histVars>>

(* cancelByDriver: reopenTripRequest, which keeps assigned_at, and the     *)
(* closing of the trip when it reopened nothing.                           *)
Reopen(h) ==
  /\ request[h].op = "cancel"
  /\ status = "assigned"
  /\ status' = "pending_assignment"
  /\ arrivedAt' = None
  /\ ClearCode
  /\ Answered(h)
  /\ UNCHANGED <<assignedAt, finishedAt, cashAt, penalty, now, histVars>>

ReopensNothing(h) ==
  /\ request[h].op = "cancel"
  /\ status # "assigned"
  /\ request' = [request EXCEPT ![h] = [op |-> "abandon"]]
  /\ UNCHANGED <<status, codeVars, timeVars, penalty, now, histVars>>

CloseByDriver(h) ==
  /\ request[h].op = "abandon"
  /\ Close(h, "cancelled_by_driver")
  /\ UNCHANGED <<cashAt, penalty>>

MarkCashCollected(h) ==
  /\ request[h].op = "cash"
  /\ status = "completed"
  /\ cashAt = None
  /\ cashAt' = now
  /\ Answered(h)
  /\ UNCHANGED <<status, codeVars, assignedAt, arrivedAt, finishedAt, penalty, now, histVars>>

-----------------------------------------------------------------------------

Step(h) ==
  \/ ReceiveFromHolder(h) \/ ReceiveCash(h) \/ ReceiveWithdraw(h) \/ GiveUp(h)
  \/ MarkEnRoute(h) \/ MarkArrived(h)
  \/ StartWithCode(h) \/ RecordFailedStartAttempt(h)
  \/ Complete(h) \/ DeclareNoShow(h) \/ CancelByPassenger(h)
  \/ Reopen(h) \/ ReopensNothing(h) \/ CloseByDriver(h) \/ MarkCashCollected(h)

Next == Tick \/ Take \/ \E h \in Handler : Step(h)

Spec == Init /\ [][Next]_vars

-----------------------------------------------------------------------------
(* The constraints the migration puts on the row, which no statement of    *)
(* the code is allowed to run into: the attempts stay within their limit,  *)
(* the trip is blocked exactly at the limit, a code exists only while the  *)
(* ride can still start by it, and a ride that can start has one unless it *)
(* is exempt or blocked. A trip whose start is blocked is never ridden.    *)
CodeConstraints ==
  /\ blocked <=> failed = MaxFailed
  /\ code # None => status \in CodeWindow /\ ~blocked
  /\ status \in CodeWindow => code # None \/ exempt \/ blocked
  /\ blocked => status \notin {"in_progress", "completed"}

(* The trigger refuses to give a trip with failed attempts back to the     *)
(* search. No interleaving of requests makes the code try.                 *)
NeverReopensAttempted ==
  [][failed > 0 => ~(\/ status' = "pending_assignment"
                     \/ status' \in CodeWindow /\ status \notin CodeWindow)]_vars

(* A driver is told that his code was wrong exactly as often as an attempt *)
(* is counted against the taking in force, whatever requests overlap.      *)
WrongAnswersAreCounted == wrongAnswers = failed

(* Codes and attempts: no statement runs into a constraint of the row, and *)
(* no wrong answer is lost or counted twice.                               *)
CodeIsAccounted == CodeConstraints /\ WrongAnswersAreCounted

(* A fine needs a taking that was already over its free window when the    *)
(* trip ended, and a start that was not blocked.                           *)
FineIsOverdue ==
  penalty => /\ status = "cancelled_by_passenger"
             /\ \E t \in takes : finishedAt > t + Window
             /\ ~blocked

(* The arrival belongs to the driver who holds the trip, never to one who  *)
(* gave it back, and a no-show comes after his grace.                      *)
ArrivalOfHolder ==
  /\ arrivedAt # None =>
       /\ status \notin {"pending_assignment", "assigned"}
       /\ arrivedAt >= assignedAt
  /\ status = "no_show" => arrivedAt # None /\ finishedAt >= arrivedAt + Grace

(* A trip ends with a fine, or as a no-show, only for a passenger who was  *)
(* late by the clock of the taking in question.                            *)
EndIsEarned == FineIsOverdue /\ ArrivalOfHolder

(* Repeated and overlapping requests never rewrite the end of a trip, the  *)
(* cash or the fine.                                                       *)
EndIsWrittenOnce ==
  [][/\ finishedAt # None => UNCHANGED <<status, finishedAt, penalty, arrivedAt>>
     /\ cashAt # None => UNCHANGED cashAt]_vars

(* A trip nobody holds is cancelled free of charge.                        *)
PendingIsFree ==
  [][status = "pending_assignment" => UNCHANGED penalty]_vars

=============================================================================
