--------------------------- MODULE TripRideProofs ---------------------------
(***************************************************************************)
(* What holds of one ride for any codes, limits and requests: the attempts *)
(* at its start code are accounted for, a fine or a no-show is earned by   *)
(* the clock of a taking, and the end is written once. What carries it is  *)
(* that a trip with failed attempts is never assigned or pending, that the *)
(* times of a taking are known, and that a request found late stays late.  *)
(***************************************************************************)
EXTENDS TripRide, TLAPS

Ended == RideStatus \ ({"pending_assignment"} \cup HeldStatus)

(* A trip with failed attempts is past the point of giving it back.        *)
Attempts ==
  /\ CodeIsAccounted
  /\ failed > 0 => status \notin {"pending_assignment", "assigned"}

(* A trip that is held was taken, and not later than now.                  *)
Times ==
  /\ \A t \in takes : t <= now
  /\ assignedAt # None => assignedAt \in takes
  /\ status \in HeldStatus => assignedAt # None
  /\ arrivedAt # None => assignedAt # None
  /\ ArrivalOfHolder

Overdue(time) == \E t \in takes : time > t + Window

(* Who was found late is late for some taking, and ever after.             *)
Fines ==
  /\ FineIsOverdue
  /\ \A h \in Handler : request[h].op = "withdraw" /\ request[h].fine => Overdue(now)

Ends ==
  /\ finishedAt # None <=> status \in Ended
  /\ cashAt # None => status = "completed"

RideInv == TypeOK /\ Attempts /\ Times /\ Fines /\ Ends

LEMMA Statuses ==
  /\ RideStatus = {"pending_assignment", "assigned", "driver_en_route", "in_progress", "completed",
                   "cancelled_by_passenger", "cancelled_by_driver", "no_show"}
  /\ Ended = {"completed", "cancelled_by_passenger", "cancelled_by_driver", "no_show"}
  BY DEF RideStatus, TripStatus, Ended, HeldStatus

(* The statuses a trip can be closed from, for each target.                *)
LEMMA Sources ==
  /\ SourceStatusesFor("completed") = {"in_progress"}
  /\ SourceStatusesFor("no_show") = {"driver_en_route"}
  /\ SourceStatusesFor("cancelled_by_passenger") = {"pending_assignment", "assigned", "driver_en_route"}
  /\ SourceStatusesFor("cancelled_by_driver") = {"assigned", "driver_en_route"}
  BY DEF SourceStatusesFor, TripTransitions, TripStatus

LEMMA RideStarts == Init => RideInv
<1> SUFFICES ASSUME Init PROVE RideInv
  OBVIOUS
<1> USE RideAssumption
<1>1. TypeOK
  <2>1. request \in [Handler -> Request]
    BY DEF Init, Request
  <2>2. {assignedAt, arrivedAt, finishedAt, cashAt} \subseteq Moment \cup {None} /\ takes \subseteq Moment
    BY DEF Init, Moment
  <2>3. status \in RideStatus /\ exempt \in BOOLEAN
    BY Statuses DEF Init, CodeWindow
  <2>4. failed \in 0..MaxFailed /\ now \in Moment /\ code \in Code \cup {None} /\ wrongAnswers \in Nat
    BY DEF Init, Moment
  <2> QED  BY <2>1, <2>2, <2>3, <2>4 DEF Init, TypeOK
<1>2. Attempts
  BY DEF Init, Attempts, CodeIsAccounted, CodeConstraints, WrongAnswersAreCounted, CodeWindow
<1>3. Times
  BY DEF Init, Times, ArrivalOfHolder, CodeWindow, HeldStatus
<1>4. Fines
  BY DEF Init, Fines, FineIsOverdue, Idle
<1>5. Ends
  BY Statuses DEF Init, Ends, CodeWindow
<1> QED  BY <1>1, <1>2, <1>3, <1>4, <1>5 DEF RideInv

-----------------------------------------------------------------------------

(* What a request does next.                                               *)
LEMMA RequestTyped ==
  ASSUME TypeOK, NEW h \in Handler, NEW r \in Request, request' = [request EXCEPT ![h] = r]
  PROVE  /\ request' \in [Handler -> Request] /\ request'[h] = r
         /\ \A g \in Handler \ {h} : request'[g] = request[g]
BY DEF TypeOK

LEMMA AnsweredTyped ==
  ASSUME TypeOK, NEW h \in Handler, Answered(h)
  PROVE  /\ request' \in [Handler -> Request]
         /\ \A g \in Handler : request'[g] = request[g] \/ request'[g] = Idle
BY RequestTyped DEF Answered, Request

LEMMA RideTyped == ASSUME RideInv, [Next]_vars PROVE TypeOK'
<1> USE RideAssumption, Statuses DEF codeVars, timeVars, histVars
<1>0. TypeOK /\ Attempts /\ 0 \in 0..MaxFailed /\ 0 \in Nat
  BY DEF RideInv
<1>1. CASE UNCHANGED vars
  BY <1>0, <1>1 DEF vars, TypeOK
<1>2. CASE Tick
  BY <1>0, <1>2 DEF Tick, TypeOK, Moment
<1>3. CASE Take
  <2>1. /\ failed' \in 0..MaxFailed /\ code' \in Code \cup {None} /\ blocked' \in BOOLEAN /\ exempt' \in BOOLEAN
        /\ wrongAnswers' \in Nat
    BY <1>0, <1>3 DEF Take, IssueCode
  <2>2. takes' \subseteq Moment /\ {assignedAt, arrivedAt, finishedAt, cashAt}' \subseteq Moment \cup {None}
    BY <1>0, <1>3 DEF Take, TypeOK
  <2>3. status' \in RideStatus
    BY <1>3 DEF Take
  <2> QED  BY <1>0, <1>3, <2>1, <2>2, <2>3 DEF Take, TypeOK
<1>4. ASSUME NEW h \in Handler, NEW r \in Request, Receive(h, r) PROVE TypeOK'
  BY <1>0, <1>4, RequestTyped DEF Receive, TypeOK
<1>5. ASSUME NEW h \in Handler, ReceiveFromHolder(h) \/ ReceiveCash(h) \/ ReceiveWithdraw(h) PROVE TypeOK'
  <2>1. /\ \A op \in DriverOps : [op |-> op] \in Request
        /\ \A c \in Code \cup {None} : [op |-> "start", code |-> c] \in Request
        /\ \A paid \in BOOLEAN : [op |-> "complete", cash |-> paid] \in Request
        /\ [op |-> "withdraw", fine |-> ~FreeCancellation] \in Request
    BY DEF Request
  <2> QED  BY <1>4, <1>5, <2>1 DEF ReceiveFromHolder, ReceiveCash, ReceiveWithdraw, DriverOps
<1>6. ASSUME NEW h \in Handler, GiveUp(h) \/ MarkEnRoute(h) \/ MarkArrived(h) \/ MarkCashCollected(h) PROVE TypeOK'
  BY <1>0, <1>6, AnsweredTyped DEF GiveUp, MarkEnRoute, MarkArrived, MarkCashCollected, TypeOK
<1>7. ASSUME NEW h \in Handler, NEW op \in {"count", "outcome"}, request[h].op \in {"start", "count"},
             Continue(h, op)
      PROVE  request' \in [Handler -> Request]
  <2>1. request[h].code \in Code \cup {None}
    BY <1>0, <1>7 DEF TypeOK, Request, Idle, DriverOps
  <2>2. [op |-> op, code |-> request[h].code] \in Request
    BY <2>1 DEF Request
  <2> QED  BY <1>0, <1>7, <2>2, RequestTyped DEF Continue
<1>8. ASSUME NEW h \in Handler, StartWithCode(h) PROVE TypeOK'
  BY <1>0, <1>7, <1>8, AnsweredTyped DEF StartWithCode, DropCode, TypeOK
<1>9. ASSUME NEW h \in Handler, RecordFailedStartAttempt(h) PROVE TypeOK'
  <2>1. CASE status = "driver_en_route" /\ ~blocked /\ code \notin {None, request[h].code}
    <3>1. failed # MaxFailed
      BY <1>0, <2>1 DEF Attempts, CodeIsAccounted, CodeConstraints
    <3>2. failed + 1 \in 0..MaxFailed /\ wrongAnswers + 1 \in Nat
      BY <1>0, <3>1 DEF TypeOK
    <3> QED  BY <1>0, <1>9, <2>1, <3>2, AnsweredTyped DEF RecordFailedStartAttempt, FailedAttempt, TypeOK
  <2>2. CASE ~(status = "driver_en_route" /\ ~blocked /\ code \notin {None, request[h].code})
    BY <1>0, <1>7, <1>9, <2>2 DEF RecordFailedStartAttempt, TypeOK
  <2> QED  BY <2>1, <2>2
<1>10. ASSUME NEW h \in Handler, NEW to \in Ended, Close(h, to), cashAt' \in {cashAt, now}, penalty' \in BOOLEAN
       PROVE  TypeOK'
  BY <1>0, <1>10, AnsweredTyped DEF Close, DropCode, TypeOK
<1>11. ASSUME NEW h \in Handler, Complete(h) \/ DeclareNoShow(h) \/ CancelByPassenger(h) \/ CloseByDriver(h)
       PROVE  TypeOK'
  BY <1>0, <1>10, <1>11 DEF Complete, DeclareNoShow, CancelByPassenger, CloseByDriver, Fine, TypeOK
<1>12. ASSUME NEW h \in Handler, Reopen(h) PROVE TypeOK'
  <2>1. request' \in [Handler -> Request] /\ status' \in RideStatus
    BY <1>0, <1>12, AnsweredTyped DEF Reopen
  <2>2. /\ failed' \in 0..MaxFailed /\ code' \in Code \cup {None} /\ blocked' \in BOOLEAN /\ exempt' \in BOOLEAN
        /\ {assignedAt, arrivedAt, finishedAt, cashAt}' \subseteq Moment \cup {None}
    BY <1>0, <1>12 DEF Reopen, ClearCode, TypeOK
  <2> QED  BY <1>0, <1>12, <2>1, <2>2 DEF Reopen, TypeOK
<1>13. ASSUME NEW h \in Handler, ReopensNothing(h) PROVE TypeOK'
  <2>1. [op |-> "abandon"] \in Request
    BY DEF Request
  <2> QED  BY <1>0, <1>13, <2>1, RequestTyped DEF ReopensNothing, TypeOK
<1> QED
  BY <1>1, <1>2, <1>3, <1>5, <1>6, <1>8, <1>9, <1>11, <1>12, <1>13 DEF Next, Step

-----------------------------------------------------------------------------
(* The end of the ride, whatever the target.                               *)
Closing(h) ==
  \/ Complete(h) /\ Close(h, "completed")
  \/ DeclareNoShow(h) /\ Close(h, "no_show")
  \/ CancelByPassenger(h) /\ Close(h, "cancelled_by_passenger")
  \/ CloseByDriver(h) /\ Close(h, "cancelled_by_driver")

(* Steps that only check, count time or give up.                           *)
Waits ==
  /\ UNCHANGED <<status, codeVars, timeVars, penalty, histVars>>
  /\ now' >= now

LEMMA StepKinds ==
  ASSUME RideInv, [Next]_vars
  PROVE  \/ Waits \/ Take
         \/ \E h \in Handler :
              \/ MarkEnRoute(h) \/ MarkArrived(h) \/ StartWithCode(h) \/ RecordFailedStartAttempt(h)
              \/ Closing(h) \/ Reopen(h) \/ MarkCashCollected(h)
<1>1. now \in Nat
  BY RideAssumption DEF RideInv, TypeOK, Moment
<1>2. CASE UNCHANGED vars \/ Tick
  BY <1>1, <1>2 DEF vars, Tick, Waits
<1>3. ASSUME NEW h \in Handler,
             ReceiveFromHolder(h) \/ ReceiveCash(h) \/ ReceiveWithdraw(h) \/ GiveUp(h) \/ ReopensNothing(h)
      PROVE  Waits
  BY <1>1, <1>3 DEF ReceiveFromHolder, ReceiveCash, ReceiveWithdraw, Receive, GiveUp, ReopensNothing, Waits
<1>4. ASSUME NEW h \in Handler, Complete(h) \/ DeclareNoShow(h) \/ CancelByPassenger(h) \/ CloseByDriver(h)
      PROVE  Closing(h)
  BY <1>4 DEF Closing, Complete, DeclareNoShow, CancelByPassenger, CloseByDriver
<1> QED  BY <1>2, <1>3, <1>4 DEF Next, Step

LEMMA AttemptsKept == ASSUME RideInv, [Next]_vars PROVE Attempts'
<1> USE RideAssumption
<1>0. /\ Attempts /\ failed \in 0..MaxFailed /\ wrongAnswers \in Nat /\ blocked \in BOOLEAN
      /\ code \in Code \cup {None}
  BY DEF RideInv, TypeOK
<1> USE DEF Attempts, CodeIsAccounted, CodeConstraints, WrongAnswersAreCounted, CodeWindow
<1>1. CASE Waits
  BY <1>0, <1>1 DEF Waits, codeVars, histVars
<1>2. CASE Take
  BY <1>0, <1>2 DEF Take, IssueCode
<1>3. ASSUME NEW h \in Handler, MarkEnRoute(h) \/ MarkArrived(h) \/ MarkCashCollected(h) PROVE Attempts'
  BY <1>0, <1>3 DEF MarkEnRoute, MarkArrived, MarkCashCollected, codeVars, histVars
<1>4. ASSUME NEW h \in Handler, StartWithCode(h) PROVE Attempts'
  BY <1>0, <1>4 DEF StartWithCode, CodeMatches, DropCode, codeVars, histVars
<1>5. ASSUME NEW h \in Handler, RecordFailedStartAttempt(h) PROVE Attempts'
  <2>1. CASE status = "driver_en_route" /\ ~blocked /\ code \notin {None, request[h].code}
    <3>1. failed' = failed + 1 /\ wrongAnswers' = wrongAnswers + 1 /\ status' = status /\ failed < MaxFailed
      BY <1>0, <1>5, <2>1 DEF RecordFailedStartAttempt, FailedAttempt
    <3>2. blocked' = (failed + 1 >= MaxFailed) /\ code' = IF failed + 1 >= MaxFailed THEN None ELSE code
      BY <1>5, <2>1 DEF RecordFailedStartAttempt, FailedAttempt
    <3>3. blocked' <=> failed' = MaxFailed
      <4>1. failed + 1 >= MaxFailed <=> failed' = MaxFailed
        BY <1>0, <3>1
      <4> QED  BY <3>2, <4>1
    <3>4. code' # None <=> ~blocked'
      BY <2>1, <3>2
    <3>5. WrongAnswersAreCounted' /\ status' = "driver_en_route"
      BY <1>0, <2>1, <3>1
    <3> QED  BY <3>3, <3>4, <3>5
  <2>2. CASE ~(status = "driver_en_route" /\ ~blocked /\ code \notin {None, request[h].code})
    BY <1>0, <1>5, <2>2 DEF RecordFailedStartAttempt, codeVars
  <2> QED  BY <2>1, <2>2
<1>6. ASSUME NEW h \in Handler, Closing(h) PROVE Attempts'
  BY <1>0, <1>6, Sources DEF Closing, Close, DropCode, histVars
<1>7. ASSUME NEW h \in Handler, Reopen(h) PROVE Attempts'
  BY <1>0, <1>7 DEF Reopen, ClearCode, histVars
<1> QED  BY <1>1, <1>2, <1>3, <1>4, <1>5, <1>6, <1>7, StepKinds

(* The time goes on, and a taking keeps its time.                          *)
LEMMA TimePasses ==
  ASSUME RideInv, [Next]_vars
  PROVE  /\ now \in Nat /\ now' \in Nat /\ now <= now'
         /\ takes \subseteq takes' /\ takes \subseteq Nat /\ takes' \subseteq Nat
         /\ \A t \in takes' : t \in takes \/ (Take /\ t = now)
<1>1. takes \subseteq Nat /\ now \in Nat
  BY RideAssumption DEF RideInv, TypeOK, Moment
<1>2. CASE Waits
  <2>1. now' \in Nat
    BY RideTyped, RideAssumption DEF TypeOK, Moment
  <2> QED  BY <1>1, <1>2, <2>1 DEF Waits, histVars
<1>3. CASE Take
  BY <1>1, <1>3 DEF Take
<1>4. ASSUME NEW h \in Handler,
             \/ MarkEnRoute(h) \/ MarkArrived(h) \/ StartWithCode(h) \/ RecordFailedStartAttempt(h)
             \/ Closing(h) \/ Reopen(h) \/ MarkCashCollected(h)
      PROVE  now' = now /\ takes' = takes
  BY <1>4 DEF MarkEnRoute, MarkArrived, StartWithCode, RecordFailedStartAttempt, Closing, Close, Reopen,
     MarkCashCollected, histVars
<1>5. ASSUME now' = now, takes' = takes PROVE now <= now' /\ takes \subseteq takes' /\ takes' \subseteq Nat
  BY <1>1, <1>5
<1>6. Waits \/ Take \/ (now' = now /\ takes' = takes)
  BY <1>4, StepKinds
<1> QED  BY <1>1, <1>2, <1>3, <1>5, <1>6

LEMMA TimesKept == ASSUME RideInv, [Next]_vars PROVE Times'
<1>0. /\ Times /\ now \in Nat /\ Grace \in Nat /\ None \notin Nat
      /\ {assignedAt, arrivedAt, finishedAt} \subseteq Nat \cup {None}
  BY RideAssumption DEF RideInv, TypeOK, Moment
<1>1. \A t \in takes' : t <= now'
  BY <1>0, TimePasses DEF Times
<1>2. takes \subseteq takes' /\ takes \subseteq Nat
  BY TimePasses
<1> USE DEF ArrivalOfHolder, HeldStatus, timeVars
<1>3. CASE Waits
  BY <1>0, <1>1, <1>2, <1>3 DEF Waits, Times
<1>4. CASE Take
  BY <1>0, <1>1, <1>4 DEF Take, Times
<1>5. ASSUME NEW h \in Handler, MarkEnRoute(h) \/ StartWithCode(h) \/ RecordFailedStartAttempt(h) PROVE Times'
  BY <1>0, <1>1, <1>2, <1>5 DEF MarkEnRoute, StartWithCode, RecordFailedStartAttempt, Times
<1>6. ASSUME NEW h \in Handler, MarkArrived(h) PROVE Times'
  BY <1>0, <1>1, <1>2, <1>6 DEF MarkArrived, Times
<1>7. ASSUME NEW h \in Handler, MarkCashCollected(h) PROVE Times'
  BY <1>0, <1>1, <1>2, <1>7 DEF MarkCashCollected, Times
<1>8. ASSUME NEW h \in Handler, Reopen(h) PROVE Times'
  BY <1>0, <1>1, <1>2, <1>8 DEF Reopen, Times
<1>9. ASSUME NEW h \in Handler, Closing(h) PROVE Times'
  <2>1. CASE DeclareNoShow(h) /\ Close(h, "no_show")
    BY <1>0, <1>1, <1>2, <2>1, Sources DEF DeclareNoShow, GraceOver, Close, Times
  <2>2. ASSUME NEW to \in {"completed", "cancelled_by_passenger", "cancelled_by_driver"}, Close(h, to) PROVE Times'
    BY <1>0, <1>1, <1>2, <2>2 DEF Close, Times
  <2> QED  BY <1>9, <2>1, <2>2 DEF Closing
<1> QED  BY <1>3, <1>4, <1>5, <1>6, <1>7, <1>8, <1>9, StepKinds

(* A cancellation is found late when it is received, and only then.        *)
FoundLate(h) ==
  /\ request'[h].op = "withdraw" /\ request'[h].fine = ~FreeCancellation
  /\ UNCHANGED <<now, takes>>

LEMMA OneRequest ==
  ASSUME RideInv, NEW h \in Handler, NEW r, request' = [request EXCEPT ![h] = r]
  PROVE  request'[h] = r /\ \A g \in Handler \ {h} : request'[g] = request[g]
BY DEF RideInv, TypeOK

LEMMA RequestKinds ==
  ASSUME RideInv, [Next]_vars, NEW g \in Handler
  PROVE  request'[g] = request[g] \/ request'[g].op # "withdraw" \/ FoundLate(g)
<1> DEFINE P == request'[g] = request[g] \/ request'[g].op # "withdraw" \/ FoundLate(g)
<1>1. ASSUME NEW h \in Handler, NEW r, request' = [request EXCEPT ![h] = r], r.op # "withdraw" PROVE P
  BY <1>1, OneRequest
<1>2. ASSUME NEW h \in Handler, Answered(h) PROVE P
  BY <1>1, <1>2 DEF Answered, Idle
<1>3. ASSUME NEW h \in Handler, NEW op \in {"count", "outcome"}, Continue(h, op) PROVE P
  BY <1>1, <1>3 DEF Continue
<1>4. CASE UNCHANGED vars \/ Tick \/ Take
  BY <1>4 DEF vars, Tick, Take
<1>5. ASSUME NEW h \in Handler, ReceiveFromHolder(h) \/ ReceiveCash(h) PROVE P
  <2>1. PICK r : r.op # "withdraw" /\ Receive(h, r)
    <3>1. CASE ReceiveCash(h)
      BY <3>1 DEF ReceiveCash
    <3>2. ASSUME NEW op \in DriverOps \ {"cash"}, Receive(h, [op |-> op]) PROVE \E r : r.op # "withdraw" /\ Receive(h, r)
      BY <3>2 DEF DriverOps
    <3>3. ASSUME NEW c, Receive(h, [op |-> "start", code |-> c]) PROVE \E r : r.op # "withdraw" /\ Receive(h, r)
      BY <3>3
    <3>4. ASSUME NEW c, Receive(h, [op |-> "complete", cash |-> c]) PROVE \E r : r.op # "withdraw" /\ Receive(h, r)
      BY <3>4
    <3> QED  BY <1>5, <3>1, <3>2, <3>3, <3>4 DEF ReceiveFromHolder
  <2> QED  BY <1>1, <2>1 DEF Receive
<1>6. ASSUME NEW h \in Handler, ReceiveWithdraw(h) PROVE P
  BY <1>6, OneRequest DEF ReceiveWithdraw, Receive, FoundLate, histVars
<1>7. ASSUME NEW h \in Handler,
             \/ GiveUp(h) \/ MarkEnRoute(h) \/ MarkArrived(h) \/ Complete(h) \/ DeclareNoShow(h)
             \/ CancelByPassenger(h) \/ Reopen(h) \/ CloseByDriver(h) \/ MarkCashCollected(h)
      PROVE  P
  BY <1>2, <1>7 DEF GiveUp, MarkEnRoute, MarkArrived, Complete, DeclareNoShow, CancelByPassenger, Reopen,
     CloseByDriver, MarkCashCollected, Close
<1>8. ASSUME NEW h \in Handler, StartWithCode(h) PROVE P
  BY <1>2, <1>3, <1>8 DEF StartWithCode
<1>9. ASSUME NEW h \in Handler, RecordFailedStartAttempt(h) PROVE P
  BY <1>2, <1>3, <1>9 DEF RecordFailedStartAttempt, FailedAttempt
<1>10. ASSUME NEW h \in Handler, ReopensNothing(h) PROVE P
  BY <1>1, <1>10 DEF ReopensNothing
<1> QED
  BY <1>4, <1>5, <1>6, <1>7, <1>8, <1>9, <1>10 DEF Next, Step

(* Late is late for good.                                                  *)
LEMMA LateStays == ASSUME RideInv, [Next]_vars, Overdue(now) PROVE Overdue(now)'
  BY TimePasses, RideAssumption DEF Overdue

LEMMA LateIsOverdue == ASSUME RideInv, ~FreeCancellation PROVE Overdue(now)
<1>1. now \in Nat /\ Window \in Nat /\ assignedAt \in takes /\ assignedAt \in Nat
  BY RideAssumption DEF FreeCancellation, RideInv, TypeOK, Times, HeldStatus, Moment
<1>2. ~(now <= assignedAt + Window)
  BY DEF FreeCancellation
<1> QED  BY <1>1, <1>2 DEF Overdue

LEMMA FinesKept == ASSUME RideInv, [Next]_vars PROVE Fines'
<1>0. /\ Fines /\ Attempts /\ penalty \in BOOLEAN /\ finishedAt \in Nat \cup {None} /\ Window \in Nat
      /\ takes \subseteq takes' /\ now \in Nat
  BY TimePasses, RideAssumption DEF RideInv, TypeOK, Moment
<1>1. ASSUME NEW h \in Handler, request'[h].op = "withdraw", request'[h].fine PROVE Overdue(now)'
  <2>1. CASE request'[h] = request[h]
    BY <1>0, <1>1, <2>1, LateStays DEF Fines
  <2>2. CASE FoundLate(h)
    BY <1>1, <2>2, LateStays, LateIsOverdue DEF FoundLate
  <2> QED  BY <1>1, <2>1, <2>2, RequestKinds
<1>2. penalty => status = "cancelled_by_passenger" /\ Overdue(finishedAt) /\ ~blocked
  BY <1>0 DEF Fines, FineIsOverdue, Overdue
<1>3. ASSUME UNCHANGED <<status, penalty, finishedAt, blocked>> PROVE FineIsOverdue'
  BY <1>0, <1>2, <1>3 DEF FineIsOverdue, Overdue
<1>4. ASSUME Waits PROVE FineIsOverdue'
  BY <1>3, <1>4 DEF Waits, codeVars, timeVars
<1>5. ASSUME status # "cancelled_by_passenger", penalty' = penalty PROVE FineIsOverdue'
  BY <1>2, <1>5 DEF FineIsOverdue
<1>6. ASSUME Take PROVE FineIsOverdue'
  BY <1>5, <1>6 DEF Take
<1>7. ASSUME NEW h \in Handler, MarkEnRoute(h) \/ MarkArrived(h) \/ Reopen(h) \/ MarkCashCollected(h) PROVE FineIsOverdue'
  BY <1>5, <1>7 DEF MarkEnRoute, MarkArrived, Reopen, MarkCashCollected
<1>8. ASSUME NEW h \in Handler, StartWithCode(h) \/ RecordFailedStartAttempt(h) PROVE FineIsOverdue'
  <2>1. status # "cancelled_by_passenger" \/ UNCHANGED <<status, penalty, finishedAt, blocked>>
    BY <1>8 DEF StartWithCode, RecordFailedStartAttempt, codeVars, timeVars
  <2> QED  BY <1>3, <1>5, <1>8, <2>1 DEF StartWithCode, RecordFailedStartAttempt
<1>9. ASSUME NEW h \in Handler, Closing(h) PROVE FineIsOverdue'
  <2>1. status # "cancelled_by_passenger"
    BY <1>9, Sources DEF Closing, Close
  <2>2. CASE Complete(h) \/ DeclareNoShow(h) \/ CloseByDriver(h)
    BY <1>5, <2>1, <2>2 DEF Complete, DeclareNoShow, CloseByDriver
  <2>3. CASE CancelByPassenger(h)
    <3>1. /\ status' = "cancelled_by_passenger" /\ finishedAt' = now /\ blocked' = blocked
          /\ penalty' = (penalty \/ (request[h].fine /\ ~blocked)) /\ request[h].op = "withdraw"
      BY <2>3 DEF CancelByPassenger, Close, DropCode, Fine
    <3>2. penalty' => request[h].fine /\ ~blocked
      BY <1>2, <2>1, <3>1
    <3>3. request[h].fine => Overdue(now)
      BY <1>0, <3>1 DEF Fines
    <3> QED  BY <1>0, <3>1, <3>2, <3>3 DEF FineIsOverdue, Overdue
  <2> QED  BY <1>9, <2>2, <2>3 DEF Closing
<1>10. FineIsOverdue'
  BY <1>4, <1>6, <1>7, <1>8, <1>9, StepKinds
<1> QED  BY <1>1, <1>10 DEF Fines, Overdue

LEMMA EndsKept == ASSUME RideInv, [Next]_vars PROVE Ends'
<1>0. Ends /\ None \notin Nat /\ now \in Nat
  BY TimePasses, RideAssumption DEF RideInv
<1> USE Statuses DEF Ends, timeVars
<1>1. CASE Waits
  BY <1>0, <1>1 DEF Waits
<1>2. CASE Take
  BY <1>0, <1>2 DEF Take
<1>3. ASSUME NEW h \in Handler, MarkEnRoute(h) \/ MarkArrived(h) \/ Reopen(h) \/ MarkCashCollected(h) PROVE Ends'
  BY <1>0, <1>3 DEF MarkEnRoute, MarkArrived, Reopen, MarkCashCollected
<1>4. ASSUME NEW h \in Handler, StartWithCode(h) \/ RecordFailedStartAttempt(h) PROVE Ends'
  BY <1>0, <1>4 DEF StartWithCode, RecordFailedStartAttempt
<1>5. ASSUME NEW h \in Handler, Closing(h) PROVE Ends'
  BY <1>0, <1>5, Sources DEF Closing, Close, Complete, DeclareNoShow, CancelByPassenger, CloseByDriver
<1> QED  BY <1>1, <1>2, <1>3, <1>4, <1>5, StepKinds

LEMMA RideKeeps == RideInv /\ [Next]_vars => RideInv'
  BY RideTyped, AttemptsKept, TimesKept, FinesKept, EndsKept DEF RideInv

(* The invariant of one ride: its types, and all that follows from it.     *)
THEOREM RideHolds == Spec => []RideInv
  BY RideStarts, RideKeeps, PTL DEF Spec

(* See CodeIsAccounted: no statement runs into a constraint of the row,    *)
(* and no wrong answer is lost or counted twice.                           *)
THEOREM CodesAreAccounted == Spec => []CodeIsAccounted
<1>1. RideInv => CodeIsAccounted
  BY DEF RideInv, Attempts
<1> QED  BY <1>1, RideHolds, PTL

(* See EndIsEarned: a fine or a no-show needs a passenger who was late by  *)
(* the clock of a taking.                                                  *)
THEOREM EndsAreEarned == Spec => []EndIsEarned
<1>1. RideInv => EndIsEarned
  BY DEF RideInv, Times, Fines, EndIsEarned
<1> QED  BY <1>1, RideHolds, PTL

(* See NeverReopensAttempted: the trigger never has a reason to refuse.    *)
THEOREM AttemptedStaysTaken == Spec => NeverReopensAttempted
<1>1. ASSUME RideInv, [Next]_vars, failed > 0
      PROVE  ~(\/ status' = "pending_assignment"
               \/ (status' \in CodeWindow /\ status \notin CodeWindow))
  <2>1. status \notin {"pending_assignment", "assigned"}
    BY <1>1 DEF RideInv, Attempts
  <2>2. status' = status \/ status' \in {"in_progress"} \cup Ended
    <3>1. ASSUME NEW h \in Handler, Closing(h) PROVE status' \in Ended
      BY <3>1, Statuses DEF Closing, Close
    <3>2. ASSUME NEW h \in Handler, StartWithCode(h) \/ RecordFailedStartAttempt(h) PROVE status' \in {status, "in_progress"}
      BY <3>2 DEF StartWithCode, RecordFailedStartAttempt
    <3>3. ASSUME NEW h \in Handler, MarkEnRoute(h) \/ MarkArrived(h) \/ Reopen(h) \/ MarkCashCollected(h)
          PROVE  status' = status
      BY <2>1, <3>3 DEF MarkEnRoute, MarkArrived, Reopen, MarkCashCollected
    <3>4. Take => FALSE
      BY <2>1 DEF Take
    <3> QED  BY <1>1, <3>1, <3>2, <3>3, <3>4, StepKinds DEF Waits
  <2> QED  BY <2>1, <2>2, Statuses DEF CodeWindow
<1>2. RideInv /\ [Next]_vars => [failed > 0 => ~(\/ status' = "pending_assignment"
                                                 \/ (status' \in CodeWindow /\ status \notin CodeWindow))]_vars
  BY <1>1
<1> QED  BY <1>2, RideHolds, PTL DEF Spec, NeverReopensAttempted

(* See EndIsWrittenOnce: repeated and overlapping requests never rewrite   *)
(* the end of a trip, the cash or the fine.                                *)
THEOREM EndsAreWrittenOnce == Spec => EndIsWrittenOnce
<1>1. ASSUME RideInv, [Next]_vars
      PROVE  /\ finishedAt # None => UNCHANGED <<status, finishedAt, penalty, arrivedAt>>
             /\ cashAt # None => UNCHANGED cashAt
  <2>0. Ends
    BY <1>1 DEF RideInv
  <2> USE Statuses DEF Ends
  <2>1. CASE Waits
    BY <2>1 DEF Waits, timeVars
  <2>2. CASE Take
    BY <2>0, <2>2 DEF Take
  <2>3. ASSUME NEW h \in Handler, MarkEnRoute(h) \/ MarkArrived(h) \/ Reopen(h) \/ MarkCashCollected(h)
        PROVE  /\ finishedAt # None => UNCHANGED <<status, finishedAt, penalty, arrivedAt>>
               /\ cashAt # None => UNCHANGED cashAt
    BY <2>0, <2>3 DEF MarkEnRoute, MarkArrived, Reopen, MarkCashCollected, timeVars
  <2>4. ASSUME NEW h \in Handler, StartWithCode(h) \/ RecordFailedStartAttempt(h)
        PROVE  /\ finishedAt # None => UNCHANGED <<status, finishedAt, penalty, arrivedAt>>
               /\ cashAt # None => UNCHANGED cashAt
    BY <2>0, <2>4 DEF StartWithCode, RecordFailedStartAttempt, timeVars
  <2>5. ASSUME NEW h \in Handler, Closing(h) PROVE finishedAt = None /\ (cashAt # None => UNCHANGED cashAt)
    BY <2>0, <2>5, Sources DEF Closing, Close, Complete, DeclareNoShow, CancelByPassenger, CloseByDriver
  <2> QED  BY <1>1, <2>1, <2>2, <2>3, <2>4, <2>5, StepKinds
<1>2. RideInv /\ [Next]_vars => [/\ finishedAt # None => UNCHANGED <<status, finishedAt, penalty, arrivedAt>>
                                 /\ cashAt # None => UNCHANGED cashAt]_vars
  BY <1>1
<1> QED  BY <1>2, RideHolds, PTL DEF Spec, EndIsWrittenOnce

=============================================================================
