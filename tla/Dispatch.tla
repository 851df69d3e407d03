------------------------------ MODULE Dispatch ------------------------------
(***************************************************************************)
(* The search for a driver: the memory of AssignmentService and the way it *)
(* reacts to the events of a trip, over the tables of TripTaking. A search *)
(* (a ChainContext) offers its trip to one driver after another; a timer   *)
(* per offer, a rejection or a lost candidate moves it on.                 *)
(*                                                                         *)
(* The service is one Node process: code between two awaits runs without   *)
(* interleaving, code on either side of an await does not. A task is an    *)
(* asynchronous call of the service between two awaits, and task[w] what   *)
(* the w-th of those under way carries. The commit of a transaction and    *)
(* the synchronous code that follows it are one step, except where another *)
(* step can come between and matter (Offer and Record, Decline and         *)
(* Declined). How a driver carries out a trip he holds is left to          *)
(* TripTaking: here he accepts, rejects and gives back.                    *)
(***************************************************************************)
EXTENDS TripTaking, Naturals

CONSTANTS
  Search,          \* identities of ChainContexts
  Worker,          \* bounds the asynchronous calls under way at one time
  MaxAutoRetries,  \* params.maxAutoRetries
  MaxFailures      \* bounds the failed calls and the crashes of the process

ASSUME DispatchAssumption ==
  /\ MaxAutoRetries \in Nat \ {0}
  /\ MaxFailures \in Nat
  /\ None \notin Search

VARIABLES
  chain,       \* the map "chains": the current search of each trip
  search,      \* the ChainContexts
  timer,       \* the map "timers": offers with a timeout armed
  task,        \* asynchronous calls under way
  exhausted,   \* trips whose SEARCH_EXHAUSTED event is being handled
  withdrawn,   \* offers whose TRIP_REQUEST_CANCELLED event is being handled
  failures     \* failed calls and crashes so far

memory == <<chain, search, timer, task, exhausted, withdrawn>>
dispatchVars == <<vars, memory, failures>>

Blank == [trip |-> None, attempted |-> {}, order |-> 0, expanded |-> FALSE, offer |-> None]

Rest == [at |-> "rest", trip |-> None, search |-> None, driver |-> None, row |-> None, order |-> 0]

TaskAt == { "rest", "start", "begin", "query", "offer", "record", "expire", "declined" }

Context ==
  [ trip : Trip \cup {None}, attempted : SUBSET Driver, order : Nat, expanded : BOOLEAN,
    offer : Assignment \cup {None} ]

Task ==
  [ at : TaskAt, trip : Trip \cup {None}, search : Search \cup {None},
    driver : Driver \cup {None}, row : Assignment \cup {None}, order : Nat ]

DispatchTypeOK ==
  /\ TypeOK
  /\ chain \in [Trip -> Search \cup {None}]
  /\ search \in [Search -> Context]
  /\ timer \subseteq Assignment
  /\ task \in [Worker -> Task]
  /\ exhausted \subseteq Trip
  /\ withdrawn \subseteq Assignment
  /\ failures \in 0..MaxFailures

EmptyMemory(ch, se, ti, ta, ex, wi) ==
  /\ ch = [t \in Trip |-> None]
  /\ se = [c \in Search |-> Blank]
  /\ ti = {}
  /\ ta = [w \in Worker |-> Rest]
  /\ ex = {}
  /\ wi = {}

DispatchInit ==
  /\ Init
  /\ EmptyMemory(chain, search, timer, task, exhausted, withdrawn)
  /\ failures = 0

-----------------------------------------------------------------------------
(* Tasks.                                                                  *)

Becomes(w, r) == task' = [task EXCEPT ![w] = r]

Spawn(r) == \E w \in Worker : task[w] = Rest /\ Becomes(w, r)

TaskOf(w, at) == task[w].at = at

StartTask(t) == [Rest EXCEPT !.at = "start", !.trip = t]

(* The start of tryNext, when search c has become s: it gives up at the    *)
(* limit of offers (finishNoDriver, which forgets the trip's chain         *)
(* whichever search that is) or goes on to look for a candidate.           *)
TryNext(w, c, s) ==
  /\ search' = [search EXCEPT ![c] = s]
  /\ IF s.order >= MaxAutoRetries
     THEN /\ Becomes(w, Rest)
          /\ chain' = [chain EXCEPT ![s.trip] = None]
          /\ exhausted' = exhausted \cup {s.trip}
     ELSE /\ Becomes(w, [Rest EXCEPT !.at = "query", !.trip = s.trip, !.search = c])
          /\ UNCHANGED <<chain, exhausted>>

(* findCandidates for every company the trip may go to. Who of them is     *)
(* near enough is not modelled: Query may find any of them or nobody.      *)
Candidates(c) ==
  LET t == search[c].trip
  IN  { d \in Driver \ search[c].attempted :
          /\ RequestedCompany[t] \in {None, CompanyOf[d]}
          /\ driver[d] = "available"
          /\ \A a \in Assignment : rowDriver[a] = d =>
               /\ rowStatus[a] # "notified"
               /\ rowTrip[a] = t => rowStatus[a] \notin {"rejected", "timeout", "cancelled"} }

(* The offer the current search of trip t waits for, if there is one.      *)
CurrentOffer(t) == IF chain[t] = None THEN {} ELSE {search[chain[t]].offer} \ {None}

Idling(c) == (\A t \in Trip : chain[t] # c) /\ (\A w \in Worker : task[w].search # c)

-----------------------------------------------------------------------------
(* A search from its start to its end.                                     *)

(* The trip is created and TRIP_REQUEST_CREATED emitted.                   *)
Submit(t) ==
  /\ CreateTrip(t)
  /\ Spawn(StartTask(t))
  /\ UNCHANGED <<chain, search, timer, exhausted, withdrawn, failures>>

(* start reads the trip, waits for the parameters, then registers a new    *)
(* search.                                                                 *)
Start(w) ==
  /\ TaskOf(w, "start")
  /\ Becomes(w, IF status[task[w].trip] = "pending_assignment"
                THEN [task[w] EXCEPT !.at = "begin"] ELSE Rest)
  /\ UNCHANGED <<vars, chain, search, timer, exhausted, withdrawn, failures>>

Begin(w) ==
  LET t == task[w].trip
  IN  /\ TaskOf(w, "begin")
      /\ \E c \in Search :
           /\ Idling(c)
           /\ search' = [search EXCEPT ![c] = [Blank EXCEPT !.trip = t]]
           /\ chain' = [chain EXCEPT ![t] = c]
           /\ Becomes(w, [Rest EXCEPT !.at = "query", !.trip = t, !.search = c])
      /\ UNCHANGED <<vars, timer, exhausted, withdrawn, failures>>

(* Nobody found: once more with the wider radius, then give up.            *)
Query(w) ==
  LET c == task[w].search
      t == task[w].trip
  IN  /\ TaskOf(w, "query")
      /\ \/ /\ \E d \in Candidates(c) :
                 Becomes(w, [task[w] EXCEPT !.at = "offer", !.driver = d, !.order = search[c].order + 1])
            /\ UNCHANGED <<chain, search, exhausted>>
         \/ /\ ~search[c].expanded
            /\ TryNext(w, c, [search[c] EXCEPT !.expanded = TRUE])
         \/ /\ search[c].expanded
            /\ chain' = [chain EXCEPT ![t] = None]
            /\ exhausted' = exhausted \cup {t}
            /\ Becomes(w, Rest)
            /\ UNCHANGED search
      /\ UNCHANGED <<vars, timer, withdrawn, failures>>

(* The transaction of createOfferIfDriverFree.                             *)
Offer(w) ==
  /\ TaskOf(w, "offer")
  /\ \E a \in Assignment :
       /\ CreateOffer(task[w].trip, task[w].driver, a)
       /\ Becomes(w, [task[w] EXCEPT !.at = "record", !.row = a])
  /\ UNCHANGED <<chain, search, timer, exhausted, withdrawn, failures>>

(* Mutants: the search stops; the driver stays a candidate.                *)
LostForGood(w) ==
  /\ TaskOf(w, "offer")
  /\ \/ driver[task[w].driver] # "available"
     \/ \E b \in Assignment : rowDriver[b] = task[w].driver /\ rowStatus[b] = "notified"
  /\ Becomes(w, Rest)
  /\ UNCHANGED <<vars, chain, search, exhausted, timer, withdrawn, failures>>

LostUnrecorded(w) ==
  /\ TaskOf(w, "offer")
  /\ \/ driver[task[w].driver] # "available"
     \/ \E b \in Assignment : rowDriver[b] = task[w].driver /\ rowStatus[b] = "notified"
  /\ TryNext(w, task[w].search, search[task[w].search])
  /\ UNCHANGED <<vars, timer, withdrawn, failures>>

(* The driver is no longer free: the next candidate gets the same turn.    *)
Lost(w) ==
  LET c == task[w].search
      d == task[w].driver
  IN  /\ TaskOf(w, "offer")
      /\ \/ driver[d] # "available"
         \/ \E b \in Assignment : rowDriver[b] = d /\ rowStatus[b] = "notified"
      /\ TryNext(w, c, [search[c] EXCEPT !.attempted = @ \cup {d}])
      /\ UNCHANGED <<vars, timer, withdrawn, failures>>

Record(w) ==
  LET c == task[w].search
  IN  /\ TaskOf(w, "record")
      /\ search' = [search EXCEPT ![c] =
           [search[c] EXCEPT !.attempted = @ \cup {task[w].driver},
                             !.order = task[w].order, !.offer = task[w].row]]
      /\ timer' = timer \cup {task[w].row}
      /\ Becomes(w, Rest)
      /\ UNCHANGED <<vars, chain, exhausted, withdrawn, failures>>

(* onSearchExhausted: without effect on a trip that is no longer pending.  *)
SearchExhausted(t) ==
  /\ t \in exhausted
  /\ exhausted' = exhausted \ {t}
  /\ \/ MarkNoDriver(t)
     \/ ~(status[t] = "pending_assignment" /\ owner[t] = None) /\ UNCHANGED vars
  /\ UNCHANGED <<chain, search, timer, task, withdrawn, failures>>

-----------------------------------------------------------------------------
(* Timeouts and answers.                                                   *)

Lapse(a) ==
  /\ OfferLapses(a)
  /\ UNCHANGED <<memory, failures>>

(* The timer of offer a goes off, not before the offer's expires_at.       *)
(* handleExpiration goes on only for the offer its search is waiting for.  *)
TimerFires(a) ==
  LET c == chain[rowTrip[a]]
  IN  /\ a \in timer
      /\ rowStatus[a] # "notified"
      /\ timer' = timer \ {a}
      /\ IF c # None /\ search[c].offer = a
         THEN Spawn([Rest EXCEPT !.at = "expire", !.trip = rowTrip[a], !.search = c, !.row = a])
         ELSE UNCHANGED task
      /\ UNCHANGED <<vars, chain, search, exhausted, withdrawn, failures>>

Expire(w) ==
  LET c == task[w].search
      a == task[w].row
  IN  /\ TaskOf(w, "expire")
      /\ \/ /\ MarkTimeout(a)
            /\ TryNext(w, c, [search[c] EXCEPT !.offer = None])
         \/ /\ rowStatus[a] \notin Notified
            /\ Becomes(w, Rest)
            /\ UNCHANGED <<vars, chain, search, exhausted>>
      /\ UNCHANGED <<timer, withdrawn, failures>>

(* reject: whatever its update found, the handler goes on to Declined.     *)
Decline(h) ==
  LET a == request[h].row
  IN  /\ Reject(h)
      /\ Spawn([Rest EXCEPT !.at = "declined", !.trip = rowTrip[a], !.row = a])
      /\ UNCHANGED <<chain, search, timer, exhausted, withdrawn, failures>>

(* Mutant: the offer is forgotten and the search left as it is.            *)
DeclinedOnly(w) ==
  /\ TaskOf(w, "declined")
  /\ timer' = timer \ {task[w].row}
  /\ Becomes(w, Rest)
  /\ UNCHANGED <<vars, chain, search, exhausted, withdrawn, failures>>

Declined(w) ==
  LET c == chain[task[w].trip]
  IN  /\ TaskOf(w, "declined")
      /\ timer' = timer \ {task[w].row}
      /\ IF c = None
         THEN Becomes(w, Rest) /\ UNCHANGED <<chain, search, exhausted>>
         ELSE TryNext(w, c, [search[c] EXCEPT !.offer = None])
      /\ UNCHANGED <<vars, withdrawn, failures>>

(* accept, with finishAcceptance.                                          *)
Accept(h) ==
  LET a == request[h].row
  IN  /\ TakeTrip(h)
      /\ timer' = timer \ {a}
      /\ chain' = [chain EXCEPT ![rowTrip[a]] = None]
      /\ UNCHANGED <<search, task, exhausted, withdrawn, failures>>

(* cancelByDriver of a trip not under way yet: the search starts again.    *)
HandBack(h) ==
  LET a == request[h].row
  IN  /\ Reopen(h)
      /\ timer' = timer \ {a}
      /\ chain' = [chain EXCEPT ![rowTrip[a]] = None]
      /\ Spawn(StartTask(rowTrip[a]))
      /\ UNCHANGED <<search, exhausted, withdrawn, failures>>

(* cancel, with the synchronous part of onTripRequestCancelled, which runs *)
(* only when the trip was not cancelled before.                            *)
Withdraw(h) ==
  LET t == request[h].trip
  IN  /\ CancelByPassenger(h)
      /\ IF status[t] = "cancelled_by_passenger"
         THEN UNCHANGED <<chain, timer, withdrawn>>
         ELSE /\ chain' = [chain EXCEPT ![t] = None]
              /\ timer' = timer \ CurrentOffer(t)
              /\ withdrawn' = withdrawn \cup CurrentOffer(t)
      /\ UNCHANGED <<search, task, exhausted, failures>>

(* The transaction of cancelOffer.                                         *)
Retract(a) ==
  /\ a \in withdrawn
  /\ withdrawn' = withdrawn \ {a}
  /\ \/ CancelOffer(a)
     \/ rowStatus[a] \notin Notified /\ UNCHANGED vars
  /\ UNCHANGED <<chain, search, timer, task, exhausted, failures>>

-----------------------------------------------------------------------------
(* Drivers and passengers start requests, or get no further with them.     *)

Ask ==
  /\ \/ \E h \in Handler, a \in Assignment, op \in {"accept", "reject", "cancel"} : BeginDriverOp(h, op, a)
     \/ \E h \in Handler, t \in Trip : BeginWithdraw(h, t)
     \/ \E h \in Handler : GiveUp(h)
     \/ \E d \in Driver : StartShift(d) \/ EndShift(d)
  /\ UNCHANGED <<memory, failures>>

(* A call of the database fails: the error is logged, and the search or    *)
(* the event that made the call goes no further.                           *)
CallFails ==
  /\ failures < MaxFailures
  /\ failures' = failures + 1
  /\ \/ /\ \E w \in Worker : /\ task[w].at \in {"start", "begin", "query", "offer", "expire"}
                           /\ Becomes(w, Rest)
        /\ UNCHANGED <<exhausted, withdrawn>>
     \/ /\ \E t \in exhausted : exhausted' = exhausted \ {t}
        /\ UNCHANGED <<task, withdrawn>>
     \/ /\ \E a \in withdrawn : withdrawn' = withdrawn \ {a}
        /\ UNCHANGED <<task, exhausted>>
  /\ UNCHANGED <<vars, chain, search, timer>>

(* A crash with requests in flight is a crash after they gave up. Nothing  *)
(* of the memory is rebuilt when the process comes back.                   *)
Crash ==
  /\ failures < MaxFailures
  /\ failures' = failures + 1
  /\ \A h \in Handler : request[h] = Idle
  /\ EmptyMemory(chain', search', timer', task', exhausted', withdrawn')
  /\ UNCHANGED vars

Work(w) ==
  Start(w) \/ Begin(w) \/ Query(w) \/ Offer(w) \/ Lost(w) \/ Record(w) \/ Expire(w) \/ Declined(w)

Answer(h) == Decline(h) \/ Accept(h) \/ HandBack(h) \/ Withdraw(h)

DispatchNext ==
  \/ \E t \in Trip : Submit(t) \/ SearchExhausted(t)
  \/ \E w \in Worker : Work(w)
  \/ \E a \in Assignment : Lapse(a) \/ TimerFires(a) \/ Retract(a)
  \/ \E h \in Handler : Answer(h)
  \/ Ask
  \/ CallFails
  \/ Crash

(* Time passes, timers go off, and what the process has begun it goes on   *)
(* with. Drivers and passengers owe nothing.                               *)
Fairness ==
  /\ \A w \in Worker : WF_dispatchVars(Work(w))
  /\ \A a \in Assignment : /\ WF_dispatchVars(Lapse(a))
                             /\ WF_dispatchVars(TimerFires(a))
                             /\ WF_dispatchVars(Retract(a))
  /\ \A t \in Trip : WF_dispatchVars(SearchExhausted(t))

DispatchSafety == DispatchInit /\ [][DispatchNext]_dispatchVars

DispatchSpec == DispatchSafety /\ Fairness

(* The few synchronous lines after the commit of an offer run before a     *)
(* driver, who has yet to be notified of it, answers it, and before it     *)
(* expires. The code does not enforce this: see NeverStranded.             *)
RecordedBeforeAnswered ==
  \A w \in Worker : TaskOf(w, "record") =>
    /\ rowStatus'[task[w].row] # "lapsed"
    /\ \A h \in Handler : request'[h].row # task[w].row

PromptSafety == DispatchInit /\ [][DispatchNext /\ RecordedBeforeAnswered]_dispatchVars

PromptSpec == PromptSafety /\ Fairness

-----------------------------------------------------------------------------
(* Properties.                                                             *)

(* While a trip is looking for a driver, and nothing has failed, something *)
(* will move its search on: a call under way, the event of its exhaustion, *)
(* or the timer of the offer its search is waiting for.                    *)
NeverStranded ==
  \A t \in Trip :
    status[t] = "pending_assignment" /\ failures = 0 =>
      \/ \E w \in Worker : task[w].trip = t
      \/ t \in exhausted
      \/ chain[t] # None /\ search[chain[t]].offer \in timer

(* Without a failure, every search ends: its trip is taken, cancelled or     *)
(* marked as without a driver, whatever drivers do or leave undone.        *)
SearchEnds ==
  \A t \in Trip : status[t] = "pending_assignment" ~> status[t] # "pending_assignment"

(* When the passenger has cancelled and the search has nothing under way   *)
(* for the trip, no offer of it is live.                                   *)
CancelledHasNoOffer ==
  \A t \in Trip :
    /\ status[t] = "cancelled_by_passenger"
    /\ \A w \in Worker : task[w].trip # t
    /\ \A a \in withdrawn : rowTrip[a] # t
    => \A a \in Rows(t) : rowStatus[a] # "notified"

(* A driver marked on a trip has an accepted assignment.                   *)
BusyHasTrip ==
  \A d \in Driver : driver[d] = "on_trip" =>
    \E a \in Assignment : rowStatus[a] = "accepted" /\ rowDriver[a] = d

=============================================================================
