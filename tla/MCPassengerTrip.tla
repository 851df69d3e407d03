-------------------------- MODULE MCPassengerTrip --------------------------
(***************************************************************************)
(* Small instances of PassengerTrip. One search visits, one after the      *)
(* other, the bookings of one passenger, the notices of the trips of two   *)
(* others, and the registration of phones: MCScope says what may meet.     *)
(***************************************************************************)
EXTENDS PassengerTrip, TLC

CONSTANTS c1, c2, c3, d1, d2, d3, pl1, pl2, t1, t2, p1, p2, tok1, tok2, h1, h2

MCCompanyOf == d1 :> c1 @@ d2 :> c1 @@ d3 :> c2
MCPlaceOf == c1 :> pl1 @@ c2 :> pl1 @@ c3 :> pl2

F(b, n, h) == [baseFare |-> b, nightSurchargePct |-> n, holidaySurchargePct |-> h]
MCFareTable == pl1 :> <<F(55, 20, 20), F(65, 10, 30)>> @@ pl2 :> <<F(45, 20, 20)>>

(* The evening of day 0, a Saturday.                                       *)
MCMoment == {20, 21, 23, 24}

Booked(t, p) == trip[t] # None /\ trip[t].passenger = p
Looking == \E h \in Handler : request[h].op \in {"row", "info", "driver", "answered"}
Creations == { h \in Handler : Creating(h) }
Still == now = 20 /\ fareVersion[pl1] = 1 /\ Cardinality(quotes) <= 1
Fixed == \A c \in Company : pct[c] = 10
Calm == active = Company /\ Fixed
Untaken == \A t \in Trip : trip[t] # None => trip[t].status \in {"pending_assignment", "no_driver"}

(* Revised fares, overlapping creations, and the taking of one trip, each  *)
(* with all that may meet it; all of one passenger.                        *)
Booking ==
  /\ c3 \in active
  /\ \A h \in Creations : request[h].passenger = p1
  /\ \/ /\ trip[t2] = None /\ Untaken /\ Calm /\ ~Looking
        /\ Cardinality(Creations) <= 1 /\ \A h \in Creations : request[h].requested = None
     \/ Still /\ Fixed /\ Untaken /\ ~Looking /\ \A t \in Trip : trip[t] # None => ~trip[t].purged
     \/ Still /\ trip[t2] = None /\ Creations = {} /\ (~Looking \/ Calm)

(* One trip each of two other passengers, and their notices: nothing else  *)
(* happens, a trip is created before the other is taken, and one of them   *)
(* may have a phone.                                                       *)
Facts == Len(committed) + Len(emitted[t1]) + Len(emitted[t2])
Losses == Cardinality(lost[t1]) + Cardinality(lost[t2])
Silent == Facts = 0 /\ Losses = 0
NoPhones == devices = <<>> /\ \A u \in Passenger : trimming[u] + untrimmed[u] = 0
OnePhone == devices = <<[token |-> tok1, user |-> p2]>> /\ \A u \in Passenger : trimming[u] + untrimmed[u] = 0
NoneLate == \A t \in Trip : \A i \in 1..Len(notices[t]) : ~notices[t][i].late
Usual(t, p, d) ==
  trip[t] # None => /\ trip[t].passenger = p /\ trip[t].place = pl1 /\ trip[t].requested = None
                    /\ ~trip[t].purged /\ trip[t].driver \in {None, d}
Notifying ==
  /\ Still /\ Calm /\ ~Looking /\ fareVersion[pl2] = 1
  /\ Cardinality(Creations) <= 1 /\ (Creations # {} => Silent)
  /\ \A h \in Creations : /\ request[h].requested = None /\ request[h].place = pl1
                          /\ request[h].passenger = IF trip[t1] = None THEN p2 ELSE p1
  /\ Usual(t1, p2, d1) /\ Usual(t2, p1, d2)
  /\ OnePhone \/ (NoPhones /\ trip[t2] # None)
  /\ Len(committed) <= (IF trip[t2] = None THEN 2 ELSE 1)
  /\ Losses <= 1 /\ (Losses = 1 \/ trip[t2] # None => NoneLate)
  /\ Facts <= 3 \/ (Facts = 4 /\ trip[t2] = None /\ NoneLate /\ Losses = 0 /\ Len(committed) <= 1)

(* The phones, without a trip.                                             *)
Phones ==
  /\ \A t \in Trip : trip[t] = None
  /\ \A h \in Handler : request[h] = Idle
  /\ quotes = {} /\ now = 20 /\ fareVersion[pl1] = 1 /\ Calm
  /\ \A u \in Passenger : trimming[u] <= 2 /\ untrimmed[u] <= 1

MCScope ==
  /\ trip[t2] # None => trip[t1] # None
  /\ \/ /\ Booking
        /\ \A t \in Trip : trip[t] # None => Booked(t, p1)
        /\ trip[t1] = None => Silent /\ NoPhones
     \/ Notifying
     \/ Silent /\ Phones

(* The notices of the one passenger are not followed, and no step of a     *)
(* trip reads them: his trips are told apart without them.                 *)
View == IF Booked(t1, p1) THEN <<bookingVars>> ELSE vars

Symmetry == Permutations(Handler)

MCNext ==
  \/ (Booked(t1, p1) \/ Silent) /\ Aside /\ UNCHANGED pushVars
  \/ ~Booked(t1, p1) /\ Push!PushNext /\ UNCHANGED bookingVars
  \/ \E t \in Trip : TripStep(t)

MCSpec == Init /\ [][MCNext]_vars

=============================================================================
