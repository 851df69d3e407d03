------------------------- MODULE PassengerTripProofs -------------------------
(***************************************************************************)
(* What a passenger sees of his trips, for any fares, clocks, companies    *)
(* and overlapping requests: he has one trip at a time, the money is the   *)
(* agreed one, the driver he is shown had the trip during the call, and    *)
(* the notices he is pushed come in order and say what happened.           *)
(* What carries it is that every quote was computed at some moment before  *)
(* it is used, in less time than it takes the tariff to change twice; that *)
(* a row of a trip owes what its last taking says; and that a request for  *)
(* the status has noted everyone it passed by. What carries the notices is *)
(* what the ledger in memory knows of the events handled so far, of each   *)
(* trip since its entry was lost for the last time.                        *)
(***************************************************************************)
EXTENDS PassengerTrip, FiniteSetTheorems, SequenceTheorems, WellFoundedInduction, TLAPS

(* A quote is the fare of some version at the moment it was signed.        *)
SignedAt(q, m) ==
  /\ q.place \in Place /\ q.version \in 1..Len(FareTable[q.place])
  /\ q.fare = CalculateFare(FareTable[q.place][q.version], m)
  /\ q.exp = m + Ttl

Genuine(q, by) == \E m \in Moment : m <= by /\ SignedAt(q, m)

(* A creation began with a quote of its place that had not expired, and    *)
(* takes no longer than Latency.                                           *)
TakenUp(r) ==
  /\ Genuine(r.quote, r.since)
  /\ r.quote.place = r.place
  /\ r.since <= r.quote.exp
  /\ r.since <= now /\ now <= r.since + Latency

(* Whoever drives the trip now was noted; and if contact was allowed, he   *)
(* was noted as one to be reached: who takes the trip later is.            *)
AskedFor(r) ==
  LET row == trip[r.trip]
  IN  /\ row \in TripRequest
      /\ Driven(row) \subseteq r.seen
      /\ r.contact /\ row.driver # None => <<row.driver, TRUE>> \in r.seen

ShowsHolder(r) ==
  /\ CompanyOf[r.driver] = r.company
  /\ r.contact => <<r.driver, TRUE>> \in r.seen
  /\ ~r.contact => {<<r.driver, TRUE>>, <<r.driver, FALSE>>} \cap r.seen # {}

Known == {Idle} \cup Creation \cup StatusRequest

RequestOK(r) ==
  /\ r \in Known
  /\ r.op \in {"company", "active", "insert"} => TakenUp(r)
  /\ r.op \in {"info", "driver"} => AskedFor(r)
  /\ r.op = "answered" => ShowsHolder(r)

(* The trip was booked within three hours of its quote.                    *)
BookedFrom(row, q) ==
  /\ q \in Quote
  /\ row.place = q.place /\ row.version = q.version /\ row.fare = q.fare.total
  /\ \E m \in Moment : SignedAt(q, m) /\ m <= row.at /\ row.at < m + 3 * HourLength

Owes(row, x) ==
  /\ row.commission <= row.fare
  /\ row.company = None => row.pct = None /\ row.commission = 0
  /\ row.company # None => row.pct = x /\ row.commission = Percentage(row.fare, x)
  /\ row.status = "completed" <=> row.net # None
  /\ row.status = "completed" => row.net + row.commission = row.fare

Listed == \A pl \in Place : fareVersion[pl] <= Len(FareTable[pl])

QuotesSigned == \A q \in quotes : Genuine(q, now)

RequestsOK == \A h \in Handler : RequestOK(request[h])

RowsOK == \A t \in Trip : trip[t] # None => BookedFrom(trip[t], quoted[t]) /\ Owes(trip[t], rate[t])

OneEach ==
  \A t, u \in Trip :
    (/\ trip[t] # None /\ trip[u] # None
     /\ trip[t].status \in ActiveStatus /\ trip[u].status \in ActiveStatus
     /\ trip[t].passenger = trip[u].passenger) => t = u

BookingInv == BookingTypeOK /\ Listed /\ QuotesSigned /\ RequestsOK /\ RowsOK /\ OneEach

-----------------------------------------------------------------------------
(* Prices and the clock.                                                   *)

LEMMA Quotient ==
  ASSUME NEW a \in Nat, NEW b \in Nat \ {0}
  PROVE  /\ a \div b \in Nat
         /\ b * (a \div b) <= a
         /\ a < b * (a \div b) + b
OBVIOUS

LEMMA ProductGrows ==
  ASSUME NEW a \in Nat, NEW m \in Nat, NEW n \in Nat, m <= n
  PROVE  a * m <= a * n
OBVIOUS

LEMMA ProductReflects ==
  ASSUME NEW a \in Nat, NEW m \in Nat, NEW n \in Nat, a * m < a * n
  PROVE  m < n
OBVIOUS

(* The hour and the date, as what remains of the hours since day 0.        *)
LEMMA HourAndDate ==
  ASSUME NEW t \in Nat
  PROVE  LET h == t \div HourLength
             d == BogotaDate(t)
         IN  /\ h \in Nat /\ d \in Nat
             /\ 24 * d <= h /\ h < 24 * d + 24
             /\ HourInBogota(t) = h - 24 * d
<1> DEFINE h == t \div HourLength
           d == t \div (24 * HourLength)
<1>0. HourLength \in Nat \ {0}
  BY FareAssumption
<1>1. h \in Nat /\ HourLength * h <= t /\ t < HourLength * h + HourLength
  BY <1>0, Quotient
<1>2. d \in Nat /\ (24 * HourLength) * d <= t /\ t < (24 * HourLength) * d + 24 * HourLength
  <2> DEFINE day == 24 * HourLength
  <2>1. day \in Nat \ {0}
    BY <1>0
  <2> HIDE DEF day
  <2>2. t \div day \in Nat /\ day * (t \div day) <= t /\ t < day * (t \div day) + day
    BY <2>1, Quotient
  <2> QED  BY <2>2 DEF day
<1>3. HourLength * (24 * d) <= t /\ t < HourLength * (24 * d + 24)
  BY <1>0, <1>2
<1> HIDE DEF h, d
<1>4. HourLength * (24 * d) < HourLength * (h + 1) /\ HourLength * h < HourLength * (24 * d + 24)
  BY <1>0, <1>1, <1>2, <1>3
<1>5. 24 * d < h + 1 /\ h < 24 * d + 24
  BY <1>0, <1>1, <1>2, <1>4, ProductReflects
<1>6. h % 24 = h - 24 * d
  BY <1>1, <1>2, <1>5
<1> QED  BY <1>1, <1>2, <1>5, <1>6 DEF h, d, BogotaDate, HourInBogota

(* Midnight is in the night: who sees the date change within three hours   *)
(* sees no change of the night.                                            *)
LEMMA MidnightIsNight ==
  ASSUME NEW s \in Nat, NEW t \in Nat, s <= t, t < s + 3 * HourLength, BogotaDate(s) # BogotaDate(t)
  PROVE  IsNightTime(s) /\ IsNightTime(t)
<1> DEFINE g == s \div HourLength
           h == t \div HourLength
           c == BogotaDate(s)
           d == BogotaDate(t)
<1>0. HourLength \in Nat \ {0}
  BY FareAssumption
<1>1. /\ g \in Nat /\ HourLength * g <= s /\ s < HourLength * g + HourLength
      /\ h \in Nat /\ HourLength * h <= t /\ t < HourLength * h + HourLength
  BY <1>0, Quotient
<1>2. /\ c \in Nat /\ 24 * c <= g /\ g < 24 * c + 24 /\ HourInBogota(s) = g - 24 * c
      /\ d \in Nat /\ 24 * d <= h /\ h < 24 * d + 24 /\ HourInBogota(t) = h - 24 * d
  BY HourAndDate
<1>3. c # d
  OBVIOUS
<1> HIDE DEF g, h, c, d
<1>4. HourLength * g < HourLength * (h + 1) /\ HourLength * h < HourLength * (g + 4)
  BY <1>0, <1>1
<1>5. g <= h /\ h <= g + 3
  BY <1>0, <1>1, <1>4, ProductReflects
<1>6. d = c + 1 /\ g - 24 * c >= 21 /\ h - 24 * d < 5
  BY <1>1, <1>2, <1>3, <1>5
<1> QED  BY <1>2, <1>6 DEF IsNightTime, NightStart, NightEnd

LEMMA ShareIsAmount ==
  ASSUME NEW base \in Nat, NEW p \in Nat
  PROVE  Percentage(base, p) \in Nat
<1>1. base * p + 50 \in Nat
  OBVIOUS
<1> QED  BY <1>1, Quotient DEF Percentage

(* No commission is more than the price.                                   *)
LEMMA ShareIsPart ==
  ASSUME NEW base \in Nat, NEW p \in 0..50
  PROVE  Percentage(base, p) <= base
<1>1. base * p <= base * 50 /\ base * p \in Nat
  BY ProductGrows
<1>2. CASE base = 0
  BY <1>2 DEF Percentage
<1>3. CASE base # 0
  <2>1. base * p + 50 <= 100 * base
    BY <1>1, <1>3
  <2> QED  BY <1>1, <2>1 DEF Percentage
<1> QED  BY <1>2, <1>3

LEMMA FareIsSum ==
  ASSUME NEW f \in FareParams, NEW t \in Nat
  PROVE  LET fare == CalculateFare(f, t)
             night == IF IsNightTime(t) THEN Percentage(f.baseFare, f.nightSurchargePct) ELSE 0
             holiday == IF IsHoliday(t) THEN Percentage(f.baseFare, f.holidaySurchargePct) ELSE 0
         IN  /\ fare \in FareBreakdown
             /\ fare = [base |-> f.baseFare, night |-> night, holiday |-> holiday,
                        total |-> f.baseFare + night + holiday]
             /\ f.baseFare \in Nat /\ night \in Nat /\ holiday \in Nat
<1>1. f.baseFare \in Nat /\ f.nightSurchargePct \in Nat /\ f.holidaySurchargePct \in Nat
  BY DEF FareParams, Amount
<1> DEFINE night == IF IsNightTime(t) THEN Percentage(f.baseFare, f.nightSurchargePct) ELSE 0
           holiday == IF IsHoliday(t) THEN Percentage(f.baseFare, f.holidaySurchargePct) ELSE 0
<1>2. night \in Nat /\ holiday \in Nat
  BY <1>1, ShareIsAmount
<1>3. CalculateFare(f, t) = [base |-> f.baseFare, night |-> night, holiday |-> holiday,
                             total |-> f.baseFare + night + holiday]
  BY DEF CalculateFare
<1> HIDE DEF night, holiday
<1>4. CalculateFare(f, t) \in FareBreakdown
  BY <1>1, <1>2, <1>3 DEF FareBreakdown, Amount
<1> QED  BY <1>1, <1>2, <1>3, <1>4 DEF night, holiday

(* Within three hours a total has one way to be made up.                   *)
LEMMA TotalTellsParts ==
  ASSUME NEW f \in FareParams, NEW s \in Nat, NEW t \in Nat, s <= t, t < s + 3 * HourLength,
         CalculateFare(f, s).total = CalculateFare(f, t).total
  PROVE  CalculateFare(f, s) = CalculateFare(f, t)
<1> DEFINE Night(m) == IF IsNightTime(m) THEN Percentage(f.baseFare, f.nightSurchargePct) ELSE 0
           Holiday(m) == IF IsHoliday(m) THEN Percentage(f.baseFare, f.holidaySurchargePct) ELSE 0
           Parts(m) == [base |-> f.baseFare, night |-> Night(m), holiday |-> Holiday(m),
                        total |-> f.baseFare + Night(m) + Holiday(m)]
<1>1. /\ CalculateFare(f, s) = Parts(s) /\ Night(s) \in Nat /\ Holiday(s) \in Nat
      /\ CalculateFare(f, t) = Parts(t) /\ Night(t) \in Nat /\ Holiday(t) \in Nat
      /\ f.baseFare \in Nat
  BY FareIsSum
<1>2. Night(s) = Night(t) \/ Holiday(s) = Holiday(t)
  <2>1. CASE BogotaDate(s) = BogotaDate(t)
    BY <2>1 DEF IsHoliday, IsSundayInBogota, IsFestivo
  <2>2. CASE BogotaDate(s) # BogotaDate(t)
    BY <2>2, MidnightIsNight
  <2> QED  BY <2>1, <2>2
<1> HIDE DEF Night, Holiday
<1>3. f.baseFare + Night(s) + Holiday(s) = f.baseFare + Night(t) + Holiday(t)
  BY <1>1
<1> DEFINE n == Night(s)
           m == Night(t)
           i == Holiday(s)
           j == Holiday(t)
           b == f.baseFare
<1>4. n \in Nat /\ m \in Nat /\ i \in Nat /\ j \in Nat /\ b \in Nat /\ b + n + i = b + m + j /\ (n = m \/ i = j)
  BY <1>1, <1>2, <1>3
<1> HIDE DEF n, m, i, j, b
<1>5. n = m /\ i = j
  BY <1>4
<1> QED  BY <1>1, <1>5 DEF n, m, i, j

-----------------------------------------------------------------------------
(* Rows and requests by their shapes.                                      *)

LEMMA Sources ==
  /\ SourceStatusesFor("driver_en_route") = {"assigned"}
  /\ SourceStatusesFor("in_progress") = {"driver_en_route"}
  /\ SourceStatusesFor("completed") = {"in_progress"}
  /\ SourceStatusesFor("no_show") = {"driver_en_route"}
  /\ SourceStatusesFor("cancelled_by_passenger") = {"pending_assignment", "assigned", "driver_en_route"}
  /\ SourceStatusesFor("cancelled_by_driver") = {"assigned", "driver_en_route"}
BY DEF SourceStatusesFor, TripTransitions, TripStatus

LEMMA RequestShapes ==
  ASSUME NEW r \in Known
  PROVE  /\ r.op \in {"company", "active", "insert"} => r \in Creation
         /\ r.op = "info" => r \in [op : {"info"}, trip : Trip, contact : BOOLEAN, seen : SUBSET (Driver \X BOOLEAN)]
         /\ r.op = "driver" => r \in [op : {"driver"}, trip : Trip, contact : BOOLEAN,
                                      seen : SUBSET (Driver \X BOOLEAN), company : Company]
         /\ r.op = "answered" => r \in [op : {"answered"}, trip : Trip, contact : BOOLEAN,
                                        seen : SUBSET (Driver \X BOOLEAN), company : Company, driver : Driver]
BY DEF Known, Idle, Creation, StatusRequest

LEMMA RowParts ==
  ASSUME NEW row \in TripRequest
  PROVE  /\ row.passenger \in Passenger /\ row.place \in Place /\ row.requested \in Company \cup {None}
         /\ row.fare \in Nat /\ row.version \in Nat /\ row.at \in Nat /\ row.status \in TripStatus
         /\ row.arrived \in BOOLEAN /\ row.purged \in BOOLEAN
         /\ row.driver \in Driver \cup {None} /\ row.company \in Company \cup {None}
         /\ row.pct \in CommissionPct \cup {None} /\ row.commission \in Nat /\ row.net \in Nat \cup {None}
BY DEF TripRequest, Amount

LEMMA IdleIsOK == RequestOK(Idle)
BY DEF RequestOK, Idle, Known

LEMMA DrivenTyped == ASSUME NEW row \in TripRequest PROVE Driven(row) \subseteq Driver \X BOOLEAN
<1>1. row.driver \in Driver \cup {None}
  BY RowParts
<1> DEFINE contact == row.status \in StatusWithContact
<1>2. contact \in BOOLEAN
  OBVIOUS
<1>3. Driven(row) = IF row.driver = None THEN {} ELSE {<<row.driver, contact>>}
  BY DEF Driven
<1> HIDE DEF contact
<1>4. CASE row.driver = None
  BY <1>3, <1>4
<1>5. CASE row.driver # None
  BY <1>1, <1>2, <1>3, <1>5
<1> QED  BY <1>4, <1>5

(* The fare of every version has its three numbers.                        *)
LEMMA FareListed ==
  ASSUME NEW pl \in Place, NEW v \in 1..Len(FareTable[pl])
  PROVE  FareTable[pl][v] \in FareParams
<1>1. FareTable[pl] \in Seq(FareParams)
  BY BookingAssumption
<1> QED  BY <1>1

LEMMA BookingStarts == BookingInit => BookingInv
<1> SUFFICES ASSUME BookingInit PROVE BookingInv
  OBVIOUS
<1> USE DEF BookingInit
<1>0. \A pl \in Place : FareTable[pl] \in Seq(FareParams)
  BY BookingAssumption
<1>1. fareVersion \in [Place -> Nat] /\ Listed
  BY <1>0 DEF Listed
<1>2. pct \in [Company -> CommissionPct]
  OBVIOUS
<1>3. request \in [Handler -> Known] /\ RequestsOK
  BY IdleIsOK DEF Known, RequestsOK
<1>4. BookingTypeOK
  BY <1>1, <1>2, <1>3 DEF BookingTypeOK, Known
<1>5. QuotesSigned /\ RowsOK /\ OneEach
  BY DEF QuotesSigned, RowsOK, OneEach
<1> QED  BY <1>1, <1>3, <1>4, <1>5 DEF BookingInv

-----------------------------------------------------------------------------
(* A step is one of the world around, of one request, a booking, or a      *)
(* change of one row.                                                      *)

(* What another row of the trip may be.                                    *)
Follows(row, old, x) ==
  /\ row \in TripRequest
  /\ row.passenger = old.passenger /\ row.place = old.place /\ row.fare = old.fare
  /\ row.version = old.version /\ row.at = old.at
  /\ row.status \in ActiveStatus => old.status \in ActiveStatus
  /\ row.driver \in {old.driver, None} \/ row.status = "assigned"
  /\ Owes(row, x)

Proceeds(h, r) ==
  /\ request' = [request EXCEPT ![h] = r] /\ RequestOK(r)
  /\ UNCHANGED <<configVars, quotes, tripVars>>

Changes(t, row, x) ==
  /\ trip[t] \in TripRequest /\ trip[t] # None
  /\ Becomes(t, row) /\ Follows(row, trip[t], x)
  /\ x \in CommissionPct \cup {None} /\ rate' = [rate EXCEPT ![t] = x]
  /\ UNCHANGED <<configVars, quotes, quoted>>

LEMMA RowKnown ==
  ASSUME BookingInv, NEW t \in Trip, trip[t] # None
  PROVE  trip[t] \in TripRequest /\ Owes(trip[t], rate[t]) /\ rate[t] \in CommissionPct \cup {None}
BY DEF BookingInv, BookingTypeOK, RowsOK

(* A row whose money and taker stay follows the one before.                *)
LEMMA SameRate ==
  ASSUME BookingInv, NEW t \in Trip, trip[t] # None, NEW row, Follows(row, trip[t], rate[t]), Becomes(t, row),
         UNCHANGED <<configVars, quotes, quoted, rate>>
  PROVE  Changes(t, row, rate[t])
<1>1. rate \in [Trip -> CommissionPct \cup {None}]
  BY DEF BookingInv, BookingTypeOK
<1>2. rate' = [rate EXCEPT ![t] = rate[t]]
  BY <1>1
<1> QED  BY <1>2, RowKnown DEF Changes

LEMMA TakeChanges ==
  ASSUME BookingInv, NEW t \in Trip, NEW d \in Driver, Take(t, d)
  PROVE  \E row, x : Changes(t, row, x)
<1> DEFINE old == trip[t]
           c == CompanyOf[d]
           com == Percentage(old.fare, pct[c])
           row == [old EXCEPT !.status = "assigned", !.driver = d, !.company = c,
                              !.pct = pct[c], !.commission = com]
<1>1. /\ old # None /\ old.status = "pending_assignment" /\ Becomes(t, row)
      /\ rate' = [rate EXCEPT ![t] = pct[c]] /\ UNCHANGED <<configVars, quotes, quoted>>
  BY DEF Take, Is
<1>2. old \in TripRequest /\ Owes(old, rate[t])
  BY <1>1, RowKnown
<1>3. c \in Company /\ pct[c] \in CommissionPct /\ pct[c] \in 0..50 /\ None \notin Company
  BY BookingAssumption DEF BookingInv, BookingTypeOK
<1>4. old.fare \in Nat /\ old.net \in Nat \cup {None}
  BY <1>2, RowParts
<1>5. com \in Nat /\ com <= old.fare
  <2> DEFINE f == old.fare
             p == pct[c]
  <2>1. f \in Nat /\ p \in 0..50 /\ p \in Nat
    BY <1>3, <1>4
  <2> HIDE DEF f, p
  <2>2. Percentage(f, p) \in Nat /\ Percentage(f, p) <= f
    BY <2>1, ShareIsAmount, ShareIsPart
  <2> QED  BY <2>2 DEF f, p
<1> HIDE DEF com
<1>6. row \in TripRequest
  BY <1>2, <1>3, <1>5 DEF TripRequest, Amount, TripStatus
<1>7. /\ row.company = c /\ row.pct = pct[c] /\ row.commission = com /\ row.status = "assigned"
      /\ row.passenger = old.passenger /\ row.place = old.place /\ row.fare = old.fare
      /\ row.version = old.version /\ row.at = old.at /\ row.net = old.net
  BY <1>2 DEF TripRequest
<1>8. old.net = None
  BY <1>1, <1>2 DEF Owes
<1>9. Owes(row, pct[c])
  BY <1>3, <1>5, <1>7, <1>8 DEF Owes, com
<1>10. Follows(row, old, pct[c])
  BY <1>1, <1>6, <1>7, <1>9 DEF Follows, ActiveStatus
<1>11. Changes(t, row, pct[c])
  BY <1>1, <1>2, <1>3, <1>10 DEF Changes
<1> QED  BY <1>11

LEMMA GiveBackChanges ==
  ASSUME BookingInv, NEW t \in Trip, GiveBack(t)
  PROVE  \E row, x : Changes(t, row, x)
<1> DEFINE old == trip[t]
           row == Reopened(old)
<1>1. /\ old # None /\ old.status = "assigned" /\ Becomes(t, row) /\ UNCHANGED <<configVars, quotes, quoted, rate>>
  BY DEF GiveBack, Is
<1>2. old \in TripRequest /\ Owes(old, rate[t])
  BY <1>1, RowKnown
<1>3. row \in TripRequest
  BY <1>2 DEF Reopened, TripRequest, Amount, TripStatus
<1>4. /\ row.company = None /\ row.pct = None /\ row.commission = 0 /\ row.status = "pending_assignment" /\ row.driver = None
      /\ row.passenger = old.passenger /\ row.place = old.place /\ row.fare = old.fare
      /\ row.version = old.version /\ row.at = old.at /\ row.net = old.net
  BY <1>2 DEF Reopened, TripRequest
<1>5. old.net = None /\ old.fare \in Nat
  BY <1>1, <1>2, RowParts DEF Owes
<1>6. Owes(row, rate[t])
  BY <1>4, <1>5 DEF Owes
<1>7. Follows(row, old, rate[t])
  BY <1>1, <1>3, <1>4, <1>6 DEF Follows, ActiveStatus, HeldStatus
<1> HIDE DEF row, old
<1> QED  BY <1>1, <1>7, SameRate DEF old

(* Rows with the same money.                                               *)
SameMoney(row, old) ==
  /\ row \in TripRequest
  /\ row.company = old.company /\ row.pct = old.pct /\ row.commission = old.commission /\ row.net = old.net
  /\ row.passenger = old.passenger /\ row.place = old.place /\ row.fare = old.fare
  /\ row.version = old.version /\ row.at = old.at
  /\ row.driver \in {old.driver, None}

(* A change of the status alone does not complete the trip.                *)
LEMMA StatusChanges ==
  ASSUME BookingInv, NEW t \in Trip, trip[t] # None, NEW row, SameMoney(row, trip[t]), Becomes(t, row),
         row.status = "completed" <=> trip[t].status = "completed",
         row.status \in ActiveStatus => trip[t].status \in ActiveStatus,
         UNCHANGED <<configVars, quotes, quoted, rate>>
  PROVE  \E r, x : Changes(t, r, x)
<1>1. Owes(row, rate[t])
  BY RowKnown DEF Owes, SameMoney
<1>2. Follows(row, trip[t], rate[t])
  BY <1>1 DEF Follows, SameMoney
<1> QED  BY <1>2, SameRate

LEMMA ProgressChanges ==
  ASSUME BookingInv, NEW t \in Trip, NEW to \in TripStatus, Progress(t, to)
  PROVE  \E row, x : Changes(t, row, x)
<1> DEFINE old == trip[t]
           row == [old EXCEPT !.status = to]
<1>1. /\ old # None /\ Becomes(t, row) /\ UNCHANGED <<configVars, quotes, quoted, rate>>
      /\ to \in {"driver_en_route", "in_progress"} /\ old.status \in {"assigned", "driver_en_route"}
  BY Sources DEF Progress
<1>2. old \in TripRequest
  BY <1>1, RowKnown
<1>3. SameMoney(row, old) /\ row.status = to
  BY <1>2 DEF SameMoney, TripRequest
<1>4. row.status # "completed" /\ old.status # "completed" /\ old.status \in ActiveStatus
  BY <1>1, <1>3 DEF ActiveStatus, HeldStatus
<1> HIDE DEF row
<1> QED  BY <1>1, <1>3, <1>4, StatusChanges

LEMMA ArrivalChanges ==
  ASSUME BookingInv, NEW t \in Trip, MarkArrived(t)
  PROVE  \E row, x : Changes(t, row, x)
<1> DEFINE old == trip[t]
           row == [old EXCEPT !.arrived = TRUE]
<1>1. old # None /\ Becomes(t, row) /\ UNCHANGED <<configVars, quotes, quoted, rate>>
  BY DEF MarkArrived, Is
<1>2. old \in TripRequest
  BY <1>1, RowKnown
<1>3. SameMoney(row, old) /\ row.status = old.status
  BY <1>2 DEF SameMoney, TripRequest
<1> HIDE DEF row
<1> QED  BY <1>1, <1>3, StatusChanges

LEMMA PurgeChanges ==
  ASSUME BookingInv, NEW t \in Trip, PurgeCoordinates(t)
  PROVE  \E row, x : Changes(t, row, x)
<1> DEFINE old == trip[t]
           row == [old EXCEPT !.purged = TRUE]
<1>1. old # None /\ Becomes(t, row) /\ UNCHANGED <<configVars, quotes, quoted, rate>>
  BY DEF PurgeCoordinates
<1>2. old \in TripRequest
  BY <1>1, RowKnown
<1>3. SameMoney(row, old) /\ row.status = old.status
  BY <1>2 DEF SameMoney, TripRequest
<1> HIDE DEF row
<1> QED  BY <1>1, <1>3, StatusChanges

LEMMA NoDriverChanges ==
  ASSUME BookingInv, NEW t \in Trip, MarkNoDriver(t)
  PROVE  \E row, x : Changes(t, row, x)
<1> DEFINE old == trip[t]
           row == [old EXCEPT !.status = "no_driver"]
<1>1. /\ old # None /\ Becomes(t, row) /\ UNCHANGED <<configVars, quotes, quoted, rate>>
      /\ old.status = "pending_assignment"
  BY DEF MarkNoDriver, Is
<1>2. old \in TripRequest
  BY <1>1, RowKnown
<1>3. SameMoney(row, old) /\ row.status = "no_driver"
  BY <1>2 DEF SameMoney, TripRequest, TripStatus
<1>4. row.status # "completed" /\ old.status # "completed" /\ old.status \in ActiveStatus
  BY <1>1, <1>3 DEF ActiveStatus, HeldStatus
<1> HIDE DEF row
<1> QED  BY <1>1, <1>3, <1>4, StatusChanges

LEMMA CompletionChanges ==
  ASSUME BookingInv, NEW t \in Trip, Close(t, "completed")
  PROVE  \E row, x : Changes(t, row, x)
<1> DEFINE old == trip[t]
           net == old.fare - old.commission
           row == ClosedRow(old, "completed")
<1>1. /\ old # None /\ Becomes(t, row) /\ UNCHANGED <<configVars, quotes, quoted, rate>>
      /\ old.status = "in_progress"
  BY Sources DEF Close
<1>2. old \in TripRequest /\ Owes(old, rate[t])
  BY <1>1, RowKnown
<1>3. old.fare \in Nat /\ old.commission \in Nat /\ old.commission <= old.fare
  BY <1>2, RowParts DEF Owes
<1>4. net \in Nat /\ net + old.commission = old.fare /\ None \notin Nat
  BY <1>3, BookingAssumption
<1>5. row = [old EXCEPT !.status = "completed", !.net = net, !.driver = old.driver]
  BY DEF ClosedRow, AssignmentStatusByTarget
<1> HIDE DEF net
<1>6. row \in TripRequest
  BY <1>2, <1>4, <1>5 DEF TripRequest, Amount, TripStatus
<1>7. /\ row.company = old.company /\ row.pct = old.pct /\ row.commission = old.commission
      /\ row.status = "completed" /\ row.driver = old.driver /\ row.net = net
      /\ row.passenger = old.passenger /\ row.place = old.place /\ row.fare = old.fare
      /\ row.version = old.version /\ row.at = old.at
  BY <1>2, <1>5 DEF TripRequest
<1> HIDE DEF row
<1>8. Owes(row, rate[t])
  BY <1>2, <1>4, <1>7 DEF Owes
<1>9. Follows(row, old, rate[t])
  BY <1>6, <1>7, <1>8 DEF Follows, ActiveStatus, HeldStatus
<1> QED  BY <1>1, <1>9, SameRate

LEMMA CloseChanges ==
  ASSUME BookingInv, NEW t \in Trip, NEW to \in TripStatus, Close(t, to)
  PROVE  \E row, x : Changes(t, row, x)
<1>1. CASE to = "completed"
  BY <1>1, CompletionChanges
<1>2. CASE to # "completed"
  <2> DEFINE old == trip[t]
             row == ClosedRow(old, to)
  <2>1. /\ old # None /\ Becomes(t, row) /\ UNCHANGED <<configVars, quotes, quoted, rate>>
        /\ to \in {"no_show", "cancelled_by_passenger", "cancelled_by_driver"}
        /\ old.status \in {"pending_assignment", "assigned", "driver_en_route"}
    BY <1>2, Sources DEF Close
  <2>2. old \in TripRequest
    BY <2>1, RowKnown
  <2>3. \E d \in {old.driver, None} : row = [old EXCEPT !.status = to, !.net = old.net, !.driver = d]
    BY <1>2 DEF ClosedRow
  <2>4. PICK d \in {old.driver, None} : row = [old EXCEPT !.status = to, !.net = old.net, !.driver = d]
    BY <2>3
  <2>5. SameMoney(row, old) /\ row.status = to
    BY <2>2, <2>4 DEF SameMoney, TripRequest
  <2>6. row.status # "completed" /\ old.status # "completed" /\ old.status \in ActiveStatus
    BY <2>1, <2>5 DEF ActiveStatus, HeldStatus
  <2> HIDE DEF row
  <2> QED  BY <2>1, <2>5, <2>6, StatusChanges
<1> QED  BY <1>1, <1>2

LEMMA RequestKnown ==
  ASSUME BookingInv, NEW h \in Handler
  PROVE  RequestOK(request[h]) /\ request[h] \in Known
BY DEF BookingInv, RequestsOK, RequestOK

LEMMA IdleProceeds ==
  ASSUME NEW h \in Handler, Become(h, Idle), UNCHANGED <<configVars, quotes, tripVars>>
  PROVE  \E r : Proceeds(h, r)
BY IdleIsOK DEF Proceeds, Become

(* A creation that goes on keeps what it began with.                       *)
LEMMA CreationGoesOn ==
  ASSUME BookingInv, NEW h \in Handler, request[h].op \in {"company", "active"}, NEW op \in {"active", "insert"}
  PROVE  RequestOK([request[h] EXCEPT !.op = op])
<1> DEFINE old == request[h]
           r == [old EXCEPT !.op = op]
<1>1. old \in Creation /\ TakenUp(old)
  BY RequestKnown, RequestShapes DEF RequestOK
<1>2. r \in Creation /\ r.op = op /\ r.quote = old.quote /\ r.place = old.place /\ r.since = old.since
  BY <1>1 DEF Creation
<1>3. TakenUp(r)
  BY <1>1, <1>2 DEF TakenUp
<1> HIDE DEF r
<1>4. RequestOK(r)
  BY <1>2, <1>3 DEF RequestOK, Known
<1> QED  BY <1>4 DEF r

LEMMA BeginProceeds ==
  ASSUME BookingInv, NEW h \in Handler, NEW p \in Passenger, NEW pl \in Place,
         NEW requested \in Company \cup {None}, NEW q \in quotes, BeginCreate(h, p, pl, requested, q)
  PROVE  \E r : Proceeds(h, r)
<1> DEFINE op == IF requested = None THEN "active" ELSE "company"
           r == [op |-> op, passenger |-> p, place |-> pl, requested |-> requested,
                 quote |-> q, since |-> now]
<1>1. /\ Become(h, r) /\ q.exp >= now /\ q.place = pl /\ UNCHANGED <<configVars, quotes, tripVars>>
  BY DEF BeginCreate, Verified, TokenMatches
<1>2. q \in Quote /\ Genuine(q, now) /\ now \in Moment
  BY DEF BookingInv, BookingTypeOK, QuotesSigned
<1>3. now \in Nat /\ Latency \in Nat /\ q.exp \in Nat
  BY <1>2, BookingAssumption DEF Quote
<1>4. r \in Creation
  BY <1>2, <1>3 DEF Creation
<1>5. r.quote = q /\ r.place = pl /\ r.since = now /\ r.op \in {"active", "company"}
  OBVIOUS
<1> HIDE DEF r
<1>6. TakenUp(r)
  BY <1>1, <1>2, <1>3, <1>5 DEF TakenUp
<1>7. RequestOK(r)
  BY <1>4, <1>5, <1>6 DEF RequestOK, Known
<1>8. Proceeds(h, r)
  BY <1>1, <1>7 DEF Proceeds, Become
<1> QED  BY <1>8

LEMMA CheckProceeds ==
  ASSUME BookingInv, NEW h \in Handler, EnsureRequestedCompany(h) \/ FindActiveTripRequest(h)
  PROVE  \E r : Proceeds(h, r)
<1>1. PICK op \in {"active", "insert"} :
        /\ request[h].op \in {"company", "active"}
        /\ Become(h, Idle) \/ Become(h, [request[h] EXCEPT !.op = op])
        /\ UNCHANGED <<configVars, quotes, tripVars>>
  <2>1. CASE EnsureRequestedCompany(h)
    BY <2>1 DEF EnsureRequestedCompany
  <2>2. CASE FindActiveTripRequest(h)
    BY <2>2 DEF FindActiveTripRequest
  <2> QED  BY <2>1, <2>2
<1>2. CASE Become(h, Idle)
  BY <1>1, <1>2, IdleProceeds
<1>3. CASE Become(h, [request[h] EXCEPT !.op = op])
  BY <1>1, <1>3, CreationGoesOn DEF Proceeds, Become
<1> QED  BY <1>1, <1>2, <1>3

LEMMA RowProceeds ==
  ASSUME BookingInv, NEW h \in Handler, NEW p \in Passenger, GetActive(h, p)
  PROVE  \E r : Proceeds(h, r)
<1>1. PICK t \in Trip : Become(h, [op |-> "row", trip |-> t]) /\ UNCHANGED <<configVars, quotes, tripVars>>
  BY DEF GetActive, ActiveTrips
<1> DEFINE r == [op |-> "row", trip |-> t]
<1>2. RequestOK(r)
  BY DEF RequestOK, Known, StatusRequest
<1> HIDE DEF r
<1>3. Proceeds(h, r)
  BY <1>1, <1>2 DEF Proceeds, Become, r
<1> QED  BY <1>3

(* The first read notes the driver, and whether he is to be reached.       *)
LEMMA LookProceeds ==
  ASSUME BookingInv, NEW h \in Handler, NEW t \in Trip, GetTripRequest(h, t)
  PROVE  \E r : Proceeds(h, r)
<1> DEFINE row == trip[t]
           contact == row.status \in StatusWithContact
           seen == Driven(row)
           r == [op |-> "info", trip |-> t, contact |-> contact, seen |-> seen]
<1>1. row # None /\ (Become(h, r) \/ Become(h, Idle)) /\ UNCHANGED <<configVars, quotes, tripVars>>
  BY DEF GetTripRequest
<1>2. row \in TripRequest /\ contact \in BOOLEAN
  BY <1>1, RowKnown
<1>3. seen \in SUBSET (Driver \X BOOLEAN)
  BY <1>2, DrivenTyped
<1>4. contact /\ row.driver # None => <<row.driver, TRUE>> \in seen
  BY DEF Driven
<1> HIDE DEF contact, seen
<1>5. r \in Known
  BY <1>2, <1>3 DEF Known, StatusRequest
<1>6. r.op = "info" /\ r.trip = t /\ r.contact = contact /\ r.seen = seen
  OBVIOUS
<1> HIDE DEF r
<1>7. AskedFor(r)
  BY <1>2, <1>4, <1>6 DEF AskedFor, seen
<1>8. RequestOK(r)
  BY <1>5, <1>6, <1>7 DEF RequestOK
<1> QED  BY <1>1, <1>8, IdleProceeds DEF Proceeds, Become

LEMMA InfoProceeds ==
  ASSUME BookingInv, NEW h \in Handler, GetTripRequestInfo(h)
  PROVE  \E r : Proceeds(h, r)
<1> DEFINE old == request[h]
           c == trip[old.trip].company
           r == [op |-> "driver", trip |-> old.trip, contact |-> old.contact, seen |-> old.seen,
                 company |-> c]
<1>1. /\ old.op = "info" /\ UNCHANGED <<configVars, quotes, tripVars>>
      /\ Become(h, Idle) \/ (c # None /\ Become(h, r))
  BY DEF GetTripRequestInfo
<1>2. AskedFor(old) /\ old \in Known
  BY <1>1, RequestKnown DEF RequestOK
<1>3. old.trip \in Trip /\ old.contact \in BOOLEAN /\ old.seen \in SUBSET (Driver \X BOOLEAN)
  BY <1>1, <1>2, RequestShapes
<1>4. CASE Become(h, Idle)
  BY <1>1, <1>4, IdleProceeds
<1>5. CASE c # None /\ Become(h, r)
  <2>1. c \in Company
    BY <1>2, <1>5, RowParts DEF AskedFor
  <2> HIDE DEF c
  <2>2. r \in Known
    BY <1>3, <2>1 DEF Known, StatusRequest
  <2>3. r.op = "driver" /\ r.trip = old.trip /\ r.contact = old.contact /\ r.seen = old.seen
    OBVIOUS
  <2> HIDE DEF r
  <2>4. AskedFor(r)
    BY <1>2, <2>3 DEF AskedFor
  <2>5. RequestOK(r)
    BY <2>2, <2>3, <2>4 DEF RequestOK
  <2> QED  BY <1>1, <1>5, <2>5 DEF Proceeds, Become
<1> QED  BY <1>1, <1>4, <1>5

LEMMA AnswerProceeds ==
  ASSUME BookingInv, NEW h \in Handler, GetAssignedDriver(h)
  PROVE  \E r : Proceeds(h, r)
<1> DEFINE old == request[h]
           row == trip[old.trip]
<1>1. /\ old.op = "driver" /\ UNCHANGED <<configVars, quotes, tripVars>>
      /\ \/ Become(h, Idle)
         \/ \E d \in AssignedDriver(old.trip, old.company) :
              Become(h, [op |-> "answered", trip |-> old.trip, contact |-> old.contact,
                         seen |-> old.seen, company |-> old.company, driver |-> d])
  BY DEF GetAssignedDriver
<1>2. CASE Become(h, Idle)
  BY <1>1, <1>2, IdleProceeds
<1>3. ASSUME NEW d \in AssignedDriver(old.trip, old.company),
             Become(h, [op |-> "answered", trip |-> old.trip, contact |-> old.contact,
                        seen |-> old.seen, company |-> old.company, driver |-> d])
      PROVE  \E r : Proceeds(h, r)
  <2> DEFINE r == [op |-> "answered", trip |-> old.trip, contact |-> old.contact,
                   seen |-> old.seen, company |-> old.company, driver |-> d]
  <2>1. AskedFor(old) /\ old \in Known
    BY <1>1, RequestKnown DEF RequestOK
  <2>2. /\ old.trip \in Trip /\ old.contact \in BOOLEAN /\ old.seen \in SUBSET (Driver \X BOOLEAN)
        /\ old.company \in Company
    BY <1>1, <2>1, RequestShapes
  <2>3. d \in Driver /\ CompanyOf[d] = old.company /\ row.driver = d /\ None \notin Driver
    BY BookingAssumption DEF AssignedDriver
  <2>4. r \in Known
    BY <2>2, <2>3 DEF Known, StatusRequest
  <2>5. r.op = "answered" /\ r.contact = old.contact /\ r.seen = old.seen /\ r.company = old.company /\ r.driver = d
    OBVIOUS
  <2> HIDE DEF r
  <2>6. row.driver # None /\ Driven(row) \subseteq old.seen /\ (old.contact => <<row.driver, TRUE>> \in old.seen)
    BY <2>1, <2>3 DEF AskedFor
  <2>7. <<row.driver, row.status \in StatusWithContact>> \in old.seen
    BY <2>6 DEF Driven
  <2>8. <<d, TRUE>> \in old.seen \/ <<d, FALSE>> \in old.seen
    <3> DEFINE contact == row.status \in StatusWithContact
    <3>1. contact \in BOOLEAN /\ <<d, contact>> \in old.seen
      BY <2>3, <2>7
    <3> HIDE DEF contact
    <3> QED  BY <3>1
  <2>9. ShowsHolder(r)
    BY <2>3, <2>5, <2>6, <2>8 DEF ShowsHolder
  <2>10. RequestOK(r)
    BY <2>4, <2>5, <2>9 DEF RequestOK
  <2> QED  BY <1>1, <1>3, <2>10 DEF Proceeds, Become, r
<1> QED  BY <1>1, <1>2, <1>3

LEMMA CreateProceeds ==
  ASSUME BookingInv, NEW h \in Handler, NEW t \in Trip, CreateTripRequest(h, t)
  PROVE  /\ request[h] \in Creation /\ TakenUp(request[h]) /\ trip[t] = None
         /\ ActiveTrips(request[h].passenger) = {}
         /\ trip' = [trip EXCEPT ![t] = NewTrip(request[h])]
         /\ quoted' = [quoted EXCEPT ![t] = request[h].quote]
         /\ request' = [request EXCEPT ![h] = Idle]
         /\ UNCHANGED <<configVars, quotes, rate>>
BY RequestKnown, RequestShapes DEF RequestOK, CreateTripRequest, UniqueActive, Become

Books(h, t) ==
  /\ request[h] \in Creation /\ TakenUp(request[h]) /\ trip[t] = None
  /\ ActiveTrips(request[h].passenger) = {}
  /\ trip' = [trip EXCEPT ![t] = NewTrip(request[h])]
  /\ quoted' = [quoted EXCEPT ![t] = request[h].quote]
  /\ request' = [request EXCEPT ![h] = Idle]
  /\ UNCHANGED <<configVars, quotes, rate>>

Kept == UNCHANGED <<request, tripVars>>

LEMMA StepKinds ==
  ASSUME BookingInv, [BookingNext]_bookingVars
  PROVE  \/ UNCHANGED bookingVars
         \/ Configure
         \/ \E pl \in Place : GiveQuote(pl)
         \/ \E h \in Handler : \E r : Proceeds(h, r)
         \/ \E h \in Handler, t \in Trip : Books(h, t)
         \/ \E t \in Trip : \E row, x : Changes(t, row, x)
<1> DEFINE Kind == \/ UNCHANGED bookingVars
                   \/ Configure
                   \/ \E pl \in Place : GiveQuote(pl)
                   \/ \E h \in Handler : \E r : Proceeds(h, r)
                   \/ \E h \in Handler, t \in Trip : Books(h, t)
                   \/ \E t \in Trip : \E row, x : Changes(t, row, x)
<1>1. ASSUME NEW h \in Handler, Create(h) PROVE Kind
  <2>1. CASE \E t \in Trip : CreateTripRequest(h, t)
    BY <2>1, CreateProceeds DEF Books
  <2>2. CASE ~\E t \in Trip : CreateTripRequest(h, t)
    BY <1>1, <2>2, BeginProceeds, CheckProceeds DEF Create
  <2> QED  BY <2>1, <2>2
<1>2. ASSUME NEW h \in Handler, Look(h) PROVE Kind
  BY <1>2, RowProceeds, LookProceeds, InfoProceeds, AnswerProceeds DEF Look
<1>3. ASSUME NEW h \in Handler, Fails(h) PROVE Kind
  BY <1>3, IdleProceeds DEF Fails
<1>4. ASSUME NEW t \in Trip, PurgeCoordinates(t) PROVE Kind
  BY <1>4, PurgeChanges
<1>5. ASSUME Aside PROVE Kind
  BY <1>1, <1>2, <1>3, <1>4, <1>5 DEF Aside
<1>6. ASSUME NEW t \in Trip,
             \/ \E d \in Driver : Take(t, d)
             \/ \E to \in TripStatus : Progress(t, to) \/ Close(t, to)
             \/ GiveBack(t) \/ MarkArrived(t) \/ MarkNoDriver(t)
      PROVE  Kind
  BY <1>6, TakeChanges, ProgressChanges, CloseChanges, GiveBackChanges, ArrivalChanges, NoDriverChanges
<1> HIDE DEF Kind
<1>7. UNCHANGED bookingVars => Kind
  BY DEF Kind
<1>8. BookingNext => Kind
  BY <1>5, <1>6 DEF BookingNext
<1> QED  BY <1>7, <1>8 DEF Kind

-----------------------------------------------------------------------------
(* What each kind of step keeps.                                           *)

(* The clock and the lists of the world around.                            *)
LEMMA ConfigureKeeps ==
  ASSUME BookingInv, Configure
  PROVE  /\ now \in Moment /\ now' \in Moment /\ now <= now'
         /\ \A h \in Handler : Creating(h) => now' <= request[h].since + Latency
         /\ fareVersion' \in [Place -> Nat] /\ Listed'
         /\ active' \subseteq Company /\ pct' \in [Company -> CommissionPct]
         /\ UNCHANGED <<quotes, request, tripVars>>
<1>1. BookingTypeOK /\ Listed /\ Moment \subseteq Nat
  BY BookingAssumption DEF BookingInv
<1>2. \A h \in Handler : Creating(h) => now <= request[h].since + Latency
  BY RequestKnown DEF RequestOK, TakenUp, Creating
<1>3. ASSUME NEW m \in Moment, Elapse(m)
      PROVE  /\ now' \in Moment /\ now <= now' /\ UNCHANGED <<fareVersion, active, pct, quotes, request, tripVars>>
             /\ \A h \in Handler : Creating(h) => now' <= request[h].since + Latency
  BY <1>1, <1>3 DEF Elapse, BookingTypeOK
<1>4. ASSUME NEW pl \in Place, ReviseFare(pl)
      PROVE  /\ fareVersion' \in [Place -> Nat] /\ Listed'
             /\ UNCHANGED <<now, active, pct, quotes, request, tripVars>>
  <2>1. /\ fareVersion[pl] < Len(FareTable[pl]) /\ fareVersion' = [fareVersion EXCEPT ![pl] = fareVersion[pl] + 1]
        /\ fareVersion \in [Place -> Nat]
    BY <1>1, <1>4 DEF ReviseFare, BookingTypeOK
  <2>2. Len(FareTable[pl]) \in Nat
    BY BookingAssumption
  <2>3. fareVersion' \in [Place -> Nat] /\ Listed'
    BY <1>1, <2>1, <2>2 DEF Listed
  <2> QED  BY <1>4, <2>3 DEF ReviseFare
<1>5. ASSUME NEW c \in Company, SuspendOrRestore(c) \/ \E x \in CommissionPct : ReviseCommission(c, x)
      PROVE  /\ active' \subseteq Company /\ pct' \in [Company -> CommissionPct]
             /\ UNCHANGED <<now, fareVersion, quotes, request, tripVars>>
  BY <1>1, <1>5 DEF SuspendOrRestore, ReviseCommission, BookingTypeOK
<1>6. now \in Moment /\ now \in Nat
  BY <1>1 DEF BookingTypeOK
<1>7. CASE \E m \in Moment : Elapse(m)
  BY <1>1, <1>3, <1>6, <1>7 DEF BookingTypeOK, Listed
<1>8. CASE \E pl \in Place : ReviseFare(pl)
  BY <1>1, <1>2, <1>4, <1>6, <1>8 DEF BookingTypeOK
<1>9. CASE \E c \in Company : SuspendOrRestore(c) \/ \E x \in CommissionPct : ReviseCommission(c, x)
  BY <1>1, <1>2, <1>5, <1>6, <1>9 DEF BookingTypeOK, Listed
<1> QED  BY <1>7, <1>8, <1>9 DEF Configure

LEMMA GenuineLater ==
  ASSUME NEW q, NEW m \in Nat, NEW n \in Nat, m <= n, Genuine(q, m)
  PROVE  Genuine(q, n)
<1>1. Moment \subseteq Nat
  BY BookingAssumption
<1> QED  BY <1>1 DEF Genuine

(* A new quote is the fare of the version in force, now.                   *)
LEMMA SignedNow ==
  ASSUME BookingInv, NEW pl \in Place, GiveQuote(pl)
  PROVE  Sign(pl) \in Quote /\ Genuine(Sign(pl), now)
<1> DEFINE v == fareVersion[pl]
           fare == CalculateFare(FareTable[pl][v], now)
<1>1. now \in Moment /\ now \in Nat /\ Ttl \in Nat /\ now + Ttl \in Nat
  BY BookingAssumption DEF BookingInv, BookingTypeOK
<1>2. Len(FareTable[pl]) \in Nat
  BY BookingAssumption
<1>3. v \in Nat /\ v <= Len(FareTable[pl]) /\ v > 0
  BY DEF BookingInv, BookingTypeOK, Listed, GiveQuote
<1>4. v \in 1..Len(FareTable[pl])
  BY <1>2, <1>3
<1>5. fare \in FareBreakdown
  BY <1>1, <1>4, FareListed, FareIsSum
<1>6. Sign(pl) = [place |-> pl, version |-> v, fare |-> fare, exp |-> now + Ttl]
  BY DEF Sign
<1> HIDE DEF fare
<1>7. Sign(pl) \in Quote
  BY <1>1, <1>3, <1>5, <1>6 DEF Quote
<1>8. /\ Sign(pl).place = pl /\ Sign(pl).version = v /\ Sign(pl).exp = now + Ttl
      /\ Sign(pl).fare = CalculateFare(FareTable[pl][v], now)
  BY <1>6 DEF fare
<1> HIDE DEF v
<1>9. SignedAt(Sign(pl), now)
  BY <1>4, <1>8 DEF SignedAt
<1> QED  BY <1>1, <1>7, <1>9 DEF Genuine

LEMMA OneRequest ==
  ASSUME BookingInv, NEW h \in Handler, NEW r, request' = [request EXCEPT ![h] = r]
  PROVE  request'[h] = r /\ \A g \in Handler \ {h} : request'[g] = request[g]
BY DEF BookingInv, BookingTypeOK

LEMMA RowChanged ==
  ASSUME BookingInv, NEW t \in Trip, NEW row, NEW x, Changes(t, row, x)
  PROVE  /\ trip' \in [Trip -> TripRequest \cup {None}] /\ rate' \in [Trip -> CommissionPct \cup {None}]
         /\ trip'[t] = row /\ rate'[t] = x
         /\ \A u \in Trip \ {t} : trip'[u] = trip[u] /\ rate'[u] = rate[u]
<1>1. /\ trip \in [Trip -> TripRequest \cup {None}] /\ rate \in [Trip -> CommissionPct \cup {None}]
      /\ trip' = [trip EXCEPT ![t] = row] /\ rate' = [rate EXCEPT ![t] = x]
      /\ row \in TripRequest /\ x \in CommissionPct \cup {None}
  BY DEF BookingInv, BookingTypeOK, Changes, Becomes, Follows
<1> QED  BY <1>1

(* Who asks for the status of the trip notes what it became.               *)
LEMMA RequestsNote ==
  ASSUME BookingInv, NEW t \in Trip, NEW row, NEW x, Changes(t, row, x), NEW h \in Handler
  PROVE  \/ ~(Asking(h) /\ request[h].trip = t) /\ request'[h] = request[h]
         \/ /\ Asking(h) /\ request[h].trip = t
            /\ request'[h] \in Known /\ request'[h].op = request[h].op
            /\ request'[h].trip = request[h].trip /\ request'[h].contact = request[h].contact
            /\ request'[h].seen = request[h].seen \cup Driven(row)
<1> DEFINE old == request[h]
           new == [old EXCEPT !.seen = @ \cup Driven(row)]
<1>1. request'[h] = IF Asking(h) /\ old.trip = t THEN new ELSE old
  BY DEF Changes, Becomes
<1>2. old \in Known
  BY RequestKnown
<1>3. Driven(row) \in SUBSET (Driver \X BOOLEAN)
  BY DrivenTyped DEF Changes, Follows
<1>4. CASE Asking(h) /\ old.trip = t
  <2> DEFINE more == Driven(row)
  <2>0. more \in SUBSET (Driver \X BOOLEAN)
    BY <1>3
  <2> HIDE DEF more
  <2>1. CASE old.op = "info"
    <3>1. old \in [op : {"info"}, trip : Trip, contact : BOOLEAN, seen : SUBSET (Driver \X BOOLEAN)]
      BY <1>2, <2>1, RequestShapes
    <3>2. old.seen \cup more \in SUBSET (Driver \X BOOLEAN)
      BY <2>0, <3>1
    <3>3. /\ [old EXCEPT !.seen = old.seen \cup more]
               \in [op : {"info"}, trip : Trip, contact : BOOLEAN, seen : SUBSET (Driver \X BOOLEAN)]
          /\ [old EXCEPT !.seen = old.seen \cup more].seen = old.seen \cup more
          /\ [old EXCEPT !.seen = old.seen \cup more].trip = old.trip
          /\ [old EXCEPT !.seen = old.seen \cup more].contact = old.contact
          /\ [old EXCEPT !.seen = old.seen \cup more].op = old.op
      BY <3>1, <3>2
    <3> QED  BY <1>1, <1>4, <3>3 DEF Known, StatusRequest, more
  <2>2. CASE old.op = "driver"
    <3>1. old \in [op : {"driver"}, trip : Trip, contact : BOOLEAN, seen : SUBSET (Driver \X BOOLEAN),
                   company : Company]
      BY <1>2, <2>2, RequestShapes
    <3>2. old.seen \cup more \in SUBSET (Driver \X BOOLEAN)
      BY <2>0, <3>1
    <3>3. /\ [old EXCEPT !.seen = old.seen \cup more]
               \in [op : {"driver"}, trip : Trip, contact : BOOLEAN, seen : SUBSET (Driver \X BOOLEAN),
                    company : Company]
          /\ [old EXCEPT !.seen = old.seen \cup more].seen = old.seen \cup more
          /\ [old EXCEPT !.seen = old.seen \cup more].trip = old.trip
          /\ [old EXCEPT !.seen = old.seen \cup more].contact = old.contact
          /\ [old EXCEPT !.seen = old.seen \cup more].op = old.op
      BY <3>1, <3>2
    <3> QED  BY <1>1, <1>4, <3>3 DEF Known, StatusRequest, more
  <2> QED  BY <1>4, <2>1, <2>2 DEF Asking
<1>5. CASE ~(Asking(h) /\ old.trip = t)
  BY <1>1, <1>5
<1> QED  BY <1>4, <1>5

LEMMA RowBooked ==
  ASSUME BookingInv, NEW h \in Handler, NEW t \in Trip, Books(h, t)
  PROVE  LET r   == request[h]
             row == NewTrip(r)
         IN  /\ row \in TripRequest
             /\ row.passenger = r.passenger /\ row.place = r.place /\ row.fare = r.quote.fare.total
             /\ row.version = r.quote.version /\ row.at = now /\ row.status = "pending_assignment"
             /\ row.driver = None /\ row.company = None /\ row.pct = None /\ row.commission = 0 /\ row.net = None
             /\ r.quote \in Quote
             /\ trip' \in [Trip -> TripRequest \cup {None}] /\ trip'[t] = row
             /\ quoted' \in [Trip -> Quote \cup {None}] /\ quoted'[t] = r.quote
             /\ \A u \in Trip \ {t} : trip'[u] = trip[u] /\ quoted'[u] = quoted[u]
<1> DEFINE r   == request[h]
           row == NewTrip(r)
<1>1. /\ trip \in [Trip -> TripRequest \cup {None}] /\ quoted \in [Trip -> Quote \cup {None}]
      /\ trip' = [trip EXCEPT ![t] = row] /\ quoted' = [quoted EXCEPT ![t] = r.quote]
      /\ r \in Creation /\ now \in Nat
  BY BookingAssumption DEF BookingInv, BookingTypeOK, Books
<1>2. r.passenger \in Passenger /\ r.place \in Place /\ r.requested \in Company \cup {None} /\ r.quote \in Quote
  BY <1>1 DEF Creation
<1>3. r.quote.fare.total \in Nat /\ r.quote.version \in Nat
  BY <1>2 DEF Quote, FareBreakdown, Amount
<1>4. row = [passenger |-> r.passenger, place |-> r.place, requested |-> r.requested,
             fare |-> r.quote.fare.total, version |-> r.quote.version, at |-> now,
             status |-> "pending_assignment", arrived |-> FALSE, purged |-> FALSE,
             driver |-> None, company |-> None, pct |-> None, commission |-> 0, net |-> None]
  BY DEF NewTrip
<1> HIDE DEF row, r
<1>5. row \in TripRequest
  BY <1>1, <1>2, <1>3, <1>4 DEF TripRequest, Amount, TripStatus
<1>6. /\ row.passenger = r.passenger /\ row.place = r.place /\ row.fare = r.quote.fare.total
      /\ row.version = r.quote.version /\ row.at = now /\ row.status = "pending_assignment"
      /\ row.driver = None /\ row.company = None /\ row.pct = None /\ row.commission = 0 /\ row.net = None
  BY <1>4
<1>7. /\ trip' \in [Trip -> TripRequest \cup {None}] /\ trip'[t] = row
      /\ quoted' \in [Trip -> Quote \cup {None}] /\ quoted'[t] = r.quote
      /\ \A u \in Trip \ {t} : trip'[u] = trip[u] /\ quoted'[u] = quoted[u]
  BY <1>1, <1>2, <1>5
<1> QED  BY <1>2, <1>5, <1>6, <1>7 DEF row, r

-----------------------------------------------------------------------------

LEMMA TypesKept == ASSUME BookingInv, [BookingNext]_bookingVars PROVE BookingTypeOK'
<1>0. BookingTypeOK
  BY DEF BookingInv
<1>1. CASE UNCHANGED bookingVars
  BY <1>0, <1>1 DEF BookingTypeOK, bookingVars, configVars, tripVars
<1>2. CASE Configure
  BY <1>0, <1>2, ConfigureKeeps DEF BookingTypeOK, tripVars
<1>3. ASSUME NEW pl \in Place, GiveQuote(pl) PROVE BookingTypeOK'
  BY <1>0, <1>3, SignedNow DEF GiveQuote, BookingTypeOK, configVars, tripVars
<1>4. ASSUME NEW h \in Handler, NEW r, Proceeds(h, r) PROVE BookingTypeOK'
  <2>1. request' \in [Handler -> Known]
    BY <1>0, <1>4 DEF Proceeds, RequestOK, BookingTypeOK, Known
  <2> QED  BY <1>0, <1>4, <2>1 DEF Proceeds, BookingTypeOK, configVars, tripVars, Known
<1>5. ASSUME NEW h \in Handler, NEW t \in Trip, Books(h, t) PROVE BookingTypeOK'
  <2>1. request' \in [Handler -> Known]
    BY <1>0, <1>5 DEF Books, BookingTypeOK, Known
  <2>2. trip' \in [Trip -> TripRequest \cup {None}] /\ quoted' \in [Trip -> Quote \cup {None}]
    BY <1>5, RowBooked
  <2> QED  BY <1>0, <1>5, <2>1, <2>2 DEF Books, BookingTypeOK, configVars, Known
<1>6. ASSUME NEW t \in Trip, NEW row, NEW x, Changes(t, row, x) PROVE BookingTypeOK'
  <2>1. \A h \in Handler : request'[h] \in Known
    BY <1>6, RequestsNote, RequestKnown
  <2>2. request' \in [Handler -> Known]
    <3>1. \E f : request' = [h \in Handler |-> f[h]]
      BY <1>6 DEF Changes, Becomes
    <3> QED  BY <2>1, <3>1
  <2>3. trip' \in [Trip -> TripRequest \cup {None}] /\ rate' \in [Trip -> CommissionPct \cup {None}]
    BY <1>6, RowChanged
  <2> QED  BY <1>0, <1>6, <2>2, <2>3 DEF Changes, BookingTypeOK, configVars, Known
<1> QED  BY <1>1, <1>2, <1>3, <1>4, <1>5, <1>6, StepKinds

LEMMA FaresListed == ASSUME BookingInv, [BookingNext]_bookingVars PROVE Listed'
<1>0. Listed
  BY DEF BookingInv
<1>1. UNCHANGED fareVersion => Listed'
  BY <1>0 DEF Listed
<1> QED
  BY <1>1, StepKinds, ConfigureKeeps
     DEF bookingVars, configVars, GiveQuote, Proceeds, Books, Changes

LEMMA ClockGoesOn ==
  ASSUME BookingInv, [BookingNext]_bookingVars
  PROVE  now \in Nat /\ now' \in Nat /\ now <= now'
<1>1. now \in Nat /\ Moment \subseteq Nat
  BY BookingAssumption DEF BookingInv, BookingTypeOK
<1>2. now' = now => now' \in Nat /\ now <= now'
  BY <1>1
<1>3. Configure => now' \in Nat /\ now <= now'
  BY <1>1, ConfigureKeeps
<1> QED
  BY <1>1, <1>2, <1>3, StepKinds
     DEF bookingVars, configVars, GiveQuote, Proceeds, Books, Changes

LEMMA QuotesKept == ASSUME BookingInv, [BookingNext]_bookingVars PROVE QuotesSigned'
<1> SUFFICES ASSUME NEW q \in quotes' PROVE Genuine(q, now')
  BY DEF QuotesSigned, Genuine, SignedAt
<1>1. q \in quotes \/ \E pl \in Place : GiveQuote(pl) /\ q = Sign(pl)
  BY StepKinds, ConfigureKeeps DEF bookingVars, GiveQuote, Proceeds, Books, Changes
<1>2. Genuine(q, now)
  BY <1>1, SignedNow DEF BookingInv, QuotesSigned
<1> QED  BY <1>2, ClockGoesOn, GenuineLater

(* What a request knows is as good after a step that is not of its own.    *)
LEMMA AskedStays ==
  ASSUME BookingInv, NEW r \in Known, r.op \in {"info", "driver"}, AskedFor(r),
         trip'[r.trip] = trip[r.trip]
  PROVE  AskedFor(r)'
BY DEF AskedFor, Driven

LEMMA TakenUpStays ==
  ASSUME NEW r \in Known, r.op \in {"company", "active", "insert"}, TakenUp(r), now' = now
  PROVE  TakenUp(r)'
BY DEF TakenUp, Genuine, SignedAt

LEMMA RequestStays ==
  ASSUME BookingInv, NEW r, RequestOK(r), now' = now,
         r.op \in {"info", "driver"} => trip'[r.trip] = trip[r.trip]
  PROVE  RequestOK(r)'
<1>1. r \in Known
  BY DEF RequestOK
<1>2. (r \in Known)'
  BY <1>1 DEF Known, Idle, Creation, StatusRequest, Quote
<1>3. r.op = "answered" => ShowsHolder(r)'
  BY DEF RequestOK, ShowsHolder
<1> QED  BY <1>1, <1>2, <1>3, AskedStays, TakenUpStays DEF RequestOK

LEMMA RequestsKept == ASSUME BookingInv, [BookingNext]_bookingVars PROVE RequestsOK'
<1>0. BookingTypeOK /\ \A h \in Handler : RequestOK(request[h])
  BY DEF BookingInv, RequestsOK
<1> SUFFICES ASSUME NEW h \in Handler PROVE RequestOK(request[h])'
  BY DEF RequestsOK
<1> DEFINE old == request[h]
<1>a. old \in Known
  BY RequestKnown
<1>1. CASE UNCHANGED bookingVars
  <2>1. RequestOK(old)'
    BY <1>0, <1>1, RequestStays DEF bookingVars, configVars, tripVars
  <2>2. request'[h] = old
    BY <1>1 DEF bookingVars
  <2> QED  BY <2>1, <2>2
<1>2. CASE Configure
  <2>1. /\ request'[h] = old /\ trip' = trip /\ now' \in Moment /\ now <= now' /\ now \in Moment
        /\ Creating(h) => now' <= old.since + Latency
    BY <1>2, ConfigureKeeps DEF tripVars
  <2>2. old.op \in {"company", "active", "insert"} => TakenUp(old)'
    <3> SUFFICES ASSUME old.op \in {"company", "active", "insert"} PROVE TakenUp(old)'
      OBVIOUS
    <3>1. TakenUp(old) /\ old \in Creation
      BY <1>0, <1>a, RequestShapes DEF RequestOK
    <3>2. now \in Nat /\ now' \in Nat /\ old.since \in Nat
      BY <2>1, <3>1, BookingAssumption DEF Creation
    <3>3. old.since <= now' /\ now' <= old.since + Latency
      BY <2>1, <3>1, <3>2 DEF TakenUp, Creating
    <3> HIDE DEF old
    <3>4. Genuine(old.quote, old.since) /\ old.quote.place = old.place /\ old.since <= old.quote.exp
      BY <3>1 DEF TakenUp
    <3> QED  BY <2>1, <3>3, <3>4 DEF TakenUp, old, Genuine, SignedAt
  <2>3. old.op \in {"info", "driver"} => AskedFor(old)'
    BY <1>0, <2>1 DEF RequestOK, AskedFor, Driven
  <2>4. old.op = "answered" => ShowsHolder(old)'
    BY <1>0, <2>1 DEF RequestOK, ShowsHolder
  <2> QED  BY <1>a, <2>1, <2>2, <2>3, <2>4 DEF RequestOK, Known
<1>3. ASSUME NEW pl \in Place, GiveQuote(pl) PROVE RequestOK(request[h])'
  <2>1. now' = now /\ trip' = trip /\ request'[h] = old
    BY <1>3 DEF GiveQuote, configVars, tripVars
  <2> QED  BY <1>0, <2>1, RequestStays
<1>4. ASSUME NEW g \in Handler, NEW r, Proceeds(g, r) PROVE RequestOK(request[h])'
  <2>1. now' = now /\ trip' = trip
    BY <1>4 DEF Proceeds, configVars, tripVars
  <2>2. request'[h] = IF h = g THEN r ELSE old
    BY <1>4, OneRequest DEF Proceeds
  <2>3. RequestOK(request'[h])
    BY <1>0, <1>4, <2>2 DEF Proceeds
  <2> DEFINE new == request'[h]
  <2> HIDE DEF new
  <2> QED  BY <2>1, <2>3, RequestStays
<1>5. ASSUME NEW g \in Handler, NEW t \in Trip, Books(g, t) PROVE RequestOK(request[h])'
  <2>1. now' = now /\ request'[h] = IF h = g THEN Idle ELSE old
    BY <1>5, OneRequest DEF Books, configVars
  <2>2. CASE h = g
    BY <2>1, <2>2, IdleIsOK DEF RequestOK, Idle, Known
  <2>3. CASE h # g /\ ~(old.op \in {"info", "driver"} /\ old.trip = t)
    <3>1. old.op \in {"info", "driver"} => old.trip \in Trip \ {t}
      BY <1>a, <2>3, RequestShapes
    <3>2. old.op \in {"info", "driver"} => trip'[old.trip] = trip[old.trip]
      BY <1>5, <3>1, RowBooked
    <3> QED  BY <1>0, <2>1, <2>3, <3>2, RequestStays
  <2>4. CASE h # g /\ old.op \in {"info", "driver"} /\ old.trip = t
    <3>1. trip'[t] \in TripRequest /\ trip'[t].driver = None
      BY <1>5, RowBooked
    <3>2. AskedFor(old)'
      BY <2>1, <2>4, <3>1 DEF AskedFor, Driven
    <3> QED  BY <1>a, <2>1, <2>4, <3>2 DEF RequestOK, Known
  <2> QED  BY <2>2, <2>3, <2>4
<1>6. ASSUME NEW t \in Trip, NEW row, NEW x, Changes(t, row, x) PROVE RequestOK(request[h])'
  <2>1. now' = now /\ trip'[t] = row /\ \A u \in Trip \ {t} : trip'[u] = trip[u]
    BY <1>6, RowChanged DEF Changes, configVars
  <2>2. CASE ~(Asking(h) /\ old.trip = t)
    <3>1. request'[h] = old
      BY <1>6, <2>2, RequestsNote
    <3>2. old.op \in {"info", "driver"} => old.trip \in Trip \ {t}
      BY <1>a, <2>2, RequestShapes DEF Asking
    <3>3. old.op \in {"info", "driver"} => trip'[old.trip] = trip[old.trip]
      BY <2>1, <3>2
    <3> QED  BY <1>0, <2>1, <3>1, <3>3, RequestStays
  <2>3. CASE Asking(h) /\ old.trip = t
    <3> DEFINE new == request'[h]
    <3>a. /\ new \in Known /\ new.op = old.op /\ new.trip = old.trip /\ new.contact = old.contact
          /\ new.seen = old.seen \cup Driven(row)
      BY <1>6, <2>3, RequestsNote
    <3>1. /\ new \in Known /\ new.op = old.op /\ new.trip = t /\ new.contact = old.contact
          /\ new.seen = old.seen \cup Driven(row)
      BY <2>3, <3>a
    <3>2. AskedFor(old) /\ old.op \in {"info", "driver"}
      BY <1>0, <2>3 DEF RequestOK, Asking
    <3>3. /\ row \in TripRequest
          /\ row.driver \in {trip[t].driver, None} \/ row.status = "assigned"
      BY <1>6 DEF Changes, Follows
    <3>4. ASSUME old.contact, row.driver # None PROVE <<row.driver, TRUE>> \in old.seen \cup Driven(row)
      <4>1. CASE row.driver = trip[t].driver
        BY <2>3, <3>2, <3>4, <4>1 DEF AskedFor
      <4>2. CASE row.status = "assigned"
        BY <3>4, <4>2 DEF Driven, StatusWithContact
      <4> QED  BY <3>3, <3>4, <4>1, <4>2
    <3>5. Driven(row) \subseteq new.seen /\ (new.contact /\ row.driver # None => <<row.driver, TRUE>> \in new.seen)
      BY <3>1, <3>4
    <3>6. trip'[new.trip] = row
      BY <2>1, <3>1
    <3> HIDE DEF new
    <3>7. /\ row \in TripRequest /\ Driven(row) \subseteq new.seen
          /\ new.contact /\ row.driver # None => <<row.driver, TRUE>> \in new.seen
      BY <3>3, <3>5
    <3>8. AskedFor(request[h])'
      BY <3>6, <3>7 DEF AskedFor, Driven, new
    <3>9. request'[h] \in Known /\ request'[h].op \in {"info", "driver"}
      BY <3>1, <3>2 DEF new
    <3> QED  BY <3>8, <3>9 DEF RequestOK, Known
  <2> QED  BY <2>2, <2>3
<1> QED  BY <1>1, <1>2, <1>3, <1>4, <1>5, <1>6, StepKinds

(* Whatever a call for a trip in time took, less than three hours passed.  *)
LEMMA BookingIsPrompt ==
  ASSUME BookingInv, NEW r \in Creation, TakenUp(r)
  PROVE  \E m \in Moment : SignedAt(r.quote, m) /\ m <= now /\ now < m + 3 * HourLength
<1>1. PICK m \in Moment : m <= r.since /\ SignedAt(r.quote, m)
  BY DEF TakenUp, Genuine
<1>2. r.since <= r.quote.exp /\ r.since <= now /\ now <= r.since + Latency
  BY DEF TakenUp
<1>3. r.quote.exp = m + Ttl
  BY <1>1 DEF SignedAt
<1>4. /\ m \in Nat /\ r.since \in Nat /\ now \in Nat /\ Ttl \in Nat /\ Latency \in Nat
      /\ HourLength \in Nat
  BY BookingAssumption, FareAssumption DEF BookingInv, BookingTypeOK, Creation
<1>5. m <= now /\ now < m + 3 * HourLength
  BY <1>1, <1>2, <1>3, <1>4, QuoteIsShort
<1> QED  BY <1>1, <1>5

LEMMA RowsKept == ASSUME BookingInv, [BookingNext]_bookingVars PROVE RowsOK'
<1>0. RowsOK
  BY DEF BookingInv
<1> DEFINE Row(u) == trip'[u] # None => BookedFrom(trip'[u], quoted'[u]) /\ Owes(trip'[u], rate'[u])
<1>1. UNCHANGED tripVars => \A u \in Trip : Row(u)
  BY <1>0 DEF RowsOK, tripVars
<1>2. ASSUME NEW h \in Handler, NEW t \in Trip, Books(h, t) PROVE \A u \in Trip : Row(u)
  <2> DEFINE r == request[h]
             row == trip'[t]
  <2>1. /\ row.place = r.place /\ row.fare = r.quote.fare.total /\ row.version = r.quote.version /\ row.at = now
        /\ row.status = "pending_assignment" /\ row.company = None /\ row.pct = None /\ row.commission = 0
        /\ row.net = None /\ row \in TripRequest /\ r.quote \in Quote /\ quoted'[t] = r.quote
        /\ \A u \in Trip \ {t} : trip'[u] = trip[u] /\ quoted'[u] = quoted[u]
    BY <1>2, RowBooked
  <2>2. r \in Creation /\ TakenUp(r) /\ rate' = rate
    BY <1>2 DEF Books
  <2>3. r.quote.place = r.place
    BY <2>2 DEF TakenUp
  <2>4. \E m \in Moment : SignedAt(r.quote, m) /\ m <= row.at /\ row.at < m + 3 * HourLength
    BY <2>1, <2>2, BookingIsPrompt
  <2> HIDE DEF r, row
  <2>5. BookedFrom(row, r.quote)
    BY <2>1, <2>3, <2>4 DEF BookedFrom
  <2>6. row.fare \in Nat
    BY <2>1, RowParts
  <2>7. Owes(row, rate[t])
    BY <2>1, <2>6 DEF Owes
  <2>8. Row(t)
    BY <2>1, <2>2, <2>5, <2>7 DEF row
  <2>9. \A u \in Trip \ {t} : Row(u)
    BY <1>0, <2>1, <2>2 DEF RowsOK
  <2> HIDE DEF Row
  <2> QED  BY <2>8, <2>9
<1>3. ASSUME NEW t \in Trip, NEW row, NEW x, Changes(t, row, x) PROVE \A u \in Trip : Row(u)
  <2>1. /\ trip'[t] = row /\ rate'[t] = x /\ \A u \in Trip \ {t} : trip'[u] = trip[u] /\ rate'[u] = rate[u]
        /\ quoted' = quoted /\ trip[t] # None
    BY <1>3, RowChanged DEF Changes
  <2>2. Follows(row, trip[t], x)
    BY <1>3 DEF Changes
  <2>3. BookedFrom(trip[t], quoted[t])
    BY <1>0, <2>1 DEF RowsOK
  <2>4. BookedFrom(row, quoted[t])
    BY <2>2, <2>3 DEF Follows, BookedFrom
  <2>5. Owes(row, x)
    BY <2>2 DEF Follows
  <2>6. Row(t)
    BY <2>1, <2>4, <2>5
  <2>7. \A u \in Trip \ {t} : Row(u)
    BY <1>0, <2>1 DEF RowsOK
  <2> HIDE DEF Row
  <2> QED  BY <2>6, <2>7
<1>4. \A u \in Trip : Row(u)
  <2> HIDE DEF Row
  <2> QED  BY <1>1, <1>2, <1>3, StepKinds, ConfigureKeeps DEF bookingVars, GiveQuote, Proceeds
<1> QED  BY <1>4 DEF RowsOK, BookedFrom, Owes, SignedAt, Quote

LEMMA OneEachKept == ASSUME BookingInv, [BookingNext]_bookingVars PROVE OneEach'
<1>0. OneEach
  BY DEF BookingInv
<1> DEFINE Live(u) == trip[u] # None /\ trip[u].status \in ActiveStatus
           LiveNext(u) == trip'[u] # None /\ trip'[u].status \in ActiveStatus
<1>1. trip' = trip => OneEach'
  BY <1>0 DEF OneEach
<1>2. ASSUME NEW h \in Handler, NEW t \in Trip, Books(h, t) PROVE OneEach'
  <2>1. /\ trip'[t].passenger = request[h].passenger
        /\ \A u \in Trip \ {t} : trip'[u] = trip[u]
    BY <1>2, RowBooked
  <2>2. \A u \in Trip : Live(u) => trip[u].passenger # request[h].passenger
    BY <1>2 DEF Books, ActiveTrips
  <2>3. \A u \in Trip \ {t} : LiveNext(u) => Live(u) /\ trip'[u].passenger # trip'[t].passenger
    BY <2>1, <2>2
  <2> QED  BY <1>0, <2>1, <2>3 DEF OneEach
<1>3. ASSUME NEW t \in Trip, NEW row, NEW x, Changes(t, row, x) PROVE OneEach'
  <2>1. /\ trip'[t] = row /\ \A u \in Trip \ {t} : trip'[u] = trip[u]
        /\ trip[t] # None
    BY <1>3, RowChanged DEF Changes
  <2>2. row.passenger = trip[t].passenger /\ (row.status \in ActiveStatus => trip[t].status \in ActiveStatus)
    BY <1>3 DEF Changes, Follows
  <2>3. \A u \in Trip : LiveNext(u) => Live(u) /\ trip'[u].passenger = trip[u].passenger
    BY <2>1, <2>2
  <2> QED  BY <1>0, <2>3 DEF OneEach
<1> QED  BY <1>1, <1>2, <1>3, StepKinds, ConfigureKeeps DEF bookingVars, tripVars, GiveQuote, Proceeds

LEMMA BookingKeeps == BookingInv /\ [BookingNext]_bookingVars => BookingInv'
BY TypesKept, FaresListed, QuotesKept, RequestsKept, RowsKept, OneEachKept DEF BookingInv

-----------------------------------------------------------------------------
(* The theorems.                                                           *)

(* A passenger's trips with their notices are bookings: no notice changes  *)
(* a trip, and the steps of a trip are the same with and without them.     *)
THEOREM TripsAreBookings == Spec => BookingSpec
<1>1. Init => BookingInit
  BY DEF Init
<1>2. [Next]_vars => [BookingNext]_bookingVars
  <2>1. UNCHANGED vars => UNCHANGED bookingVars
    BY DEF vars
  <2>2. ASSUME NEW t \in Trip, TripStep(t) PROVE BookingNext
    BY <2>2 DEF TripStep, BookingNext
  <2>3. Next => [BookingNext]_bookingVars
    BY <2>2 DEF Next, BookingNext
  <2> QED  BY <2>1, <2>3
<1> QED  BY <1>1, <1>2, PTL DEF Spec, BookingSpec

(* The inductive invariant: every quote was computed at a moment, every    *)
(* trip is booked soon after its quote and owes what its last taking says, *)
(* and every request has noted whom it passed by.                          *)
THEOREM BookingHolds == Spec => []BookingInv
<1>1. BookingSpec => []BookingInv
  BY BookingStarts, BookingKeeps, PTL DEF BookingSpec
<1> QED  BY <1>1, TripsAreBookings, PTL

(* Quotes, trips and requests are what the code's types say.               *)
THEOREM BookingTypes == Spec => []BookingTypeOK
<1>1. BookingInv => BookingTypeOK
  BY DEF BookingInv
<1> QED  BY <1>1, BookingHolds, PTL

(* createTripRequest never gives a passenger a second active trip, however *)
(* many creations of his pass the read that looks for one.                 *)
THEOREM PassengerHasOneTrip == Spec => []OneActiveTrip
<1>1. BookingInv => OneActiveTrip
  <2> SUFFICES ASSUME BookingInv, NEW p \in Passenger PROVE Cardinality(ActiveTrips(p)) <= 1
    BY DEF OneActiveTrip
  <2>1. \A t, u \in ActiveTrips(p) : t = u
    BY DEF BookingInv, OneEach, ActiveTrips
  <2>2. CASE ActiveTrips(p) = {}
    BY <2>2, FS_EmptySet
  <2>3. CASE ActiveTrips(p) # {}
    <3>1. PICK t \in ActiveTrips(p) : TRUE
      BY <2>3
    <3>2. ActiveTrips(p) = {t}
      BY <2>1, <3>1
    <3> QED  BY <3>2, FS_Singleton
  <2> QED  BY <2>2, <2>3
<1> QED  BY <1>1, BookingHolds, PTL

(* The parts a trip is shown with are the quoted ones, or its total.       *)
LEMMA PartsAreQuoted ==
  ASSUME NEW row \in TripRequest, NEW q, BookedFrom(row, q)
  PROVE  RebuildFare(row) \in {q.fare, LumpSum(row.fare)}
<1> DEFINE f == FareTable[row.place][row.version]
           rebuilt == CalculateFare(f, row.at)
<1>1. PICK m \in Moment : SignedAt(q, m) /\ m <= row.at /\ row.at < m + 3 * HourLength
  BY DEF BookedFrom
<1>2. /\ q.place \in Place /\ q.version \in 1..Len(FareTable[q.place])
      /\ q.fare = CalculateFare(FareTable[q.place][q.version], m)
  BY <1>1 DEF SignedAt
<1>3. row.place = q.place /\ row.version = q.version /\ row.fare = q.fare.total
  BY DEF BookedFrom
<1>4. f \in FareParams /\ q.fare = CalculateFare(f, m)
  BY <1>2, <1>3, FareListed
<1>5. m \in Nat /\ row.at \in Nat
  BY BookingAssumption, RowParts
<1> HIDE DEF f
<1>6. rebuilt.total = row.fare => rebuilt = q.fare
  <2>1. rebuilt.total = row.fare => CalculateFare(f, m).total = CalculateFare(f, row.at).total
    BY <1>3, <1>4
  <2> QED  BY <1>1, <1>4, <1>5, <2>1, TotalTellsParts
<1>7. RebuildFare(row) = IF rebuilt.total = row.fare THEN rebuilt ELSE LumpSum(row.fare)
  BY DEF RebuildFare, f
<1> HIDE DEF rebuilt
<1> QED  BY <1>6, <1>7

(* What a trip costs is what was quoted, whatever became of the fare and   *)
(* the tariff since; what it owes is the commission of the company that    *)
(* took it last, at the rate of that moment.                               *)
THEOREM MoneyStaysAgreed == Spec => []MoneyIsAgreed
<1>1. BookingInv => MoneyIsAgreed
  <2> SUFFICES ASSUME BookingInv PROVE MoneyIsAgreed
    OBVIOUS
  <2>1. ASSUME NEW t \in Trip, trip[t] # None
        PROVE  trip[t] \in TripRequest /\ BookedFrom(trip[t], quoted[t]) /\ Owes(trip[t], rate[t])
    BY <2>1, RowKnown DEF BookingInv, RowsOK
  <2>2. PriceIsQuoted
    BY <2>1, PartsAreQuoted DEF PriceIsQuoted, BookedFrom
  <2>3. CommissionOfTaker
    BY <2>1 DEF CommissionOfTaker, Owes
  <2> QED  BY <2>2, <2>3 DEF MoneyIsAgreed
<1> QED  BY <1>1, BookingHolds, PTL

(* Though the row, the company and the driver are read one after the       *)
(* other, the driver a passenger is shown had his trip during the call,    *)
(* and was to be reached during it if his phone is given.                  *)
THEOREM ShownDriverHasHeld == Spec => []ShownDriverHeld
<1>1. BookingInv => ShownDriverHeld
  <2> SUFFICES ASSUME BookingInv, NEW h \in Handler, request[h].op = "answered"
               PROVE  ShowsHolder(request[h])
    BY DEF ShownDriverHeld, ShowsHolder
  <2> QED  BY RequestKnown DEF RequestOK
<1> QED  BY <1>1, BookingHolds, PTL

-----------------------------------------------------------------------------
(* Counting, and what is left of a sequence.                               *)

LEMMA SameCount ==
  ASSUME NEW S
  PROVE  Push!Cardinality(S) = Cardinality(S)
BY DEF Cardinality, Push!Cardinality, IsFiniteSet, Push!IsFiniteSet

(* What is left of a sequence that has lost an element.                    *)
LEMMA Removed ==
  ASSUME NEW S, NEW s \in Seq(S), NEW i \in 1..Len(s), NEW r, r = Push!RemoveAt(s, i)
  PROVE  /\ r \in Seq(S) /\ Len(r) = Len(s) - 1
         /\ \A k \in 1..Len(r) : r[k] = IF k < i THEN s[k] ELSE s[k + 1]
<1> DEFINE a == SubSeq(s, 1, i - 1)
           b == SubSeq(s, i + 1, Len(s))
<1>0. Len(s) \in Nat /\ i \in Int
  OBVIOUS
<1>1. /\ a \in Seq(S) /\ Len(a) = i - 1 /\ \A k \in 1..(i - 1) : a[k] = s[k]
      /\ b \in Seq(S) /\ Len(b) = Len(s) - i /\ \A k \in 1..(Len(s) - i) : b[k] = s[i + k]
  BY <1>0
<1>2. r = a \o b
  BY DEF Push!RemoveAt
<1> HIDE DEF a, b
<1>3. r \in Seq(S) /\ Len(r) = Len(s) - 1
  BY <1>0, <1>1, <1>2
<1>4. ASSUME NEW k \in 1..Len(r) PROVE r[k] = IF k < i THEN s[k] ELSE s[k + 1]
  <2>1. r[k] = IF k <= Len(a) THEN a[k] ELSE b[k - Len(a)]
    BY <1>1, <1>2, <1>3
  <2>2. CASE k < i
    BY <1>0, <1>1, <1>3, <2>1, <2>2
  <2>3. CASE ~(k < i)
    <3>1. k - (i - 1) \in 1..(Len(s) - i) /\ (k - (i - 1)) + i = k + 1
      BY <1>0, <1>3, <2>3
    <3> QED  BY <1>0, <1>1, <1>3, <2>1, <2>3, <3>1
  <2> QED  BY <2>2, <2>3
<1> QED  BY <1>3, <1>4

(* r has elements of s, from the places g tells, each at most once.        *)
Drawn(r, s, g) ==
  /\ g \in [1..Len(r) -> 1..Len(s)]
  /\ \A k \in 1..Len(r) : r[k] = s[g[k]]
  /\ \A k, l \in 1..Len(r) : g[k] = g[l] => k = l

LEMMA DeletedIs ==
  ASSUME NEW S, NEW s \in Seq(S), NEW P \in SUBSET (1..Len(s)), NEW r, r = Push!Deleted(s, P)
  PROVE  /\ r \in Seq(S)
         /\ \E g : /\ Drawn(r, s, g)
                   /\ (\A p, q \in P : p = q) =>
                        /\ \A k \in 1..Len(r) : g[k] \notin P
                        /\ \A j \in 1..Len(s) : j \notin P => \E k \in 1..Len(r) : r[k] = s[j]
<1>0. Len(s) \in Nat
  OBVIOUS
<1>1. CASE P = {}
  <2> DEFINE g == [k \in 1..Len(s) |-> k]
  <2>1. r = s
    BY <1>1 DEF Push!Deleted
  <2>2. Drawn(r, s, g)
    BY <2>1 DEF Drawn
  <2> QED  BY <1>1, <2>1, <2>2
<1>2. CASE P # {}
  <2>1. PICK i \in P : r = Push!RemoveAt(s, i)
    BY <1>2 DEF Push!Deleted
  <2>2. /\ r \in Seq(S) /\ Len(r) = Len(s) - 1 /\ i \in 1..Len(s)
        /\ \A k \in 1..Len(r) : r[k] = IF k < i THEN s[k] ELSE s[k + 1]
    BY <2>1, Removed
  <2> DEFINE g == [k \in 1..Len(r) |-> IF k < i THEN k ELSE k + 1]
  <2>3. \A k \in 1..Len(r) : g[k] \in 1..Len(s) /\ g[k] # i
    BY <1>0, <2>2
  <2>4. Drawn(r, s, g)
    BY <1>0, <2>2, <2>3 DEF Drawn
  <2>5. ASSUME \A p, q \in P : p = q
        PROVE  /\ \A k \in 1..Len(r) : g[k] \notin P
               /\ \A j \in 1..Len(s) : j \notin P => \E k \in 1..Len(r) : r[k] = s[j]
    <3>1. P = {i}
      BY <2>5
    <3>2. ASSUME NEW j \in 1..Len(s), j # i PROVE \E k \in 1..Len(r) : r[k] = s[j]
      <4>1. CASE j < i
        BY <1>0, <2>2, <4>1
      <4>2. CASE ~(j < i)
        <5>1. j - 1 \in 1..Len(r) /\ ~(j - 1 < i) /\ (j - 1) + 1 = j
          BY <1>0, <2>2, <3>2, <4>2
        <5> QED  BY <2>2, <5>1
      <4> QED  BY <4>1, <4>2
    <3> QED  BY <2>3, <3>1, <3>2
  <2> HIDE DEF g
  <2> QED  BY <2>2, <2>4, <2>5
<1> QED  BY <1>1, <1>2

LEMMA SuffixIs ==
  ASSUME NEW S, NEW s \in Seq(S), NEW n \in Nat, NEW r, r = SubSeq(s, n + 1, Len(s))
  PROVE  r \in Seq(S) /\ \E g : Drawn(r, s, g)
<1> DEFINE g == [k \in 1..Len(r) |-> n + k]
<1>1. /\ r \in Seq(S) /\ Len(s) \in Nat
      /\ Len(r) = IF n + 1 <= Len(s) THEN Len(s) - n ELSE 0
      /\ \A k \in 1..Len(r) : r[k] = s[n + k]
  OBVIOUS
<1>2. Drawn(r, s, g)
  BY <1>1 DEF Drawn
<1> QED  BY <1>1, <1>2

LEMMA RoomIs ==
  ASSUME NEW s \in Seq(Push!TripEntry), NEW r, r = Push!RoomIn(s)
  PROVE  r \in Seq(Push!TripEntry) /\ \E g : Drawn(r, s, g)
<1> DEFINE old == { i \in 1..Len(s) : s[i].expired }
           n == IF Len(s) - Cardinality(old) < MaxEntries THEN Cardinality(old)
                ELSE Len(s) - MaxEntries + 1
<1>1. Len(s) \in Nat /\ MaxEntries \in Nat
  BY PushAssumption
<1>2. Cardinality(old) \in Nat
  <2>1. IsFiniteSet(1..Len(s))
    BY <1>1, FS_Interval
  <2> QED  BY <2>1, FS_Subset, FS_CardinalityType
<1>3. Push!Cardinality(old) = Cardinality(old)
  BY SameCount
<1>4. r = SubSeq(s, n + 1, Len(s))
  BY <1>3 DEF Push!RoomIn
<1>5. CASE n \in Nat
  <2> HIDE DEF n
  <2> QED  BY <1>4, <1>5, SuffixIs
<1>6. CASE n \notin Nat
  BY <1>1, <1>2, <1>6
<1> QED  BY <1>5, <1>6

-----------------------------------------------------------------------------
LEMMA EntryTyped ==
  ASSUME Push!PushTypeOK, NEW ev \in Push!Event
  PROVE  /\ Push!EntryFor(ev) \in Push!TripEntry /\ Push!EntryFor(ev).trip = ev.trip
         /\ Push!LedgerFor(ev) \in Seq(Push!TripEntry)
         /\ Len(Push!LedgerFor(ev)) \in Nat
<1>1. ledger \in Seq(Push!TripEntry) /\ ev.trip \in Trip /\ ev.nth \in Nat
  BY DEF Push!PushTypeOK, Push!Event
<1>2. Push!EntryFor(ev) \in Push!TripEntry /\ Push!EntryFor(ev).trip = ev.trip
  <2>1. CASE Push!Found(ev.trip) # {}
    <3>1. PICK i \in Push!Found(ev.trip) : Push!EntryFor(ev) = ledger[i]
      BY <2>1 DEF Push!EntryFor
    <3>2. i \in 1..Len(ledger) /\ ledger[i].trip = ev.trip
      BY DEF Push!Found, Push!Of
    <3> QED  BY <1>1, <3>1, <3>2
  <2>2. CASE Push!Found(ev.trip) = {}
    BY <1>1, <2>2 DEF Push!EntryFor, Push!TripEntry
  <2> QED  BY <2>1, <2>2
<1>3. Push!LedgerFor(ev) \in Seq(Push!TripEntry)
  <2>1. CASE Push!Found(ev.trip) # {}
    BY <1>1, <2>1 DEF Push!LedgerFor
  <2>2. CASE Push!Found(ev.trip) = {}
    <3>1. Push!Of(ev.trip, ledger) \in SUBSET (1..Len(ledger))
      BY DEF Push!Of
    <3>2. Push!Without(ev.trip, ledger) \in Seq(Push!TripEntry)
      BY <1>1, <3>1, DeletedIs DEF Push!Without
    <3>3. Push!RoomIn(Push!Without(ev.trip, ledger)) \in Seq(Push!TripEntry)
      BY <3>2, RoomIs
    <3> QED  BY <1>2, <2>2, <3>3 DEF Push!LedgerFor
  <2> QED  BY <2>1, <2>2
<1> QED  BY <1>2, <1>3

(* The entry of an event, as its handler leaves it.                        *)
Entry(ev) == [Push!EntryFor(ev) EXCEPT !.driverCancelled = @ \/ ev.kind = "searching"]

Sent(ev) == IF Push!Capped(Entry(ev)) THEN Entry(ev) ELSE [Entry(ev) EXCEPT !.sent = @ + 1]

After(ev) == Push!Replacing(Push!LedgerFor(ev), Sent(ev))

NewNotice(ev) ==
  [at |-> ev.nth, chain |-> Entry(ev).chain, type |-> Push!TypeFor(ev), to |-> ev.to,
   tokens |-> {}, stage |-> "submitted", late |-> FALSE]

Closes(ev) == ev.kind \in {"ended", "no_driver"}

LEMMA HandleIs ==
  ASSUME Push!PushTypeOK, Push!HandleEvent
  PROVE  \E ev \in Push!Event :
           /\ events # <<>> /\ Len(events) \in Nat \ {0} /\ ev = events[1]
           /\ ledger' = IF Closes(ev) THEN Push!Without(ev.trip, After(ev)) ELSE After(ev)
           /\ lost' = IF Closes(ev)
                      THEN [Push!Losing(Push!ForgottenFor(ev)) EXCEPT ![ev.trip] = @ \cup {ev.nth}]
                      ELSE Push!Losing(Push!ForgottenFor(ev))
           /\ notices' = IF Push!Capped(Entry(ev)) THEN notices
                         ELSE [notices EXCEPT ![ev.trip] = Append(@, NewNotice(ev))]
           /\ events' = Tail(events)
           /\ UNCHANGED <<committed, emitted, drops, received, devices, trimming, untrimmed>>
<1>1. events \in Seq(Push!Event) /\ events # <<>>
  BY DEF Push!PushTypeOK, Push!HandleEvent
<1>2. Head(events) \in Push!Event /\ Head(events) = events[1] /\ Len(events) \in Nat \ {0}
  BY <1>1
<1> USE <1>2
<1>3. WITNESS Head(events) \in Push!Event
<1> QED
  BY <1>1, <1>2 DEF Push!HandleEvent, Push!deviceVars, Closes, After, Sent, Entry, NewNotice

LEMMA AfterTyped ==
  ASSUME Push!PushTypeOK, NEW ev \in Push!Event
  PROVE  /\ Entry(ev) \in Push!TripEntry /\ Entry(ev).trip = ev.trip
         /\ Sent(ev) \in Push!TripEntry /\ Sent(ev).trip = ev.trip
         /\ After(ev) \in Seq(Push!TripEntry) /\ Len(After(ev)) = Len(Push!LedgerFor(ev))
         /\ \A i \in 1..Len(After(ev)) :
              After(ev)[i] = IF Push!LedgerFor(ev)[i].trip = ev.trip THEN Sent(ev) ELSE Push!LedgerFor(ev)[i]
<1>1. Entry(ev) \in Push!TripEntry /\ Entry(ev).trip = ev.trip
  BY EntryTyped DEF Entry, Push!TripEntry
<1>2. Sent(ev) \in Push!TripEntry /\ Sent(ev).trip = ev.trip
  BY <1>1 DEF Sent, Push!TripEntry
<1>3. After(ev) = [i \in 1..Len(Push!LedgerFor(ev)) |->
                     IF Push!LedgerFor(ev)[i].trip = ev.trip THEN Sent(ev) ELSE Push!LedgerFor(ev)[i]]
  BY <1>2 DEF After, Push!Replacing
<1>4. Push!LedgerFor(ev) \in Seq(Push!TripEntry) /\ Len(Push!LedgerFor(ev)) \in Nat
  BY EntryTyped
<1>5. /\ After(ev) \in Seq(Push!TripEntry) /\ Len(After(ev)) = Len(Push!LedgerFor(ev))
  BY <1>2, <1>3, <1>4
<1> QED  BY <1>1, <1>2, <1>3, <1>5

-----------------------------------------------------------------------------
(* What a send, and a step about the phones, leaves.                       *)

(* A notice that was submitted goes on: m is how far it is.                *)
GoesOn(t, i, m) ==
  /\ i \in 1..Len(notices[t]) /\ notices[t][i].stage # "done"
  /\ m \in Push!Notice
  /\ LET n == notices[t][i]
     IN  /\ m.at = n.at /\ m.chain = n.chain /\ m.type = n.type /\ m.to = n.to
         /\ n.late => m.late
  /\ Push!Moves(t, i, m)

LEMMA NoticeOf ==
  ASSUME Push!PushTypeOK, NEW t \in Trip
  PROVE  /\ notices[t] \in Seq(Push!Notice) /\ Len(notices[t]) \in Nat
         /\ \A i \in 1..Len(notices[t]) : notices[t][i] \in Push!Notice
BY DEF Push!PushTypeOK

LEMMA GoneOn ==
  ASSUME Push!PushTypeOK, NEW t \in Trip, NEW i, NEW m, GoesOn(t, i, m)
  PROVE  /\ notices' \in [Trip -> Seq(Push!Notice)]
         /\ \A u \in Trip : Len(notices'[u]) = Len(notices[u])
         /\ \A u \in Trip : \A k \in 1..Len(notices[u]) :
              notices'[u][k] = IF u = t /\ k = i THEN m ELSE notices[u][k]
<1> DEFINE s == [notices[t] EXCEPT ![i] = m]
<1>1. i \in 1..Len(notices[t]) /\ m \in Push!Notice /\ notices' = [notices EXCEPT ![t] = s]
  BY DEF GoesOn, Push!Moves
<1>2. notices[t] \in Seq(Push!Notice) /\ notices \in [Trip -> Seq(Push!Notice)]
  BY NoticeOf DEF Push!PushTypeOK
<1>3. /\ s \in Seq(Push!Notice) /\ Len(s) = Len(notices[t])
      /\ \A k \in 1..Len(notices[t]) : s[k] = IF k = i THEN m ELSE notices[t][k]
  BY <1>1, <1>2
<1> HIDE DEF s
<1> QED  BY <1>1, <1>2, <1>3

LEMMA NoticeMoved ==
  ASSUME NEW n \in Push!Notice, NEW stage \in {"submitted", "listed", "done"}, NEW tokens \in SUBSET Token
  PROVE  /\ [n EXCEPT !.stage = stage, !.tokens = tokens] \in Push!Notice
         /\ [n EXCEPT !.late = TRUE] \in Push!Notice
         /\ \A m \in {[n EXCEPT !.stage = stage, !.tokens = tokens], [n EXCEPT !.late = TRUE]} :
              m.at = n.at /\ m.chain = n.chain /\ m.type = n.type /\ m.to = n.to /\ (n.late => m.late)
         /\ [n EXCEPT !.stage = stage, !.tokens = tokens].stage = stage
BY DEF Push!Notice

(* What a send does to its notice.                                         *)
LEMMA SendGoesOn ==
  ASSUME Push!PushTypeOK, NEW t \in Trip, NEW i
  PROVE  /\ Push!ListByUser(t, i) => \E m : GoesOn(t, i, m)
         /\ \A gone : Push!SendPushNotifications(t, i, gone) => \E m : GoesOn(t, i, m) /\ m.stage = "done"
         /\ Push!SendFails(t, i) => \E m : GoesOn(t, i, m)
         /\ Push!SendTimesOut(t, i) => \E m : GoesOn(t, i, m)
<1> DEFINE n == notices[t][i]
<1>1. ASSUME NEW stage \in {"submitted", "listed"}, Push!Sending(t, i, stage)
      PROVE  /\ i \in 1..Len(notices[t]) /\ n.stage # "done" /\ n \in Push!Notice
  BY <1>1, NoticeOf DEF Push!Sending
<1>2. ASSUME i \in 1..Len(notices[t]), n.stage # "done", n \in Push!Notice,
             NEW stage \in {"submitted", "listed", "done"}, NEW tokens \in SUBSET Token,
             Push!Moves(t, i, [n EXCEPT !.stage = stage, !.tokens = tokens])
      PROVE  \E m : GoesOn(t, i, m) /\ m.stage = stage
  <2> DEFINE m == [n EXCEPT !.stage = stage, !.tokens = tokens]
  <2>1. /\ m \in Push!Notice /\ m.at = n.at /\ m.chain = n.chain /\ m.type = n.type /\ m.to = n.to
        /\ (n.late => m.late) /\ m.stage = stage /\ Push!Moves(t, i, m)
    <3> HIDE DEF n
    <3>1. Push!Moves(t, i, m) /\ n \in Push!Notice
      BY <1>2
    <3>2. m \in Push!Notice /\ m.stage = stage
      BY <3>1 DEF Push!Notice
    <3>3. m.at = n.at /\ m.chain = n.chain /\ m.type = n.type /\ m.to = n.to /\ (n.late => m.late)
      BY <3>1 DEF Push!Notice
    <3> QED  BY <3>1, <3>2, <3>3
  <2> HIDE DEF m
  <2>2. GoesOn(t, i, m)
    BY <1>2, <2>1 DEF GoesOn
  <2> QED  BY <2>1, <2>2
<1>3. ASSUME i \in 1..Len(notices[t]), n.stage # "done", n \in Push!Notice, Push!Finished(t, i)
      PROVE  \E m : GoesOn(t, i, m) /\ m.stage = "done"
  <2>1. Push!Moves(t, i, [n EXCEPT !.stage = "done", !.tokens = {}])
    BY <1>3 DEF Push!Finished
  <2>2. "done" \in {"submitted", "listed", "done"} /\ {} \in SUBSET Token
    OBVIOUS
  <2> HIDE DEF n
  <2> QED  BY <1>2, <1>3, <2>1, <2>2
<1>4. ASSUME Push!ListByUser(t, i)
      PROVE  \E m : GoesOn(t, i, m)
  <2> DEFINE tokens == Push!Devices(n.to)
  <2>1. i \in 1..Len(notices[t]) /\ n.stage # "done" /\ n \in Push!Notice
    BY <1>1, <1>4 DEF Push!ListByUser
  <2>2. tokens \in SUBSET Token
    <3>1. devices \in Seq([token : Token, user : Passenger])
      BY DEF Push!PushTypeOK
    <3>2. \A k \in 1..Len(devices) : devices[k].token \in Token
      <4>1. \A k \in 1..Len(devices) : devices[k] \in [token : Token, user : Passenger]
        BY <3>1, ElementOfSeq
      <4> QED  BY <4>1
    <3> QED  BY <3>2 DEF Push!Devices
  <2>3. CASE Push!Finished(t, i)
    BY <1>3, <2>1, <2>3
  <2>4. CASE Push!Moves(t, i, [n EXCEPT !.stage = "listed", !.tokens = tokens])
    <3> HIDE DEF tokens
    <3> QED  BY <1>2, <2>1, <2>2, <2>4
  <2> QED  BY <1>4, <2>3, <2>4 DEF Push!ListByUser
<1>5. ASSUME NEW gone, Push!SendPushNotifications(t, i, gone)
      PROVE  \E m : GoesOn(t, i, m) /\ m.stage = "done"
  BY <1>1, <1>3, <1>5 DEF Push!SendPushNotifications
<1>6. ASSUME Push!SendFails(t, i)
      PROVE  \E m : GoesOn(t, i, m)
  BY <1>1, <1>3, <1>6 DEF Push!SendFails
<1>7. ASSUME Push!SendTimesOut(t, i)
      PROVE  \E m : GoesOn(t, i, m)
  <2> DEFINE m == [n EXCEPT !.late = TRUE]
  <2>1. i \in 1..Len(notices[t]) /\ n.stage # "done" /\ n \in Push!Notice /\ Push!Moves(t, i, m)
    BY <1>1, <1>7 DEF Push!SendTimesOut
  <2>2. /\ m \in Push!Notice /\ m.at = n.at /\ m.chain = n.chain /\ m.type = n.type /\ m.to = n.to
        /\ (n.late => m.late)
    BY <2>1, NoticeMoved
  <2> HIDE DEF m
  <2> QED  BY <2>1, <2>2 DEF GoesOn
<1> QED  BY <1>4, <1>5, <1>6, <1>7

LEMMA DevicesTyped ==
  ASSUME Push!PushTypeOK, NEW tok
  PROVE  /\ Push!WithoutToken(tok) \in Seq([token : Token, user : Passenger])
         /\ \E g : Drawn(Push!WithoutToken(tok), devices, g)
         /\ \A u : Push!Devices(u) \subseteq Token
<1>1. devices \in Seq([token : Token, user : Passenger])
  BY DEF Push!PushTypeOK
<1> DEFINE P == { i \in 1..Len(devices) : devices[i].token = tok }
<1>2. Push!WithoutToken(tok) = Push!Deleted(devices, P) /\ P \in SUBSET (1..Len(devices))
  BY DEF Push!WithoutToken
<1> HIDE DEF P
<1>3. /\ Push!WithoutToken(tok) \in Seq([token : Token, user : Passenger])
      /\ \E g : Drawn(Push!WithoutToken(tok), devices, g)
  BY <1>1, <1>2, DeletedIs
<1>4. \A k \in 1..Len(devices) : devices[k] \in [token : Token, user : Passenger]
  BY <1>1, ElementOfSeq
<1> QED  BY <1>3, <1>4 DEF Push!Devices

(* The steps that are about the phones of the passengers.                  *)
DeviceStep(u, tok, n) ==
  \/ u \in Passenger /\ tok \in Token /\ (Push!Register(u, tok) \/ Push!Revoke(u, tok))
  \/ u \in Passenger /\ (Push!Trim(u) \/ Push!TrimFails(u))
  \/ Push!Drop(tok) \/ Push!PurgeStale(n)

LEMMA DeviceStepTyped ==
  ASSUME Push!PushTypeOK, NEW u, NEW tok, NEW n, DeviceStep(u, tok, n)
  PROVE  /\ devices' \in Seq([token : Token, user : Passenger])
         /\ drops' \subseteq Token
         /\ trimming' \in [Passenger -> Nat] /\ untrimmed' \in [Passenger -> Nat]
         /\ UNCHANGED <<committed, events, ledger, emitted, lost, notices, received>>
<1> DEFINE Device == [token : Token, user : Passenger]
<1>1. /\ devices \in Seq(Device) /\ drops \subseteq Token
      /\ trimming \in [Passenger -> Nat] /\ untrimmed \in [Passenger -> Nat]
  BY DEF Push!PushTypeOK
<1>2. /\ Push!WithoutToken(tok) \in Seq(Device)
      /\ u \in Passenger /\ tok \in Token => [token |-> tok, user |-> u] \in Device
  BY DevicesTyped
<1> USE DEF Push!ledgerVars
<1> HIDE DEF Device
<1>3. CASE u \in Passenger /\ tok \in Token /\ Push!Register(u, tok)
  BY <1>1, <1>2, <1>3 DEF Push!Register, Device
<1>4. CASE u \in Passenger /\ Push!Trim(u)
  <2>1. PICK I \in SUBSET (1..Len(devices)) :
          \E place \in [1..Push!Cardinality(I) -> I] : devices' = [k \in DOMAIN place |-> devices[place[k]]]
    BY <1>4 DEF Push!Trim
  <2>2. PICK place \in [1..Push!Cardinality(I) -> I] : devices' = [k \in DOMAIN place |-> devices[place[k]]]
    BY <2>1
  <2>3. Push!Cardinality(I) \in Nat
    <3>1. Len(devices) \in Nat
      BY <1>1
    <3>2. IsFiniteSet(I)
      <4>1. IsFiniteSet(1..Len(devices))
        BY <3>1, FS_Interval
      <4> QED  BY <4>1, FS_Subset
    <3> QED  BY <3>2, SameCount, FS_CardinalityType
  <2>4. devices' \in Seq(Device)
    <3>1. \A k \in 1..Push!Cardinality(I) : place[k] \in 1..Len(devices)
      BY <2>2
    <3>2. \A k \in 1..Push!Cardinality(I) : devices[place[k]] \in Device
      BY <1>1, <3>1, ElementOfSeq
    <3>3. devices' = [k \in 1..Push!Cardinality(I) |-> devices[place[k]]]
      BY <2>2
    <3> QED  BY <2>3, <3>2, <3>3
  <2>5. trimming[u] > 0
    BY <1>4 DEF Push!Trim
  <2> QED  BY <1>1, <1>4, <2>4, <2>5 DEF Push!Trim, Device
<1>5. CASE u \in Passenger /\ Push!TrimFails(u)
  BY <1>1, <1>5 DEF Push!TrimFails, Device
<1>6. CASE u \in Passenger /\ tok \in Token /\ Push!Revoke(u, tok)
  BY <1>1, <1>2, <1>6 DEF Push!Revoke, Device
<1>7. CASE Push!Drop(tok)
  BY <1>1, <1>2, <1>7 DEF Push!Drop, Device
<1>8. CASE Push!PurgeStale(n)
  <2>1. n \in 1..Len(devices) /\ devices' = SubSeq(devices, n + 1, Len(devices))
    BY <1>8 DEF Push!PurgeStale
  <2>2. n \in Nat
    BY <2>1
  <2>3. devices' \in Seq(Device)
    BY <1>1, <2>1, <2>2, SuffixIs
  <2> QED  BY <1>1, <1>8, <2>3 DEF Push!PurgeStale, Device
<1> QED  BY <1>3, <1>4, <1>5, <1>6, <1>7, <1>8 DEF DeviceStep

-----------------------------------------------------------------------------
(* The events of a trip wait in line.                                      *)

LEMMA PlacesFinite ==
  ASSUME NEW n \in Nat, NEW P \in SUBSET (1..n)
  PROVE  IsFiniteSet(P) /\ Cardinality(P) \in Nat
<1>1. IsFiniteSet(1..n)
  BY FS_Interval
<1> QED  BY <1>1, FS_Subset, FS_CardinalityType

(* How many elements are a trip's, when one is appended or the first goes. *)
LEMMA OfAppend ==
  ASSUME NEW S, NEW s \in Seq(S), NEW e \in S, NEW t
  PROVE  LET n == Cardinality(Push!Of(t, s))
         IN  Cardinality(Push!Of(t, Append(s, e))) = IF e.trip = t THEN n + 1 ELSE n
<1> DEFINE r == Append(s, e)
           l == Len(s) + 1
<1>1. /\ Len(s) \in Nat /\ l \in Nat /\ l \notin 1..Len(s) /\ 1..l = (1..Len(s)) \cup {l}
      /\ Len(r) = l /\ r[l] = e /\ \A i \in 1..Len(s) : r[i] = s[i]
  OBVIOUS
<1> HIDE DEF r, l
<1>2. /\ Push!Of(t, s) = { i \in 1..Len(s) : s[i].trip = t }
      /\ Push!Of(t, r) = { i \in 1..l : r[i].trip = t }
  BY <1>1 DEF Push!Of
<1>3. IsFiniteSet(Push!Of(t, s))
  BY <1>1, <1>2, PlacesFinite
<1>4. CASE e.trip = t
  <2>1. Push!Of(t, r) = Push!Of(t, s) \cup {l} /\ l \notin Push!Of(t, s)
    BY <1>1, <1>2, <1>4
  <2> QED  BY <1>3, <1>4, <2>1, FS_AddElement DEF r
<1>5. CASE e.trip # t
  <2>1. Push!Of(t, r) = Push!Of(t, s)
    BY <1>1, <1>2, <1>5
  <2> QED  BY <1>5, <2>1 DEF r
<1> QED  BY <1>4, <1>5

LEMMA OfTail ==
  ASSUME NEW S, NEW s \in Seq(S), s # <<>>, NEW t
  PROVE  LET n == Cardinality(Push!Of(t, s))
         IN  Cardinality(Push!Of(t, Tail(s))) = IF s[1].trip = t THEN n - 1 ELSE n
<1> DEFINE r == Tail(s)
           P == Push!Of(t, s) \ {1}
           Q == Push!Of(t, r)
           f == [i \in Q |-> i + 1]
<1>1. /\ Len(s) \in Nat \ {0} /\ Len(r) = Len(s) - 1 /\ \A i \in 1..Len(r) : r[i] = s[i + 1]
  OBVIOUS
<1> HIDE DEF r
<1>2. /\ Push!Of(t, s) = { i \in 1..Len(s) : s[i].trip = t }
      /\ Q = { i \in 1..Len(r) : r[i].trip = t }
  BY <1>1 DEF Push!Of
<1>3. IsFiniteSet(Q) /\ IsFiniteSet(Push!Of(t, s))
  <2>1. Len(r) \in Nat /\ Len(s) \in Nat
    BY <1>1
  <2>2. Q \in SUBSET (1..Len(r)) /\ Push!Of(t, s) \in SUBSET (1..Len(s))
    BY <1>2
  <2> QED  BY <2>1, <2>2, PlacesFinite
<1>4. f \in Bijection(Q, P)
  <2>1. f \in [Q -> P]
    BY <1>1, <1>2
  <2>2. \A i, j \in Q : f[i] = f[j] => i = j
    BY <1>1, <1>2
  <2>3. ASSUME NEW j \in P PROVE \E i \in Q : f[i] = j
    <3>1. j - 1 \in 1..Len(r) /\ (j - 1) + 1 = j /\ s[j].trip = t
      BY <1>1, <1>2
    <3>2. j - 1 \in Q
      BY <1>1, <1>2, <3>1
    <3> QED  BY <3>1, <3>2
  <2> HIDE DEF f, P, Q
  <2>4. f \in Injection(Q, P)
    BY <2>1, <2>2 DEF Injection, IsInjective
  <2>5. f \in Surjection(Q, P)
    BY <2>1, <2>3 DEF Surjection
  <2> QED  BY <2>4, <2>5 DEF Bijection
<1>5. Cardinality(P) = Cardinality(Q)
  <2> HIDE DEF f, P, Q
  <2>1. ExistsBijection(Q, P)
    BY <1>4 DEF ExistsBijection
  <2> QED  BY <1>3, <2>1, FS_Bijection
<1>6. Cardinality(P) = IF 1 \in Push!Of(t, s) THEN Cardinality(Push!Of(t, s)) - 1 ELSE Cardinality(Push!Of(t, s))
  BY <1>3, FS_RemoveElement
<1>7. 1 \in Push!Of(t, s) <=> s[1].trip = t
  BY <1>1, <1>2
<1> QED  BY <1>5, <1>6, <1>7 DEF r

(* es, the events waiting, are the last that em, those emitted, tells of   *)
(* each trip, one after the other; h counts those handled.                 *)
InLine(es, h, em) ==
  \A i \in 1..Len(es) :
    /\ h[es[i].trip] < es[i].nth /\ es[i].nth <= Len(em[es[i].trip])
    /\ em[es[i].trip][es[i].nth] = es[i].kind
    /\ \/ es[i].nth = h[es[i].trip] + 1
       \/ \E j \in 1..(i - 1) : es[j].trip = es[i].trip /\ es[j].nth + 1 = es[i].nth
    /\ \A j \in 1..(i - 1) : es[j].trip = es[i].trip => es[j].nth < es[i].nth

(* The last of each trip is there.                                         *)
LastWaits(es, h, em) ==
  \A t \in Trip : h[t] = Len(em[t]) \/ \E j \in 1..Len(es) : es[j].trip = t /\ es[j].nth = Len(em[t])

LEMMA EventsTyped ==
  ASSUME NEW es \in Seq(Push!Event)
  PROVE  /\ Len(es) \in Nat
         /\ \A i \in 1..Len(es) : es[i].trip \in Trip /\ es[i].nth \in Nat /\ es[i].kind \in Push!Noticed
                                  /\ es[i].to \in Passenger
<1>1. \A i \in 1..Len(es) : es[i] \in Push!Event
  BY ElementOfSeq
<1> QED  BY <1>1 DEF Push!Event

LEMMA InLineAppend ==
  ASSUME NEW es \in Seq(Push!Event), NEW h \in [Trip -> Nat], NEW em \in [Trip -> Seq(Push!Noticed)],
         InLine(es, h, em), LastWaits(es, h, em), \A t \in Trip : h[t] <= Len(em[t]),
         NEW e \in Push!Event, e.nth = Len(em[e.trip]) + 1,
         NEW fm, fm = [em EXCEPT ![e.trip] = Append(@, e.kind)]
  PROVE  InLine(Append(es, e), h, fm) /\ LastWaits(Append(es, e), h, fm)
<1> DEFINE r == Append(es, e)
           n == Len(es)
<1>1. /\ n \in Nat /\ Len(r) = n + 1 /\ r[n + 1] = e /\ \A i \in 1..n : r[i] = es[i]
  OBVIOUS
<1>2. /\ e.trip \in Trip /\ e.kind \in Push!Noticed /\ e.nth \in Nat
      /\ \A i \in 1..n : es[i].trip \in Trip /\ es[i].nth \in Nat
  BY EventsTyped DEF Push!Event
<1>3. \A t \in Trip : /\ Len(em[t]) \in Nat /\ em[t] \in Seq(Push!Noticed) /\ h[t] \in Nat
                      /\ Len(fm[t]) = IF t = e.trip THEN Len(em[t]) + 1 ELSE Len(em[t])
                      /\ \A m \in 1..Len(em[t]) : fm[t][m] = em[t][m]
                      /\ t = e.trip => fm[t][Len(em[t]) + 1] = e.kind
  BY <1>2
<1> HIDE DEF r, n
<1>4. ASSUME NEW i \in 1..(n + 1)
      PROVE  /\ h[r[i].trip] < r[i].nth /\ r[i].nth <= Len(fm[r[i].trip])
             /\ fm[r[i].trip][r[i].nth] = r[i].kind
             /\ \/ r[i].nth = h[r[i].trip] + 1
                \/ \E j \in 1..(i - 1) : r[j].trip = r[i].trip /\ r[j].nth + 1 = r[i].nth
             /\ \A j \in 1..(i - 1) : r[j].trip = r[i].trip => r[j].nth < r[i].nth
  <2>1. CASE i \in 1..n
    <3>1. r[i] = es[i] /\ \A j \in 1..(i - 1) : r[j] = es[j]
      BY <1>1, <2>1
    <3>2. /\ h[es[i].trip] < es[i].nth /\ es[i].nth <= Len(em[es[i].trip])
          /\ em[es[i].trip][es[i].nth] = es[i].kind
          /\ \/ es[i].nth = h[es[i].trip] + 1
             \/ \E j \in 1..(i - 1) : es[j].trip = es[i].trip /\ es[j].nth + 1 = es[i].nth
          /\ \A j \in 1..(i - 1) : es[j].trip = es[i].trip => es[j].nth < es[i].nth
      BY <2>1 DEF InLine, n
    <3>3. es[i].nth \in 1..Len(em[es[i].trip]) /\ es[i].nth <= Len(fm[es[i].trip])
      BY <1>2, <1>3, <2>1, <3>2
    <3>4. fm[es[i].trip][es[i].nth] = es[i].kind
      BY <1>2, <1>3, <2>1, <3>2, <3>3
    <3> QED  BY <3>1, <3>2, <3>3, <3>4
  <2>2. CASE i = n + 1
    <3>1. r[i] = e /\ i - 1 = n
      BY <1>1, <2>2
    <3>2. h[e.trip] < e.nth /\ e.nth <= Len(fm[e.trip]) /\ fm[e.trip][e.nth] = e.kind
      BY <1>2, <1>3
    <3>3. e.nth = h[e.trip] + 1 \/ \E j \in 1..n : r[j].trip = e.trip /\ r[j].nth + 1 = e.nth
      <4>1. h[e.trip] = Len(em[e.trip]) \/ \E j \in 1..n : es[j].trip = e.trip /\ es[j].nth = Len(em[e.trip])
        BY <1>2 DEF LastWaits, n
      <4> QED  BY <1>1, <4>1
    <3>4. ASSUME NEW j \in 1..n, r[j].trip = e.trip PROVE r[j].nth < e.nth
      <4>1. es[j].nth <= Len(em[es[j].trip]) /\ es[j].nth \in Nat
        BY <1>2 DEF InLine, n
      <4>2. r[j] = es[j] /\ Len(em[e.trip]) \in Nat
        BY <1>1, <1>2, <1>3
      <4> QED  BY <3>4, <4>1, <4>2
    <3> QED  BY <3>1, <3>2, <3>3, <3>4
  <2>3. i \in 1..n \/ i = n + 1
    BY <1>1
  <2> QED  BY <2>1, <2>2, <2>3
<1>5. InLine(r, h, fm)
  BY <1>1, <1>4 DEF InLine
<1>6. ASSUME NEW t \in Trip
      PROVE  h[t] = Len(fm[t]) \/ \E j \in 1..Len(r) : r[j].trip = t /\ r[j].nth = Len(fm[t])
  <2>1. CASE t = e.trip
    <3>1. n + 1 \in 1..Len(r) /\ r[n + 1].trip = t /\ r[n + 1].nth = Len(fm[t])
      BY <1>1, <1>3, <2>1
    <3> QED  BY <3>1
  <2>2. CASE t # e.trip
    <3>1. Len(fm[t]) = Len(em[t])
      BY <1>3, <2>2
    <3>2. h[t] = Len(em[t]) \/ \E j \in 1..n : es[j].trip = t /\ es[j].nth = Len(em[t])
      BY DEF LastWaits, n
    <3> QED  BY <1>1, <3>1, <3>2
  <2> QED  BY <2>1, <2>2
<1> QED  BY <1>5, <1>6 DEF LastWaits, r

LEMMA InLineTail ==
  ASSUME NEW es \in Seq(Push!Event), NEW h \in [Trip -> Nat], NEW em \in [Trip -> Seq(Push!Noticed)],
         InLine(es, h, em), LastWaits(es, h, em), es # <<>>,
         NEW g, g = [h EXCEPT ![es[1].trip] = @ + 1]
  PROVE  /\ es[1].nth = h[es[1].trip] + 1
         /\ em[es[1].trip][es[1].nth] = es[1].kind /\ es[1].nth <= Len(em[es[1].trip])
         /\ InLine(Tail(es), g, em) /\ LastWaits(Tail(es), g, em)
<1> DEFINE r == Tail(es)
           n == Len(es)
           t == es[1].trip
<1>1. /\ n \in Nat \ {0} /\ Len(r) = n - 1 /\ 1 \in 1..n /\ \A i \in 1..(n - 1) : r[i] = es[i + 1] /\ i + 1 \in 1..n
  OBVIOUS
<1>2. \A i \in 1..n : es[i].trip \in Trip /\ es[i].nth \in Nat
  BY EventsTyped
<1>3. \A u \in Trip : Len(em[u]) \in Nat /\ h[u] \in Nat /\ g[u] = IF u = t THEN h[u] + 1 ELSE h[u]
  BY <1>1, <1>2
<1>4. ASSUME NEW i \in 1..n
      PROVE  /\ h[es[i].trip] < es[i].nth /\ es[i].nth <= Len(em[es[i].trip])
             /\ em[es[i].trip][es[i].nth] = es[i].kind
             /\ \/ es[i].nth = h[es[i].trip] + 1
                \/ \E j \in 1..(i - 1) : es[j].trip = es[i].trip /\ es[j].nth + 1 = es[i].nth
             /\ \A j \in 1..(i - 1) : es[j].trip = es[i].trip => es[j].nth < es[i].nth
  BY DEF InLine
<1>5. es[1].nth = h[t] + 1 /\ t \in Trip
  <2>1. ~\E j \in 1..(1 - 1) : TRUE
    OBVIOUS
  <2>2. \/ es[1].nth = h[es[1].trip] + 1
        \/ \E j \in 1..(1 - 1) : es[j].trip = es[1].trip /\ es[j].nth + 1 = es[1].nth
    BY <1>1, <1>4
  <2> QED  BY <1>1, <1>2, <2>1, <2>2
<1>6. \A i \in 1..n : i # 1 /\ es[i].trip = t => h[t] + 1 < es[i].nth
  <2> SUFFICES ASSUME NEW i \in 1..n, i # 1, es[i].trip = t PROVE h[t] + 1 < es[i].nth
    OBVIOUS
  <2>1. 1 \in 1..(i - 1)
    BY <1>1
  <2> QED  BY <1>4, <1>5, <2>1
<1> HIDE DEF r, n, t
<1>7. ASSUME NEW i \in 1..(n - 1)
      PROVE  /\ g[r[i].trip] < r[i].nth /\ r[i].nth <= Len(em[r[i].trip])
             /\ em[r[i].trip][r[i].nth] = r[i].kind
             /\ \/ r[i].nth = g[r[i].trip] + 1
                \/ \E j \in 1..(i - 1) : r[j].trip = r[i].trip /\ r[j].nth + 1 = r[i].nth
             /\ \A j \in 1..(i - 1) : r[j].trip = r[i].trip => r[j].nth < r[i].nth
  <2> DEFINE k == i + 1
  <2>1. k \in 1..n /\ k # 1 /\ r[i] = es[k] /\ k - 1 = i
    BY <1>1
  <2> HIDE DEF k
  <2>2. /\ h[es[k].trip] < es[k].nth /\ es[k].nth <= Len(em[es[k].trip])
        /\ em[es[k].trip][es[k].nth] = es[k].kind
        /\ \/ es[k].nth = h[es[k].trip] + 1
           \/ \E j \in 1..i : es[j].trip = es[k].trip /\ es[j].nth + 1 = es[k].nth
        /\ \A j \in 1..i : es[j].trip = es[k].trip => es[j].nth < es[k].nth
    BY <1>4, <2>1
  <2>3. g[es[k].trip] < es[k].nth
    BY <1>2, <1>3, <1>6, <2>1, <2>2
  <2>4. \A j \in 1..(i - 1) : r[j] = es[j + 1] /\ j + 1 \in 1..i
    BY <1>1
  <2>5. \A j \in 1..(i - 1) : r[j].trip = r[i].trip => r[j].nth < r[i].nth
    BY <2>1, <2>2, <2>4
  <2>6. es[k].nth = g[es[k].trip] + 1
        \/ \E j \in 1..(i - 1) : r[j].trip = es[k].trip /\ r[j].nth + 1 = es[k].nth
    <3>1. CASE es[k].nth = h[es[k].trip] + 1
      <4>1. es[k].trip # t
        BY <1>2, <1>3, <1>5, <1>6, <2>1, <3>1
      <4> QED  BY <1>2, <1>3, <2>1, <3>1, <4>1
    <3>2. ASSUME NEW j \in 1..i, es[j].trip = es[k].trip, es[j].nth + 1 = es[k].nth
          PROVE  es[k].nth = g[es[k].trip] + 1
                 \/ \E l \in 1..(i - 1) : r[l].trip = es[k].trip /\ r[l].nth + 1 = es[k].nth
      <4>1. CASE j = 1
        BY <1>2, <1>3, <1>5, <2>1, <3>2, <4>1 DEF t
      <4>2. CASE j # 1
        <5>1. j - 1 \in 1..(i - 1) /\ (j - 1) + 1 = j
          BY <1>1, <4>2
        <5>2. r[j - 1] = es[j]
          BY <2>4, <5>1
        <5> QED  BY <3>2, <5>1, <5>2
      <4> QED  BY <4>1, <4>2
    <3> QED  BY <2>2, <3>1, <3>2
  <2> QED  BY <2>1, <2>2, <2>3, <2>5, <2>6
<1>8. InLine(r, g, em)
  BY <1>1, <1>7 DEF InLine
<1>9. ASSUME NEW u \in Trip
      PROVE  g[u] = Len(em[u]) \/ \E j \in 1..Len(r) : r[j].trip = u /\ r[j].nth = Len(em[u])
  <2>1. h[u] = Len(em[u]) \/ \E j \in 1..n : es[j].trip = u /\ es[j].nth = Len(em[u])
    BY DEF LastWaits, n
  <2>2. CASE h[u] = Len(em[u])
    <3>1. u # t
      <4>1. h[t] + 1 <= Len(em[t])
        BY <1>1, <1>4, <1>5 DEF t
      <4> QED  BY <1>3, <1>5, <2>2, <4>1
    <3> QED  BY <1>3, <2>2, <3>1
  <2>3. ASSUME NEW j \in 1..n, es[j].trip = u, es[j].nth = Len(em[u])
        PROVE  g[u] = Len(em[u]) \/ \E l \in 1..Len(r) : r[l].trip = u /\ r[l].nth = Len(em[u])
    <3>1. CASE j = 1
      BY <1>3, <1>5, <2>3, <3>1 DEF t
    <3>2. CASE j # 1
      <4>1. j - 1 \in 1..(n - 1) /\ (j - 1) + 1 = j
        BY <1>1, <3>2
      <4>2. r[j - 1] = es[j]
        BY <1>1, <4>1
      <4> QED  BY <1>1, <2>3, <4>1, <4>2
    <3> QED  BY <3>1, <3>2
  <2> QED  BY <2>1, <2>2, <2>3
<1>10. LastWaits(r, g, em)
  BY <1>9 DEF LastWaits
<1>11. em[es[1].trip][es[1].nth] = es[1].kind /\ es[1].nth <= Len(em[es[1].trip])
  BY <1>1, <1>4
<1> QED  BY <1>5, <1>8, <1>10, <1>11 DEF r, t

-----------------------------------------------------------------------------
(* What there is to remember of a trip, and that it stays so.              *)

(* What there is to remember of a trip: ns its notices, lo when its entry  *)
(* was lost, em the events emitted of it, h of them handled.               *)
LostIn(lo, m, n) == \E k \in lo : m <= k /\ k < n

Told(ns, lo, em) == ns \in Seq(Push!Notice) /\ lo \in SUBSET Nat /\ em \in Seq(Push!Noticed)

InTime(ns, lo, em, h) ==
  /\ h \in Nat /\ h <= Len(em)
  /\ \A k \in lo : k <= h
  /\ \A i \in 1..Len(ns) : ns[i].at <= h

(* The notices since the entry was lost for the last time.                 *)
Fresh(ns, lo) == { j \in 1..Len(ns) : \A k \in lo : k < ns[j].at }

Forgiven(em, lo, h) == \A m \in 1..h : em[m] = "searching" => \E k \in lo : m <= k

Blank(ns, lo, em, h) == Fresh(ns, lo) = {} /\ Forgiven(em, lo, h)

(* What an entry knows of the events handled since then.                   *)
Remembers(e, ns, lo, em, h) ==
  /\ \A j \in Fresh(ns, lo) : ns[j].chain = e.chain
  /\ Cardinality(Fresh(ns, lo)) <= e.sent
  /\ e.driverCancelled => \E m \in 1..h : em[m] = "searching"
  /\ ~e.driverCancelled => Forgiven(em, lo, h)

ChainsAt(i, ns, lo) ==
  \A j \in 1..(i - 1) : ns[j].chain = ns[i].chain \/ LostIn(lo, ns[j].at, ns[i].at)

GivenBack(m, n, em) == m < n.at /\ em[m] = "searching"

Counted(i, ns, lo) == { j \in 1..i : ~LostIn(lo, ns[j].at, ns[i].at) }

FitsAt(i, ns, lo, em) ==
  /\ ns[i].type = "reassigned" => \E m \in 1..Len(em) : GivenBack(m, ns[i], em)
  /\ ns[i].type = "assigned" => \A m \in 1..Len(em) : GivenBack(m, ns[i], em) => LostIn(lo, m, ns[i].at)
  /\ Cardinality(Counted(i, ns, lo)) <= MaxPerTrip

(* The i-th notice was received; those before it did not wait for it.      *)
CameAt(i, ns, lo) ==
  /\ i \in 1..Len(ns) /\ ns[i].stage = "done"
  /\ \A j \in 1..(i - 1) : ns[j].stage = "done" \/ ns[j].late \/ LostIn(lo, ns[j].at, ns[i].at)

FollowsAt(j, i, ns, lo) ==
  j # i /\ (j < i \/ ns[i].late \/ LostIn(lo, ns[i].at, ns[j].at))

(* Nothing that was known of the trip is taken back.                       *)
Prolongs(ns, ns2, lo, lo2, em, em2) ==
  /\ lo \subseteq lo2 /\ Len(ns) <= Len(ns2) /\ Len(em) <= Len(em2)
  /\ \A i \in 1..Len(ns) : /\ ns2[i].at = ns[i].at /\ ns2[i].chain = ns[i].chain /\ ns2[i].type = ns[i].type
                           /\ ns[i].stage = "done" => ns2[i].stage = "done"
                           /\ ns[i].late => ns2[i].late
  /\ \A m \in 1..Len(em) : em2[m] = em[m]

LEMMA ToldTyped ==
  ASSUME NEW ns, NEW lo, NEW em, Told(ns, lo, em)
  PROVE  /\ Len(ns) \in Nat /\ Len(em) \in Nat
         /\ \A i \in 1..Len(ns) : ns[i].at \in Nat /\ ns[i].chain \in Nat /\ ns[i].late \in BOOLEAN
         /\ IsFiniteSet(Fresh(ns, lo)) /\ Fresh(ns, lo) \subseteq 1..Len(ns)
         /\ \A i \in 1..Len(ns) : IsFiniteSet(Counted(i, ns, lo))
<1>1. ns \in Seq(Push!Notice) /\ em \in Seq(Push!Noticed)
  BY DEF Told
<1>2. \A i \in 1..Len(ns) : ns[i] \in Push!Notice
  BY <1>1, ElementOfSeq
<1>3. \A i \in 1..Len(ns) : ns[i].at \in Nat /\ ns[i].chain \in Nat /\ ns[i].late \in BOOLEAN
  BY <1>2 DEF Push!Notice
<1>4. Len(ns) \in Nat /\ Len(em) \in Nat
  BY <1>1
<1>5. Fresh(ns, lo) \in SUBSET (1..Len(ns))
  BY DEF Fresh
<1>6. \A i \in 1..Len(ns) : i \in Nat /\ Counted(i, ns, lo) \in SUBSET (1..i)
  BY DEF Counted
<1> QED  BY <1>3, <1>4, <1>5, <1>6, PlacesFinite

LEMMA LostStays ==
  ASSUME NEW lo, NEW lo2, lo \subseteq lo2, NEW m, NEW n, LostIn(lo, m, n)
  PROVE  LostIn(lo2, m, n)
BY DEF LostIn

LEMMA StaysFit ==
  ASSUME NEW ns, NEW lo, NEW em, NEW h, NEW ns2, NEW lo2, NEW em2,
         Told(ns, lo, em), Told(ns2, lo2, em2), InTime(ns, lo, em, h),
         Prolongs(ns, ns2, lo, lo2, em, em2)
  PROVE  \A i \in 1..Len(ns) :
           /\ ChainsAt(i, ns, lo) => ChainsAt(i, ns2, lo2)
           /\ FitsAt(i, ns, lo, em) => FitsAt(i, ns2, lo2, em2)
           /\ CameAt(i, ns, lo) => CameAt(i, ns2, lo2)
           /\ \A j \in 1..Len(ns) : FollowsAt(j, i, ns, lo) => FollowsAt(j, i, ns2, lo2)
<1>1. /\ Len(ns) \in Nat /\ Len(em) \in Nat /\ Len(ns2) \in Nat /\ Len(em2) \in Nat
      /\ \A i \in 1..Len(ns) : ns[i].at \in Nat /\ ns[i].chain \in Nat /\ ns[i].late \in BOOLEAN
  BY ToldTyped
<1>2. /\ lo \subseteq lo2 /\ Len(ns) <= Len(ns2) /\ Len(em) <= Len(em2)
      /\ \A m \in 1..Len(em) : em2[m] = em[m]
  BY DEF Prolongs
<1>3. \A i \in 1..Len(ns) : /\ ns2[i].at = ns[i].at /\ ns2[i].chain = ns[i].chain /\ ns2[i].type = ns[i].type
                            /\ ns[i].stage = "done" => ns2[i].stage = "done"
                            /\ ns[i].late => ns2[i].late
                            /\ ns[i].at <= Len(em)
  <2>1. \A i \in 1..Len(ns) : ns[i].at <= h /\ h \in Nat /\ h <= Len(em)
    BY DEF InTime
  <2> QED  BY <1>1, <2>1 DEF Prolongs
<1> SUFFICES ASSUME NEW i \in 1..Len(ns)
             PROVE  /\ ChainsAt(i, ns, lo) => ChainsAt(i, ns2, lo2)
                    /\ FitsAt(i, ns, lo, em) => FitsAt(i, ns2, lo2, em2)
                    /\ CameAt(i, ns, lo) => CameAt(i, ns2, lo2)
                    /\ \A j \in 1..Len(ns) : FollowsAt(j, i, ns, lo) => FollowsAt(j, i, ns2, lo2)
  OBVIOUS
<1>a. i \in 1..Len(ns2) /\ \A j \in 1..i : j \in 1..Len(ns)
  BY <1>1, <1>2
<1>b. \A j \in 1..(i - 1) : j \in 1..Len(ns)
  BY <1>1
<1>4. \A m, n : LostIn(lo, m, n) => LostIn(lo2, m, n)
  BY <1>2, LostStays
<1>5. ASSUME ChainsAt(i, ns, lo) PROVE ChainsAt(i, ns2, lo2)
  <2> SUFFICES ASSUME NEW j \in 1..(i - 1)
               PROVE  ns2[j].chain = ns2[i].chain \/ LostIn(lo2, ns2[j].at, ns2[i].at)
    BY DEF ChainsAt
  <2>1. ns[j].chain = ns[i].chain \/ LostIn(lo, ns[j].at, ns[i].at)
    BY <1>5 DEF ChainsAt
  <2>2. j \in 1..Len(ns)
    BY <1>b
  <2>3. ns2[j].chain = ns[j].chain /\ ns2[i].chain = ns[i].chain /\ ns2[j].at = ns[j].at /\ ns2[i].at = ns[i].at
    BY <1>3, <2>2
  <2> QED  BY <1>4, <2>1, <2>3
<1>6. ASSUME FitsAt(i, ns, lo, em) PROVE FitsAt(i, ns2, lo2, em2)
  <2>1. ns2[i].at = ns[i].at /\ ns2[i].type = ns[i].type /\ ns[i].at <= Len(em) /\ ns[i].at \in Nat
    BY <1>1, <1>3
  <2>2. \A m \in 1..Len(em2) : GivenBack(m, ns2[i], em2) => m \in 1..Len(em) /\ GivenBack(m, ns[i], em)
    BY <1>1, <1>2, <2>1 DEF GivenBack
  <2>3. \A m \in 1..Len(em) : GivenBack(m, ns[i], em) => m \in 1..Len(em2) /\ GivenBack(m, ns2[i], em2)
    BY <1>1, <1>2, <2>1 DEF GivenBack
  <2>4. ns2[i].type = "reassigned" => \E m \in 1..Len(em2) : GivenBack(m, ns2[i], em2)
    BY <1>6, <2>1, <2>3 DEF FitsAt
  <2>5. ns2[i].type = "assigned" =>
          \A m \in 1..Len(em2) : GivenBack(m, ns2[i], em2) => LostIn(lo2, m, ns2[i].at)
    BY <1>4, <1>6, <2>1, <2>2 DEF FitsAt
  <2>6. Counted(i, ns2, lo2) \subseteq Counted(i, ns, lo)
    <3> SUFFICES ASSUME NEW j \in 1..i, ~LostIn(lo2, ns2[j].at, ns2[i].at) PROVE ~LostIn(lo, ns[j].at, ns[i].at)
      BY DEF Counted
    <3>1. ns2[j].at = ns[j].at
      BY <1>3, <1>a
    <3> QED  BY <1>4, <2>1, <3>1
  <2>7. Cardinality(Counted(i, ns2, lo2)) <= Cardinality(Counted(i, ns, lo))
    <3>1. IsFiniteSet(Counted(i, ns, lo))
      BY ToldTyped
    <3> QED  BY <2>6, <3>1, FS_Subset
  <2>8. /\ Cardinality(Counted(i, ns, lo)) \in Nat /\ Cardinality(Counted(i, ns2, lo2)) \in Nat
        /\ Cardinality(Counted(i, ns, lo)) <= MaxPerTrip /\ MaxPerTrip \in Nat
    <3>1. IsFiniteSet(Counted(i, ns, lo)) /\ IsFiniteSet(Counted(i, ns2, lo2))
      BY <1>a, ToldTyped
    <3> QED  BY <1>6, <3>1, FS_CardinalityType, PushAssumption DEF FitsAt
  <2> QED  BY <2>4, <2>5, <2>7, <2>8 DEF FitsAt
<1>7. ASSUME CameAt(i, ns, lo) PROVE CameAt(i, ns2, lo2)
  <2>1. ns2[i].stage = "done" /\ ns2[i].at = ns[i].at
    BY <1>3, <1>7 DEF CameAt
  <2>2. ASSUME NEW j \in 1..(i - 1)
        PROVE  ns2[j].stage = "done" \/ ns2[j].late \/ LostIn(lo2, ns2[j].at, ns2[i].at)
    <3>1. ns[j].stage = "done" \/ ns[j].late \/ LostIn(lo, ns[j].at, ns[i].at)
      BY <1>7 DEF CameAt
    <3>2. j \in 1..Len(ns)
      BY <1>b
    <3> QED  BY <1>3, <1>4, <2>1, <3>1, <3>2
  <2> QED  BY <1>a, <2>1, <2>2 DEF CameAt
<1>8. ASSUME NEW j \in 1..Len(ns), FollowsAt(j, i, ns, lo) PROVE FollowsAt(j, i, ns2, lo2)
  <2>1. ns2[j].at = ns[j].at /\ ns2[i].at = ns[i].at /\ (ns[i].late => ns2[i].late)
    BY <1>3
  <2> QED  BY <1>4, <1>8, <2>1 DEF FollowsAt
<1> QED  BY <1>5, <1>6, <1>7, <1>8

LEMMA StaysKnown ==
  ASSUME NEW ns, NEW lo, NEW em, NEW h, NEW ns2, NEW lo2, NEW em2,
         Told(ns, lo, em), Told(ns2, lo2, em2), InTime(ns, lo, em, h),
         Prolongs(ns, ns2, lo, lo2, em, em2), Len(ns2) = Len(ns)
  PROVE  /\ Blank(ns, lo, em, h) => Blank(ns2, lo2, em2, h)
         /\ \A e \in Push!TripEntry : Remembers(e, ns, lo, em, h) => Remembers(e, ns2, lo2, em2, h)
<1>1. /\ Len(ns) \in Nat /\ Len(em) \in Nat /\ h \in Nat /\ h <= Len(em)
  BY ToldTyped DEF InTime
<1>2. /\ lo \subseteq lo2 /\ \A m \in 1..h : em2[m] = em[m]
      /\ \A i \in 1..Len(ns) : ns2[i].at = ns[i].at /\ ns2[i].chain = ns[i].chain
  BY <1>1 DEF Prolongs
<1>3. Fresh(ns2, lo2) \subseteq Fresh(ns, lo)
  BY <1>2 DEF Fresh
<1>4. Forgiven(em, lo, h) => Forgiven(em2, lo2, h)
  BY <1>2 DEF Forgiven
<1>5. ASSUME NEW e \in Push!TripEntry, Remembers(e, ns, lo, em, h) PROVE Remembers(e, ns2, lo2, em2, h)
  <2>1. \A j \in Fresh(ns2, lo2) : ns2[j].chain = e.chain
    <3>1. \A j \in Fresh(ns, lo) : ns[j].chain = e.chain /\ j \in 1..Len(ns)
      BY <1>5 DEF Remembers, Fresh
    <3> QED  BY <1>2, <1>3, <3>1
  <2>2. Cardinality(Fresh(ns2, lo2)) <= e.sent
    <3>1. IsFiniteSet(Fresh(ns, lo)) /\ IsFiniteSet(Fresh(ns2, lo2))
      BY ToldTyped
    <3>2. Cardinality(Fresh(ns2, lo2)) <= Cardinality(Fresh(ns, lo))
      BY <1>3, <3>1, FS_Subset
    <3>3. Cardinality(Fresh(ns2, lo2)) \in Nat /\ Cardinality(Fresh(ns, lo)) \in Nat
      BY <3>1, FS_CardinalityType
    <3>4. Cardinality(Fresh(ns, lo)) <= e.sent /\ e.sent \in Nat
      BY <1>5 DEF Remembers, Push!TripEntry
    <3> QED  BY <3>2, <3>3, <3>4
  <2>3. e.driverCancelled => \E m \in 1..h : em2[m] = "searching"
    BY <1>2, <1>5 DEF Remembers
  <2>4. ~e.driverCancelled => Forgiven(em2, lo2, h)
    BY <1>4, <1>5 DEF Remembers
  <2> QED  BY <2>1, <2>2, <2>3, <2>4 DEF Remembers
<1> QED  BY <1>3, <1>4, <1>5 DEF Blank

(* Once the entry is lost, nothing is known.                               *)
LEMMA LostIsBlank ==
  ASSUME NEW ns, NEW lo, NEW em, NEW h, Told(ns, lo, em), InTime(ns, lo, em, h), h \in lo
  PROVE  Blank(ns, lo, em, h)
<1>1. Fresh(ns, lo) = {}
  <2> SUFFICES ASSUME NEW j \in Fresh(ns, lo) PROVE FALSE
    OBVIOUS
  <2>1. j \in 1..Len(ns) /\ h < ns[j].at
    BY DEF Fresh
  <2>2. ns[j].at <= h /\ h \in Nat /\ ns[j].at \in Nat
    BY <2>1, ToldTyped DEF InTime
  <2> QED  BY <2>1, <2>2
<1>2. Forgiven(em, lo, h)
  BY DEF Forgiven
<1> QED  BY <1>1, <1>2 DEF Blank

LEMMA BlankIsKnown ==
  ASSUME NEW ns, NEW lo, NEW em, NEW h, Blank(ns, lo, em, h),
         NEW e \in Push!TripEntry, e.sent = 0, ~e.driverCancelled
  PROVE  Remembers(e, ns, lo, em, h)
BY FS_EmptySet DEF Blank, Remembers

(* What a handler adds: its entry e becomes f, which notes the event, and  *)
(* a notice n may be submitted.                                            *)
EntryBecomes(e, f, kind) ==
  /\ f \in Push!TripEntry /\ f.chain = e.chain /\ e.sent <= f.sent
  /\ f.driverCancelled <=> e.driverCancelled \/ kind = "searching"

NoticeFor(e, n, h) ==
  /\ n \in Push!Notice /\ n.at = h + 1 /\ n.chain = e.chain
  /\ n.type = "reassigned" => e.driverCancelled
  /\ n.type = "assigned" => ~e.driverCancelled

LEMMA Noted ==
  ASSUME NEW ns, NEW lo, NEW em, NEW h, Told(ns, lo, em), InTime(ns, lo, em, h), h < Len(em),
         NEW e \in Push!TripEntry, Remembers(e, ns, lo, em, h),
         NEW f, EntryBecomes(e, f, em[h + 1])
  PROVE  InTime(ns, lo, em, h + 1) /\ Remembers(f, ns, lo, em, h + 1)
<1>0. /\ f \in Push!TripEntry /\ f.chain = e.chain /\ e.sent <= f.sent
      /\ f.driverCancelled <=> e.driverCancelled \/ em[h + 1] = "searching"
  BY DEF EntryBecomes
<1> USE <1>0
<1>1. /\ h \in Nat /\ Len(em) \in Nat /\ \A k \in lo : k <= h /\ k \in Nat
      /\ \A i \in 1..Len(ns) : ns[i].at <= h /\ ns[i].at \in Nat
  BY ToldTyped DEF InTime, Told
<1>2. InTime(ns, lo, em, h + 1)
  BY <1>1 DEF InTime
<1>3. Cardinality(Fresh(ns, lo)) <= f.sent
  <2>1. Cardinality(Fresh(ns, lo)) <= e.sent /\ e.sent \in Nat /\ f.sent \in Nat
    BY DEF Remembers, Push!TripEntry
  <2>2. Cardinality(Fresh(ns, lo)) \in Nat
    BY ToldTyped, FS_CardinalityType
  <2> QED  BY <2>1, <2>2
<1>4. f.driverCancelled => \E m \in 1..(h + 1) : em[m] = "searching"
  <2>1. h + 1 \in 1..(h + 1) /\ \A m \in 1..h : m \in 1..(h + 1)
    BY <1>1
  <2> QED  BY <2>1 DEF Remembers
<1>5. ~f.driverCancelled => Forgiven(em, lo, h + 1)
  <2>1. \A m \in 1..(h + 1) : m \in 1..h \/ m = h + 1
    BY <1>1
  <2> QED  BY <2>1 DEF Remembers, Forgiven
<1>6. \A j \in Fresh(ns, lo) : ns[j].chain = f.chain
  BY DEF Remembers
<1> QED  BY <1>2, <1>3, <1>4, <1>5, <1>6 DEF Remembers

LEMMA Submitted ==
  ASSUME NEW ns, NEW lo, NEW em, NEW h, Told(ns, lo, em), InTime(ns, lo, em, h), h < Len(em),
         NEW e \in Push!TripEntry, Remembers(e, ns, lo, em, h), e.sent < MaxPerTrip,
         NEW f, EntryBecomes(e, f, em[h + 1]), f.sent = e.sent + 1,
         NEW n, NoticeFor(e, n, h),
         NEW ns2, ns2 = Append(ns, n)
  PROVE  /\ Told(ns2, lo, em) /\ InTime(ns2, lo, em, h + 1) /\ Remembers(f, ns2, lo, em, h + 1)
         /\ Prolongs(ns, ns2, lo, lo, em, em)
         /\ Len(ns2) = Len(ns) + 1
         /\ ChainsAt(Len(ns2), ns2, lo) /\ FitsAt(Len(ns2), ns2, lo, em)
<1> DEFINE l == Len(ns) + 1
<1>0. /\ f \in Push!TripEntry /\ f.chain = e.chain
      /\ f.driverCancelled <=> e.driverCancelled \/ em[h + 1] = "searching"
      /\ n \in Push!Notice /\ n.at = h + 1 /\ n.chain = e.chain
      /\ n.type = "reassigned" => e.driverCancelled
      /\ n.type = "assigned" => ~e.driverCancelled
  BY DEF EntryBecomes, NoticeFor
<1> USE <1>0
<1>1. /\ h \in Nat /\ Len(em) \in Nat /\ \A k \in lo : k <= h /\ k \in Nat
      /\ \A i \in 1..Len(ns) : ns[i].at <= h /\ ns[i].at \in Nat
  BY ToldTyped DEF InTime, Told
<1>2. ns \in Seq(Push!Notice)
  BY DEF Told
<1>3. /\ Len(ns) \in Nat /\ l \in Nat /\ l - 1 = Len(ns) /\ ns2 \in Seq(Push!Notice) /\ Len(ns2) = l /\ ns2[l] = n
      /\ \A i \in 1..Len(ns) : ns2[i] = ns[i]
      /\ \A i \in 1..l : i \in 1..Len(ns) \/ i = l
      /\ l \notin 1..Len(ns)
  BY <1>2
<1> HIDE DEF l
<1>4. Told(ns2, lo, em)
  BY <1>3 DEF Told
<1>5. InTime(ns2, lo, em, h + 1)
  <2>1. \A i \in 1..l : ns2[i].at <= h + 1
    BY <1>1, <1>3
  <2> QED  BY <1>1, <1>3, <2>1 DEF InTime
<1>6. Prolongs(ns, ns2, lo, lo, em, em)
  <2>1. Len(ns) <= Len(ns2) /\ Len(em) <= Len(em)
    BY <1>1, <1>3 DEF l
  <2> QED  BY <1>3, <2>1 DEF Prolongs
<1>7. Fresh(ns2, lo) = Fresh(ns, lo) \cup {l}
  <2>1. \A k \in lo : k < n.at
    BY <1>1
  <2>2. l \in 1..l /\ \A i \in 1..Len(ns) : i \in 1..l
    BY <1>3
  <2> QED  BY <1>3, <2>1, <2>2 DEF Fresh
<1>8. /\ IsFiniteSet(Fresh(ns, lo)) /\ Cardinality(Fresh(ns, lo)) \in Nat /\ l \notin Fresh(ns, lo)
      /\ Cardinality(Fresh(ns, lo)) <= e.sent /\ e.sent \in Nat
  <2>1. IsFiniteSet(Fresh(ns, lo)) /\ l \notin Fresh(ns, lo)
    BY <1>3, ToldTyped
  <2> QED  BY <2>1, FS_CardinalityType DEF Remembers, Push!TripEntry
<1>9. Cardinality(Fresh(ns2, lo)) = Cardinality(Fresh(ns, lo)) + 1 /\ IsFiniteSet(Fresh(ns2, lo))
  BY <1>7, <1>8, FS_AddElement
<1>10. Remembers(f, ns2, lo, em, h + 1)
  <2>1. e.sent <= f.sent
    BY <1>8
  <2>2. Remembers(f, ns, lo, em, h + 1)
    BY <2>1, Noted
  <2>3. \A j \in Fresh(ns2, lo) : ns2[j].chain = f.chain
    <3>1. \A j \in Fresh(ns, lo) : ns[j].chain = f.chain /\ j \in 1..Len(ns)
      BY <2>2 DEF Remembers, Fresh
    <3> QED  BY <1>3, <1>7, <3>1
  <2>4. Cardinality(Fresh(ns2, lo)) <= f.sent
    BY <1>8, <1>9
  <2> QED  BY <2>2, <2>3, <2>4 DEF Remembers
(* Before a fresh notice nothing was lost.                                 *)
<1>11. ASSUME NEW j \in 1..Len(ns), ~LostIn(lo, ns[j].at, n.at) PROVE j \in Fresh(ns, lo)
  <2>1. \A k \in lo : k < n.at
    BY <1>1
  <2>2. \A k \in lo : ~(ns[j].at <= k)
    BY <1>11, <2>1 DEF LostIn
  <2> QED  BY <1>1, <2>2 DEF Fresh
<1>12. ChainsAt(l, ns2, lo)
  <2> SUFFICES ASSUME NEW j \in 1..Len(ns), ~LostIn(lo, ns[j].at, n.at) PROVE ns[j].chain = n.chain
    BY <1>3 DEF ChainsAt
  <2> QED  BY <1>11 DEF Remembers
<1>13. FitsAt(l, ns2, lo, em)
  <2>1. n.type = "reassigned" => \E m \in 1..Len(em) : GivenBack(m, n, em)
    <3>1. \A m \in 1..h : m \in 1..Len(em) /\ m < n.at
      BY <1>1
    <3> QED  BY <3>1 DEF Remembers, GivenBack
  <2>2. n.type = "assigned" => \A m \in 1..Len(em) : GivenBack(m, n, em) => LostIn(lo, m, n.at)
    <3> SUFFICES ASSUME n.type = "assigned", NEW m \in 1..Len(em), GivenBack(m, n, em) PROVE LostIn(lo, m, n.at)
      OBVIOUS
    <3>1. m \in 1..h /\ em[m] = "searching"
      BY <1>1 DEF GivenBack
    <3>2. \E k \in lo : m <= k
      BY <3>1 DEF Remembers, Forgiven
    <3> QED  BY <1>1, <3>2 DEF LostIn
  <2>3. Counted(l, ns2, lo) \subseteq Fresh(ns2, lo)
    BY <1>3, <1>7, <1>11 DEF Counted
  <2>4. Cardinality(Counted(l, ns2, lo)) <= MaxPerTrip
    <3>1. IsFiniteSet(Counted(l, ns2, lo)) /\ Cardinality(Counted(l, ns2, lo)) <= Cardinality(Fresh(ns2, lo))
      BY <1>9, <2>3, FS_Subset
    <3>2. Cardinality(Counted(l, ns2, lo)) \in Nat
      BY <3>1, FS_CardinalityType
    <3> QED  BY <1>8, <1>9, <3>1, <3>2, PushAssumption
  <2> QED  BY <1>3, <2>1, <2>2, <2>4 DEF FitsAt
<1> QED  BY <1>3, <1>4, <1>5, <1>6, <1>10, <1>12, <1>13 DEF l

-----------------------------------------------------------------------------
(* The invariant of the ledger, and what keeps it.                         *)

HandledOf(es, em) == [t \in Trip |-> Len(em[t]) - Cardinality(Push!Of(t, es))]

(* All that is known of a trip, its notices received in the order of rs.   *)
Sound(ns, lo, em, h, rs) ==
  /\ InTime(ns, lo, em, h)
  /\ \A i \in 1..Len(ns) : ChainsAt(i, ns, lo) /\ FitsAt(i, ns, lo, em)
  /\ \A b \in 1..Len(rs) : /\ CameAt(rs[b], ns, lo)
                           /\ \A a \in 1..(b - 1) : FollowsAt(rs[a], rs[b], ns, lo)

OnePerTrip(lg) == \A i, j \in 1..Len(lg) : lg[i].trip = lg[j].trip => i = j

(* An entry remembers its trip; what has no entry is forgotten.            *)
LedgerSound(lg, ns, lo, em, h) ==
  /\ \A i \in 1..Len(lg) : LET t == lg[i].trip IN Remembers(lg[i], ns[t], lo[t], em[t], h[t])
  /\ \A t \in Trip : (\A i \in 1..Len(lg) : lg[i].trip # t) => Blank(ns[t], lo[t], em[t], h[t])

Remembered(lg, ns, lo, em, h, rs) ==
  /\ lg \in Seq(Push!TripEntry) /\ ns \in [Trip -> Seq(Push!Notice)]
  /\ lo \in [Trip -> SUBSET Nat] /\ em \in [Trip -> Seq(Push!Noticed)]
  /\ h \in [Trip -> Nat] /\ rs \in [Trip -> Seq(Nat)]
  /\ OnePerTrip(lg) /\ LedgerSound(lg, ns, lo, em, h)
  /\ \A t \in Trip : Sound(ns[t], lo[t], em[t], h[t], rs[t])

MemoryInv ==
  LET h == HandledOf(events, emitted)
  IN  /\ Push!PushTypeOK
      /\ InLine(events, h, emitted) /\ LastWaits(events, h, emitted)
      /\ Remembered(ledger, notices, lost, emitted, h, received)

LEMMA HandledIs ==
  ASSUME NEW t \in Trip
  PROVE  Push!Handled(t) = HandledOf(events, emitted)[t]
BY SameCount DEF Push!Handled, Push!Of, HandledOf

LEMMA CountsTyped ==
  ASSUME MemoryInv
  PROVE  /\ HandledOf(events, emitted) \in [Trip -> Nat]
         /\ \A t \in Trip : HandledOf(events, emitted)[t] <= Len(emitted[t])
BY DEF MemoryInv, Remembered, Sound, InTime

LEMMA EmitCounts ==
  ASSUME NEW es \in Seq(Push!Event), NEW em \in [Trip -> Seq(Push!Noticed)], NEW e \in Push!Event,
         NEW fm, fm = [em EXCEPT ![e.trip] = Append(@, e.kind)]
  PROVE  HandledOf(Append(es, e), fm) = HandledOf(es, em)
<1>1. e.trip \in Trip /\ e.kind \in Push!Noticed
  BY DEF Push!Event
<1>2. ASSUME NEW t \in Trip
      PROVE  Len(fm[t]) - Cardinality(Push!Of(t, Append(es, e))) = Len(em[t]) - Cardinality(Push!Of(t, es))
  <2>1. Cardinality(Push!Of(t, Append(es, e))) =
          IF e.trip = t THEN Cardinality(Push!Of(t, es)) + 1 ELSE Cardinality(Push!Of(t, es))
    BY OfAppend
  <2>2. Cardinality(Push!Of(t, es)) \in Nat
    BY EventsTyped, PlacesFinite DEF Push!Of
  <2>3. Len(em[t]) \in Nat /\ Len(fm[t]) = IF e.trip = t THEN Len(em[t]) + 1 ELSE Len(em[t])
    BY <1>1
  <2> QED  BY <2>1, <2>2, <2>3
<1> QED  BY <1>2 DEF HandledOf

LEMMA TailCounts ==
  ASSUME NEW es \in Seq(Push!Event), es # <<>>, NEW em \in [Trip -> Seq(Push!Noticed)]
  PROVE  HandledOf(Tail(es), em) = [HandledOf(es, em) EXCEPT ![es[1].trip] = @ + 1]
<1>1. ASSUME NEW t \in Trip
      PROVE  Len(em[t]) - Cardinality(Push!Of(t, Tail(es))) =
               IF es[1].trip = t THEN (Len(em[t]) - Cardinality(Push!Of(t, es))) + 1
               ELSE Len(em[t]) - Cardinality(Push!Of(t, es))
  <2>1. Cardinality(Push!Of(t, Tail(es))) =
          IF es[1].trip = t THEN Cardinality(Push!Of(t, es)) - 1 ELSE Cardinality(Push!Of(t, es))
    BY OfTail
  <2>2. Cardinality(Push!Of(t, es)) \in Nat
    BY EventsTyped, PlacesFinite DEF Push!Of
  <2>3. Len(em[t]) \in Nat
    OBVIOUS
  <2> QED  BY <2>1, <2>2, <2>3
<1>2. es[1].trip \in Trip
  <2>1. 1 \in 1..Len(es)
    OBVIOUS
  <2> QED  BY <2>1, EventsTyped
<1> QED  BY <1>1, <1>2 DEF HandledOf

LEMMA NoneCounts ==
  ASSUME NEW em \in [Trip -> Seq(Push!Noticed)]
  PROVE  HandledOf(<<>>, em) = [t \in Trip |-> Len(em[t])]
<1>1. ASSUME NEW t \in Trip PROVE Len(em[t]) - Cardinality(Push!Of(t, <<>>)) = Len(em[t])
  <2>1. Push!Of(t, <<>>) = {}
    BY DEF Push!Of
  <2>2. Cardinality(Push!Of(t, <<>>)) = 0
    BY <2>1, FS_EmptySet
  <2> QED  BY <2>2
<1> QED  BY <1>1 DEF HandledOf

-----------------------------------------------------------------------------
LEMMA SoundStays ==
  ASSUME NEW ns, NEW lo, NEW em, NEW h, NEW rs, NEW ns2, NEW lo2, NEW em2, NEW g,
         rs \in Seq(Nat), Told(ns, lo, em), Told(ns2, lo2, em2), Sound(ns, lo, em, h, rs),
         Prolongs(ns, ns2, lo, lo2, em, em2), InTime(ns2, lo2, em2, g),
         \A i \in 1..Len(ns2) : i \in 1..Len(ns) \/ (ChainsAt(i, ns2, lo2) /\ FitsAt(i, ns2, lo2, em2))
  PROVE  Sound(ns2, lo2, em2, g, rs)
<1>1. InTime(ns, lo, em, h)
  BY DEF Sound
<1>2. \A i \in 1..Len(ns) :
           /\ ChainsAt(i, ns, lo) => ChainsAt(i, ns2, lo2)
           /\ FitsAt(i, ns, lo, em) => FitsAt(i, ns2, lo2, em2)
           /\ CameAt(i, ns, lo) => CameAt(i, ns2, lo2)
           /\ \A j \in 1..Len(ns) : FollowsAt(j, i, ns, lo) => FollowsAt(j, i, ns2, lo2)
  BY <1>1, StaysFit
<1>3. \A i \in 1..Len(ns2) : ChainsAt(i, ns2, lo2) /\ FitsAt(i, ns2, lo2, em2)
  BY <1>2 DEF Sound
<1>4. ASSUME NEW b \in 1..Len(rs)
      PROVE  /\ CameAt(rs[b], ns2, lo2)
             /\ \A a \in 1..(b - 1) : FollowsAt(rs[a], rs[b], ns2, lo2)
  <2>1. \A a \in 1..(b - 1) : a \in 1..Len(rs)
    OBVIOUS
  <2>2. CameAt(rs[b], ns, lo) /\ \A a \in 1..(b - 1) : FollowsAt(rs[a], rs[b], ns, lo) /\ CameAt(rs[a], ns, lo)
    BY <2>1 DEF Sound
  <2>3. rs[b] \in 1..Len(ns) /\ \A a \in 1..(b - 1) : rs[a] \in 1..Len(ns)
    BY <2>2 DEF CameAt
  <2> QED  BY <1>2, <2>2, <2>3
<1> QED  BY <1>3, <1>4 DEF Sound

LEMMA OneMoreCame ==
  ASSUME NEW ns, NEW lo, NEW em, NEW h, NEW rs \in Seq(Nat), NEW i \in Nat,
         Sound(ns, lo, em, h, rs), CameAt(i, ns, lo),
         \A a \in 1..Len(rs) : FollowsAt(rs[a], i, ns, lo)
  PROVE  Sound(ns, lo, em, h, Append(rs, i))
<1> DEFINE l == Len(rs) + 1
           r == Append(rs, i)
<1>1. /\ Len(r) = l /\ r[l] = i /\ l - 1 = Len(rs)
      /\ \A a \in 1..Len(rs) : r[a] = rs[a] /\ \A c \in 1..(a - 1) : r[c] = rs[c]
      /\ \A a \in 1..l : a \in 1..Len(rs) \/ a = l
  OBVIOUS
<1> HIDE DEF l, r
<1>2. ASSUME NEW b \in 1..Len(r)
      PROVE  /\ CameAt(r[b], ns, lo)
             /\ \A a \in 1..(b - 1) : FollowsAt(r[a], r[b], ns, lo)
  <2>1. CASE b \in 1..Len(rs)
    <3>1. CameAt(rs[b], ns, lo) /\ \A a \in 1..(b - 1) : FollowsAt(rs[a], rs[b], ns, lo)
      BY <2>1 DEF Sound
    <3> QED  BY <1>1, <2>1, <3>1
  <2>2. CASE b = l
    BY <1>1, <2>2
  <2> QED  BY <1>1, <2>1, <2>2
<1> QED  BY <1>2 DEF Sound, r

(* lg2 is lg without some entries, the others older at most.               *)
Alike(e, f) ==
  /\ e.trip = f.trip /\ e.chain = f.chain /\ e.sent = f.sent
  /\ e.driverCancelled = f.driverCancelled

Remains(lg2, lg) ==
  \E g \in [1..Len(lg2) -> 1..Len(lg)] :
    /\ \A k \in 1..Len(lg2) : Alike(lg2[k], lg[g[k]])
    /\ \A k, l \in 1..Len(lg2) : g[k] = g[l] => k = l

(* What lg2 has no entry of any more is lost.                              *)
LosesRest(lg2, lg, lo2, h) ==
  \A i \in 1..Len(lg) :
    (\A k \in 1..Len(lg2) : lg2[k].trip # lg[i].trip) => h[lg[i].trip] \in lo2[lg[i].trip]

Continues(ns, lo, em, ns2, lo2, em2, h) ==
  \A t \in Trip :
    /\ Told(ns[t], lo[t], em[t]) /\ Told(ns2[t], lo2[t], em2[t])
    /\ InTime(ns[t], lo[t], em[t], h[t])
    /\ InTime(ns2[t], lo2[t], em2[t], h[t])
    /\ Prolongs(ns[t], ns2[t], lo[t], lo2[t], em[t], em2[t])
    /\ Len(ns2[t]) = Len(ns[t])

LEMMA LedgerTyped ==
  ASSUME NEW lg \in Seq(Push!TripEntry)
  PROVE  \A i \in 1..Len(lg) : lg[i] \in Push!TripEntry /\ lg[i].trip \in Trip
<1>1. \A i \in 1..Len(lg) : lg[i] \in Push!TripEntry
  BY ElementOfSeq
<1> QED  BY <1>1 DEF Push!TripEntry

LEMMA DrawnRemains ==
  ASSUME NEW r, NEW s, NEW g, Drawn(r, s, g)
  PROVE  Remains(r, s)
BY DEF Drawn, Remains, Alike

LEMMA LedgerStays ==
  ASSUME NEW lg \in Seq(Push!TripEntry), NEW lg2 \in Seq(Push!TripEntry),
         NEW ns, NEW lo, NEW em, NEW h, NEW ns2, NEW lo2, NEW em2,
         OnePerTrip(lg), LedgerSound(lg, ns, lo, em, h), Remains(lg2, lg),
         Continues(ns, lo, em, ns2, lo2, em2, h),
         LosesRest(lg2, lg, lo2, h)
  PROVE  OnePerTrip(lg2) /\ LedgerSound(lg2, ns2, lo2, em2, h)
<1>1. PICK g \in [1..Len(lg2) -> 1..Len(lg)] :
        /\ \A k \in 1..Len(lg2) : Alike(lg2[k], lg[g[k]])
        /\ \A k, l \in 1..Len(lg2) : g[k] = g[l] => k = l
  BY DEF Remains
<1>2. OnePerTrip(lg2)
  <2> SUFFICES ASSUME NEW k \in 1..Len(lg2), NEW l \in 1..Len(lg2), lg2[k].trip = lg2[l].trip PROVE k = l
    BY DEF OnePerTrip
  <2>1. lg[g[k]].trip = lg[g[l]].trip /\ g[k] \in 1..Len(lg) /\ g[l] \in 1..Len(lg)
    BY <1>1 DEF Alike
  <2>2. g[k] = g[l]
    BY <2>1 DEF OnePerTrip
  <2> QED  BY <1>1, <2>2
<1>3. ASSUME NEW k \in 1..Len(lg2)
      PROVE  LET t == lg2[k].trip IN Remembers(lg2[k], ns2[t], lo2[t], em2[t], h[t])
  <2> DEFINE e == lg[g[k]]
             t == e.trip
  <2>1. e \in Push!TripEntry /\ t \in Trip
    BY LedgerTyped
  <2>2. Remembers(e, ns[t], lo[t], em[t], h[t])
    BY DEF LedgerSound
  <2>3. Alike(lg2[k], e)
    BY <1>1
  <2> HIDE DEF e, t
  <2>4. Remembers(e, ns2[t], lo2[t], em2[t], h[t])
    <3>1. /\ Told(ns[t], lo[t], em[t]) /\ Told(ns2[t], lo2[t], em2[t]) /\ InTime(ns[t], lo[t], em[t], h[t])
          /\ Prolongs(ns[t], ns2[t], lo[t], lo2[t], em[t], em2[t]) /\ Len(ns2[t]) = Len(ns[t])
      BY <2>1 DEF Continues
    <3> QED  BY <2>1, <2>2, <3>1, StaysKnown
  <2>5. lg2[k].trip = t
    BY <2>3 DEF Alike, t
  <2> QED  BY <2>3, <2>4, <2>5 DEF Alike, Remembers
<1>4. ASSUME NEW t \in Trip, \A k \in 1..Len(lg2) : lg2[k].trip # t
      PROVE  Blank(ns2[t], lo2[t], em2[t], h[t])
  <2>0. /\ Told(ns[t], lo[t], em[t]) /\ Told(ns2[t], lo2[t], em2[t]) /\ InTime(ns[t], lo[t], em[t], h[t])
        /\ InTime(ns2[t], lo2[t], em2[t], h[t])
        /\ Prolongs(ns[t], ns2[t], lo[t], lo2[t], em[t], em2[t]) /\ Len(ns2[t]) = Len(ns[t])
    BY DEF Continues
  <2>1. CASE \A i \in 1..Len(lg) : lg[i].trip # t
    <3>1. Blank(ns[t], lo[t], em[t], h[t])
      BY <2>1 DEF LedgerSound
    <3> QED  BY <2>0, <3>1, StaysKnown
  <2>2. ASSUME NEW i \in 1..Len(lg), lg[i].trip = t PROVE Blank(ns2[t], lo2[t], em2[t], h[t])
    <3>1. h[t] \in lo2[t]
      BY <1>4, <2>2 DEF LosesRest
    <3> QED  BY <2>0, <3>1, LostIsBlank
  <2> QED  BY <2>1, <2>2
<1> QED  BY <1>2, <1>3, <1>4 DEF LedgerSound

GoOn(ns, lo, em, ns2, lo2, em2, h) ==
  \A t \in Trip : /\ Prolongs(ns[t], ns2[t], lo[t], lo2[t], em[t], em2[t])
                  /\ Len(ns2[t]) = Len(ns[t])
                  /\ InTime(ns2[t], lo2[t], em2[t], h[t])

LEMMA RememberedStays ==
  ASSUME NEW lg, NEW ns, NEW lo, NEW em, NEW h, NEW rs, Remembered(lg, ns, lo, em, h, rs),
         NEW lg2 \in Seq(Push!TripEntry), NEW ns2 \in [Trip -> Seq(Push!Notice)],
         NEW lo2 \in [Trip -> SUBSET Nat], NEW em2 \in [Trip -> Seq(Push!Noticed)],
         Remains(lg2, lg),
         GoOn(ns, lo, em, ns2, lo2, em2, h),
         LosesRest(lg2, lg, lo2, h)
  PROVE  Remembered(lg2, ns2, lo2, em2, h, rs)
<1>1. /\ lg \in Seq(Push!TripEntry) /\ h \in [Trip -> Nat] /\ rs \in [Trip -> Seq(Nat)]
      /\ OnePerTrip(lg) /\ LedgerSound(lg, ns, lo, em, h)
  BY DEF Remembered
<1>2. ASSUME NEW t \in Trip
      PROVE  /\ Told(ns[t], lo[t], em[t]) /\ Told(ns2[t], lo2[t], em2[t]) /\ InTime(ns[t], lo[t], em[t], h[t])
             /\ Sound(ns[t], lo[t], em[t], h[t], rs[t]) /\ rs[t] \in Seq(Nat)
             /\ Prolongs(ns[t], ns2[t], lo[t], lo2[t], em[t], em2[t]) /\ Len(ns2[t]) = Len(ns[t])
             /\ InTime(ns2[t], lo2[t], em2[t], h[t])
  BY DEF Remembered, Told, Sound, GoOn
<1>3. OnePerTrip(lg2) /\ LedgerSound(lg2, ns2, lo2, em2, h)
  <2>1. Continues(ns, lo, em, ns2, lo2, em2, h)
    BY <1>2 DEF Continues
  <2> QED  BY <1>1, <2>1, LedgerStays
<1>4. ASSUME NEW t \in Trip PROVE Sound(ns2[t], lo2[t], em2[t], h[t], rs[t])
  BY <1>2, SoundStays
<1> QED  BY <1>1, <1>3, <1>4 DEF Remembered

-----------------------------------------------------------------------------
(* What the handler of an event looks up, and what it has to delete.       *)

LEMMA WithoutIs ==
  ASSUME NEW lg \in Seq(Push!TripEntry), OnePerTrip(lg), NEW t \in Trip,
         NEW r, r = Push!Without(t, lg)
  PROVE  /\ r \in Seq(Push!TripEntry) /\ Remains(r, lg)
         /\ \A k \in 1..Len(r) : r[k].trip # t
         /\ \A i \in 1..Len(lg) : lg[i].trip # t => \E k \in 1..Len(r) : r[k] = lg[i]
<1> DEFINE P == Push!Of(t, lg)
<1>1. P = { i \in 1..Len(lg) : lg[i].trip = t }
  BY DEF Push!Of
<1>2. \A p, q \in P : p = q
  BY <1>1 DEF OnePerTrip
<1>3. r = Push!Deleted(lg, P) /\ P \in SUBSET (1..Len(lg))
  BY <1>1 DEF Push!Without
<1> HIDE DEF P
<1>4. PICK g : /\ Drawn(r, lg, g)
               /\ \A k \in 1..Len(r) : g[k] \notin P
               /\ \A j \in 1..Len(lg) : j \notin P => \E k \in 1..Len(r) : r[k] = lg[j]
  BY <1>2, <1>3, DeletedIs
<1>5. r \in Seq(Push!TripEntry)
  BY <1>3, DeletedIs
<1>6. Remains(r, lg)
  BY <1>4, DrawnRemains
<1>7. \A k \in 1..Len(r) : r[k].trip # t
  BY <1>1, <1>4 DEF Drawn
<1> QED  BY <1>1, <1>4, <1>5, <1>6, <1>7

LEMMA RemainsComposed ==
  ASSUME NEW a, NEW b, NEW c, Remains(b, a), Remains(c, b)
  PROVE  Remains(c, a)
<1>1. PICK f \in [1..Len(b) -> 1..Len(a)] :
        /\ \A k \in 1..Len(b) : Alike(b[k], a[f[k]])
        /\ \A k, l \in 1..Len(b) : f[k] = f[l] => k = l
  BY DEF Remains
<1>2. PICK g \in [1..Len(c) -> 1..Len(b)] :
        /\ \A k \in 1..Len(c) : Alike(c[k], b[g[k]])
        /\ \A k, l \in 1..Len(c) : g[k] = g[l] => k = l
  BY DEF Remains
<1> DEFINE h == [k \in 1..Len(c) |-> f[g[k]]]
<1>3. h \in [1..Len(c) -> 1..Len(a)]
  BY <1>1, <1>2
<1>4. \A k \in 1..Len(c) : Alike(c[k], a[h[k]])
  BY <1>1, <1>2 DEF Alike
<1>5. \A k, l \in 1..Len(c) : h[k] = h[l] => k = l
  BY <1>1, <1>2
<1> HIDE DEF h
<1> QED  BY <1>3, <1>4, <1>5 DEF Remains

LEMMA RemainsItself ==
  ASSUME NEW lg
  PROVE  Remains(lg, lg)
<1> DEFINE g == [k \in 1..Len(lg) |-> k]
<1>1. g \in [1..Len(lg) -> 1..Len(lg)] /\ \A k \in 1..Len(lg) : g[k] = k
  OBVIOUS
<1> HIDE DEF g
<1> QED  BY <1>1 DEF Remains, Alike

(* What the ledger is while an event of t is handled, where t has no       *)
(* entry that holds: some entries are left, and a new one comes.           *)
LEMMA NotFound ==
  ASSUME Push!PushTypeOK, OnePerTrip(ledger), NEW ev \in Push!Event, Push!Found(ev.trip) = {}
  PROVE  \E r \in Seq(Push!TripEntry) :
           /\ Push!LedgerFor(ev) = Append(r, Push!EntryFor(ev))
           /\ Remains(r, ledger) /\ \A k \in 1..Len(r) : r[k].trip # ev.trip
           /\ \A i \in 1..Len(ledger) :
                (\A k \in 1..Len(r) : r[k].trip # ledger[i].trip) => ledger[i].trip \in Push!ForgottenFor(ev)
<1> DEFINE w == Push!Without(ev.trip, ledger)
           r == Push!RoomIn(w)
           e == Push!EntryFor(ev)
<1>1. ledger \in Seq(Push!TripEntry) /\ ev.trip \in Trip
  BY DEF Push!PushTypeOK, Push!Event
<1>2. /\ w \in Seq(Push!TripEntry) /\ Remains(w, ledger) /\ \A k \in 1..Len(w) : w[k].trip # ev.trip
  BY <1>1, WithoutIs
<1>3. Push!LedgerFor(ev) = Append(r, e)
  BY DEF Push!LedgerFor
<1>4. e \in Push!TripEntry /\ e.trip = ev.trip /\ e.expired = FALSE
  BY EntryTyped DEF Push!EntryFor
<1> HIDE DEF w, e
<1>5. PICK g : Drawn(r, w, g)
  BY <1>2, RoomIs
<1>6. r \in Seq(Push!TripEntry) /\ Remains(r, w)
  BY <1>2, <1>5, RoomIs, DrawnRemains
<1>7. \A k \in 1..Len(r) : r[k].trip # ev.trip
  BY <1>2, <1>5 DEF Drawn
<1>8. Remains(r, ledger)
  BY <1>2, <1>6, RemainsComposed
<1> HIDE DEF r
<1>9. ASSUME NEW i \in 1..Len(ledger), \A k \in 1..Len(r) : r[k].trip # ledger[i].trip
      PROVE  ledger[i].trip \in Push!ForgottenFor(ev)
  <2>1. ledger[i] # e
    <3>1. ~(ledger[i].trip = ev.trip /\ ~ledger[i].expired)
      BY DEF Push!Found, Push!Of
    <3> QED  BY <1>4, <3>1
  <2>2. ASSUME NEW j \in 1..Len(Append(r, e)) PROVE Append(r, e)[j] # ledger[i]
    <3>1. /\ j \in 1..Len(r) => Append(r, e)[j] = r[j]
          /\ j \notin 1..Len(r) => Append(r, e)[j] = e
      BY <1>4, <1>6
    <3> QED  BY <1>9, <2>1, <3>1
  <2> QED  BY <1>3, <2>2 DEF Push!ForgottenFor
<1> QED  BY <1>3, <1>6, <1>7, <1>8, <1>9 DEF e

LEMMA FoundIs ==
  ASSUME Push!PushTypeOK, NEW ev \in Push!Event, Push!Found(ev.trip) # {}
  PROVE  /\ Push!LedgerFor(ev) = ledger /\ Push!ForgottenFor(ev) = {}
         /\ \E i \in 1..Len(ledger) : ledger[i] = Push!EntryFor(ev)
<1>1. Push!LedgerFor(ev) = ledger
  BY DEF Push!LedgerFor
<1>2. Push!ForgottenFor(ev) = {}
  BY <1>1 DEF Push!ForgottenFor
<1>3. \E i \in Push!Found(ev.trip) : ledger[i] = Push!EntryFor(ev)
  BY DEF Push!EntryFor
<1> QED  BY <1>1, <1>2, <1>3 DEF Push!Found, Push!Of

LEMMA LosingIs ==
  ASSUME MemoryInv, NEW T, NEW h, h = HandledOf(events, emitted)
  PROVE  /\ Push!Losing(T) \in [Trip -> SUBSET Nat]
         /\ \A t \in Trip : Push!Losing(T)[t] = IF t \in T THEN lost[t] \cup {h[t]} ELSE lost[t]
<1>1. \A t \in Trip : Push!Handled(t) = h[t] /\ h[t] \in Nat
  BY HandledIs, CountsTyped
<1>2. lost \in [Trip -> SUBSET Nat]
  BY DEF MemoryInv, Push!PushTypeOK
<1>3. Push!Losing(T) = [t \in Trip |-> IF t \in T THEN lost[t] \cup {h[t]} ELSE lost[t]]
  BY <1>1 DEF Push!Losing
<1> QED  BY <1>1, <1>2, <1>3

LEMMA Unmoved ==
  ASSUME NEW ns \in Seq(Push!Notice), NEW em \in Seq(Push!Noticed), NEW lo, NEW lo2, lo \subseteq lo2
  PROVE  Prolongs(ns, ns, lo, lo2, em, em)
<1>1. Len(ns) \in Nat /\ Len(em) \in Nat
  OBVIOUS
<1> QED  BY <1>1 DEF Prolongs

(* Losing the trips T, and with them entries.                              *)
LosesTrips(T, lo, lo2, h) ==
  /\ lo2 \in [Trip -> SUBSET Nat]
  /\ \A t \in Trip : lo2[t] = IF t \in T THEN lo[t] \cup {h[t]} ELSE lo[t]

LeavesBut(T, lg2, lg) ==
  \A i \in 1..Len(lg) : (\A k \in 1..Len(lg2) : lg2[k].trip # lg[i].trip) => lg[i].trip \in T

LEMMA LosingKeeps ==
  ASSUME NEW lg, NEW ns, NEW lo, NEW em, NEW h, NEW rs, Remembered(lg, ns, lo, em, h, rs),
         NEW lg2 \in Seq(Push!TripEntry), NEW lo2, Remains(lg2, lg), NEW T,
         LosesTrips(T, lo, lo2, h), LeavesBut(T, lg2, lg)
  PROVE  Remembered(lg2, ns, lo2, em, h, rs)
<1>1. /\ lg \in Seq(Push!TripEntry) /\ ns \in [Trip -> Seq(Push!Notice)]
      /\ em \in [Trip -> Seq(Push!Noticed)] /\ h \in [Trip -> Nat]
  BY DEF Remembered
<1>2. GoOn(ns, lo, em, ns, lo2, em, h)
  <2> SUFFICES ASSUME NEW t \in Trip
               PROVE  /\ Prolongs(ns[t], ns[t], lo[t], lo2[t], em[t], em[t])
                      /\ InTime(ns[t], lo2[t], em[t], h[t])
    BY DEF GoOn
  <2>1. InTime(ns[t], lo[t], em[t], h[t])
    BY DEF Remembered, Sound
  <2>2. lo[t] \subseteq lo2[t] /\ \A k \in lo2[t] : k \in lo[t] \/ k = h[t]
    BY DEF LosesTrips
  <2>3. h[t] \in Nat
    BY <1>1
  <2>4. InTime(ns[t], lo2[t], em[t], h[t])
    BY <2>1, <2>2, <2>3 DEF InTime
  <2> QED  BY <1>1, <2>2, <2>4, Unmoved
<1>3. LosesRest(lg2, lg, lo2, h)
  <2>1. \A i \in 1..Len(lg) : lg[i].trip \in Trip
    BY <1>1, LedgerTyped
  <2> QED  BY <2>1 DEF LosesRest, LosesTrips, LeavesBut
<1>4. lo2 \in [Trip -> SUBSET Nat]
  BY DEF LosesTrips
<1> QED  BY <1>1, <1>2, <1>3, <1>4, RememberedStays

(* The first stage: the entry of the event is looked for, or made.         *)
LEMMA Looked ==
  ASSUME MemoryInv, NEW ev \in Push!Event
  PROVE  /\ Remembered(Push!LedgerFor(ev), notices, Push!Losing(Push!ForgottenFor(ev)), emitted,
                       HandledOf(events, emitted), received)
         /\ \E i \in 1..Len(Push!LedgerFor(ev)) : Push!LedgerFor(ev)[i] = Push!EntryFor(ev)
<1> DEFINE h == HandledOf(events, emitted)
           lo == Push!Losing(Push!ForgottenFor(ev))
           T == Push!ForgottenFor(ev)
           e == Push!EntryFor(ev)
<1>1. Push!PushTypeOK /\ Remembered(ledger, notices, lost, emitted, h, received) /\ OnePerTrip(ledger)
  BY DEF MemoryInv, Remembered
<1>2. LosesTrips(T, lost, lo, h)
  BY LosingIs DEF LosesTrips
<1>3. ledger \in Seq(Push!TripEntry) /\ ev.trip \in Trip
  BY <1>1 DEF Push!PushTypeOK, Push!Event
<1>4. CASE Push!Found(ev.trip) # {}
  <2>1. /\ Push!LedgerFor(ev) = ledger
        /\ \E i \in 1..Len(ledger) : ledger[i] = e
    BY <1>1, <1>4, FoundIs
  <2>2. Remains(ledger, ledger)
    BY RemainsItself
  <2>a. LeavesBut(T, ledger, ledger)
    BY DEF LeavesBut
  <2> HIDE DEF h, lo, T, e
  <2>3. Remembered(ledger, notices, lo, emitted, h, received)
    BY <1>1, <1>2, <1>3, <2>a, <2>2, LosingKeeps
  <2> QED  BY <2>1, <2>3 DEF h, lo, T, e
<1>5. CASE Push!Found(ev.trip) = {}
  <2>1. PICK r \in Seq(Push!TripEntry) :
           /\ Push!LedgerFor(ev) = Append(r, e)
           /\ Remains(r, ledger) /\ \A k \in 1..Len(r) : r[k].trip # ev.trip
           /\ LeavesBut(T, r, ledger)
    BY <1>1, <1>5, NotFound DEF LeavesBut
  <2>2. e \in Push!TripEntry /\ e.trip = ev.trip /\ e.sent = 0 /\ ~e.driverCancelled
    BY <1>1, <1>5, EntryTyped DEF Push!EntryFor
  <2> HIDE DEF h, lo, T, e
  <2>3. Remembered(r, notices, lo, emitted, h, received)
    BY <1>1, <1>2, <2>1, LosingKeeps
  <2> DEFINE s == Append(r, e)
             l == Len(r) + 1
  <2>4. /\ s \in Seq(Push!TripEntry) /\ Len(s) = l /\ s[l] = e /\ \A k \in 1..Len(r) : s[k] = r[k] /\ k \in 1..l
        /\ l \in 1..l /\ \A k \in 1..l : k \in 1..Len(r) \/ k = l
    BY <2>1, <2>2
  <2> HIDE DEF s, l
  <2>5. OnePerTrip(s)
    <3>1. OnePerTrip(r)
      BY <2>3 DEF Remembered
    <3>2. \A k \in 1..Len(r) : s[k].trip # s[l].trip
      BY <2>1, <2>2, <2>4
    <3> QED  BY <2>4, <3>1, <3>2 DEF OnePerTrip
  <2>6. LedgerSound(r, notices, lo, emitted, h)
    BY <2>3 DEF Remembered
  <2>7. Remembers(e, notices[ev.trip], lo[ev.trip], emitted[ev.trip], h[ev.trip])
    <3>1. Blank(notices[ev.trip], lo[ev.trip], emitted[ev.trip], h[ev.trip])
      BY <1>3, <2>1, <2>6 DEF LedgerSound
    <3> QED  BY <2>2, <3>1, BlankIsKnown
  <2>8. LedgerSound(s, notices, lo, emitted, h)
    <3>1. ASSUME NEW i \in 1..Len(s)
          PROVE  LET t == s[i].trip IN Remembers(s[i], notices[t], lo[t], emitted[t], h[t])
      <4>1. CASE i \in 1..Len(r)
        BY <2>4, <2>6, <4>1 DEF LedgerSound
      <4>2. CASE i = l
        BY <2>2, <2>4, <2>7, <4>2
      <4> QED  BY <2>4, <4>1, <4>2
    <3>2. ASSUME NEW t \in Trip, \A i \in 1..Len(s) : s[i].trip # t
          PROVE  Blank(notices[t], lo[t], emitted[t], h[t])
      <4>1. \A i \in 1..Len(r) : r[i].trip # t
        BY <2>4, <3>2
      <4> QED  BY <2>6, <4>1 DEF LedgerSound
    <3> QED  BY <3>1, <3>2 DEF LedgerSound
  <2>9. Remembered(s, notices, lo, emitted, h, received)
    BY <2>3, <2>4, <2>5, <2>8 DEF Remembered
  <2> QED  BY <2>1, <2>4, <2>9 DEF s, h, lo, T, e
<1> QED  BY <1>4, <1>5

-----------------------------------------------------------------------------
(* What the handler notes and submits.                                     *)

LEMMA TypesOf ==
  ASSUME NEW h, Remembered(ledger', notices', lost', emitted', h, received'),
         committed' \in Seq(Push!Fact), events' \in Seq(Push!Event), drops' \subseteq Token,
         devices' \in Seq([token : Token, user : Passenger]),
         trimming' \in [Passenger -> Nat], untrimmed' \in [Passenger -> Nat]
  PROVE  Push!PushTypeOK'
BY DEF Push!PushTypeOK, Remembered

(* An event of t is noted by its entry, which is f then.                   *)
Notes(t, f, lg, lg2) ==
  /\ Len(lg2) = Len(lg)
  /\ \A i \in 1..Len(lg) : lg2[i] = IF lg[i].trip = t THEN f ELSE lg[i]
  /\ f.trip = t /\ \E i \in 1..Len(lg) : lg[i].trip = t

SameBut(t, ns, ns2, h, g) == \A u \in Trip \ {t} : ns2[u] = ns[u] /\ g[u] = h[u]

LEMMA OneTripMoves ==
  ASSUME NEW lg, NEW ns, NEW lo, NEW em, NEW h, NEW rs, Remembered(lg, ns, lo, em, h, rs),
         NEW t \in Trip, NEW f, NEW lg2 \in Seq(Push!TripEntry), Notes(t, f, lg, lg2),
         NEW ns2 \in [Trip -> Seq(Push!Notice)], NEW g \in [Trip -> Nat],
         SameBut(t, ns, ns2, h, g),
         Sound(ns2[t], lo[t], em[t], g[t], rs[t]), Remembers(f, ns2[t], lo[t], em[t], g[t])
  PROVE  Remembered(lg2, ns2, lo, em, g, rs)
<1>1. lg \in Seq(Push!TripEntry) /\ OnePerTrip(lg) /\ LedgerSound(lg, ns, lo, em, h)
  BY DEF Remembered
<1>2. /\ Len(lg2) = Len(lg) /\ f.trip = t
      /\ \A i \in 1..Len(lg) : lg2[i] = IF lg[i].trip = t THEN f ELSE lg[i]
  BY DEF Notes
<1>3. \A i \in 1..Len(lg) : lg2[i].trip = lg[i].trip /\ lg[i].trip \in Trip
  BY <1>1, <1>2, LedgerTyped
<1>4. OnePerTrip(lg2)
  BY <1>1, <1>2, <1>3 DEF OnePerTrip
<1>5. ASSUME NEW i \in 1..Len(lg2)
      PROVE  LET u == lg2[i].trip IN Remembers(lg2[i], ns2[u], lo[u], em[u], g[u])
  <2>1. CASE lg[i].trip = t
    <3>1. lg2[i] = f /\ lg2[i].trip = t
      BY <1>2, <2>1
    <3> QED  BY <3>1
  <2>2. CASE lg[i].trip # t
    <3>1. lg2[i] = lg[i] /\ lg[i].trip \in Trip \ {t} /\ i \in 1..Len(lg)
      BY <1>2, <1>3, <2>2
    <3> DEFINE u == lg[i].trip
    <3>2. Remembers(lg[i], ns[u], lo[u], em[u], h[u])
      BY <1>1, <3>1 DEF LedgerSound
    <3>3. ns2[u] = ns[u] /\ g[u] = h[u]
      BY <3>1 DEF SameBut
    <3> QED  BY <3>1, <3>2, <3>3
  <2> QED  BY <2>1, <2>2
<1>6. ASSUME NEW u \in Trip, \A i \in 1..Len(lg2) : lg2[i].trip # u
      PROVE  Blank(ns2[u], lo[u], em[u], g[u])
  <2>1. \A i \in 1..Len(lg) : lg[i].trip # u
    BY <1>2, <1>3, <1>6
  <2>2. u \in Trip \ {t}
    BY <2>1 DEF Notes
  <2>3. Blank(ns[u], lo[u], em[u], h[u])
    BY <1>1, <2>1 DEF LedgerSound
  <2>4. ns2[u] = ns[u] /\ g[u] = h[u]
    BY <2>2 DEF SameBut
  <2> QED  BY <2>3, <2>4
<1>7. LedgerSound(lg2, ns2, lo, em, g)
  BY <1>5, <1>6 DEF LedgerSound
<1>8. ASSUME NEW u \in Trip PROVE Sound(ns2[u], lo[u], em[u], g[u], rs[u])
  <2>1. CASE u = t
    BY <2>1
  <2>2. CASE u # t
    <3>1. ns2[u] = ns[u] /\ g[u] = h[u]
      BY <2>2 DEF SameBut
    <3> QED  BY <3>1 DEF Remembered
  <2> QED  BY <2>1, <2>2
<1> QED  BY <1>4, <1>7, <1>8 DEF Remembered

LEMMA TypeIs ==
  ASSUME Push!PushTypeOK, OnePerTrip(ledger), NEW ev \in Push!Event
  PROVE  /\ Push!TypeFor(ev) \in Push!Noticed \cup {"reassigned"}
         /\ Push!TypeFor(ev) = "reassigned" => Push!EntryFor(ev).driverCancelled
         /\ Push!TypeFor(ev) = "assigned" => ~Push!EntryFor(ev).driverCancelled
<1>1. ev.kind \in Push!Noticed
  BY DEF Push!Event
<1>2. \A i, j \in Push!Found(ev.trip) : i = j
  BY DEF Push!Found, Push!Of, OnePerTrip
<1>3. (\E i \in Push!Found(ev.trip) : ledger[i].driverCancelled) <=> Push!EntryFor(ev).driverCancelled
  <2>1. CASE Push!Found(ev.trip) = {}
    BY <2>1 DEF Push!EntryFor
  <2>2. CASE Push!Found(ev.trip) # {}
    <3>1. PICK i \in Push!Found(ev.trip) : Push!EntryFor(ev) = ledger[i]
      BY <2>2 DEF Push!EntryFor
    <3> QED  BY <1>2, <3>1
  <2> QED  BY <2>1, <2>2
<1> DEFINE cancelled == \E i \in Push!Found(ev.trip) : ledger[i].driverCancelled
<1>4. Push!TypeFor(ev) = IF ev.kind # "assigned" THEN ev.kind ELSE IF cancelled THEN "reassigned" ELSE "assigned"
  BY DEF Push!TypeFor
<1> HIDE DEF cancelled
<1>5. cancelled <=> Push!EntryFor(ev).driverCancelled
  BY <1>3 DEF cancelled
<1> QED  BY <1>1, <1>4, <1>5 DEF Push!Noticed

LEMMA EntryIs ==
  ASSUME Push!PushTypeOK, NEW ev \in Push!Event
  PROVE  LET e == Push!EntryFor(ev)
             f == Sent(ev)
         IN  /\ Entry(ev).sent = e.sent /\ Entry(ev).chain = e.chain /\ f.chain = e.chain
             /\ f.sent = IF Push!Capped(Entry(ev)) THEN e.sent ELSE e.sent + 1
             /\ f.driverCancelled <=> e.driverCancelled \/ ev.kind = "searching"
             /\ e.sent \in Nat /\ e.chain \in Nat
             /\ ~Push!Capped(Entry(ev)) => e.sent < MaxPerTrip
<1> DEFINE e == Push!EntryFor(ev)
           d == [e EXCEPT !.driverCancelled = @ \/ ev.kind = "searching"]
<1>1. e \in Push!TripEntry
  BY EntryTyped
<1>2. Entry(ev) = d
  BY DEF Entry
<1>3. e.sent \in Nat /\ e.chain \in Nat
  BY <1>1 DEF Push!TripEntry
<1> HIDE DEF e
<1>4. /\ d \in Push!TripEntry /\ d.sent = e.sent /\ d.chain = e.chain
      /\ d.driverCancelled <=> e.driverCancelled \/ ev.kind = "searching"
  BY <1>1 DEF Push!TripEntry
<1>5. Sent(ev) = IF Push!Capped(Entry(ev)) THEN d ELSE [d EXCEPT !.sent = @ + 1]
  BY <1>2 DEF Sent
<1> HIDE DEF d
<1>6. /\ [d EXCEPT !.sent = @ + 1].sent = d.sent + 1 /\ [d EXCEPT !.sent = @ + 1].chain = d.chain
      /\ [d EXCEPT !.sent = @ + 1].driverCancelled = d.driverCancelled
  BY <1>4 DEF Push!TripEntry
<1>7. ~Push!Capped(Entry(ev)) => e.sent < MaxPerTrip
  BY <1>2, <1>3, <1>4, PushAssumption DEF Push!Capped
<1> QED  BY <1>2, <1>3, <1>4, <1>5, <1>6, <1>7 DEF e

(* The second stage: the entry notes the event, and a notice is submitted. *)
LEMMA HandledKeeps ==
  ASSUME MemoryInv, NEW ev \in Push!Event, NEW h, h = HandledOf(events, emitted),
         ev.nth = h[ev.trip] + 1, ev.nth <= Len(emitted[ev.trip]), emitted[ev.trip][ev.nth] = ev.kind,
         NEW ns2, ns2 = IF Push!Capped(Entry(ev)) THEN notices
                        ELSE [notices EXCEPT ![ev.trip] = Append(@, NewNotice(ev))],
         NEW g, g = [h EXCEPT ![ev.trip] = @ + 1]
  PROVE  Remembered(After(ev), ns2, Push!Losing(Push!ForgottenFor(ev)), emitted, g, received)
<1> DEFINE t == ev.trip
           e == Push!EntryFor(ev)
           f == Sent(ev)
           n == NewNotice(ev)
           lg == Push!LedgerFor(ev)
           lo == Push!Losing(Push!ForgottenFor(ev))
<1>1. Push!PushTypeOK /\ OnePerTrip(ledger) /\ h \in [Trip -> Nat]
  BY CountsTyped DEF MemoryInv, Remembered
<1>2. t \in Trip /\ ev.nth \in Nat /\ ev.to \in Passenger
  BY DEF Push!Event
<1>3. Remembered(lg, notices, lo, emitted, h, received)
  BY Looked
<1>4. PICK k \in 1..Len(lg) : lg[k] = e
  BY Looked
<1>5. e \in Push!TripEntry /\ e.trip = t
  BY <1>1, EntryTyped
<1>6. f \in Push!TripEntry /\ f.trip = t
  BY <1>1, AfterTyped
<1>7. /\ f.chain = e.chain /\ e.sent \in Nat /\ e.chain \in Nat /\ Entry(ev).chain = e.chain
      /\ f.sent = IF Push!Capped(Entry(ev)) THEN e.sent ELSE e.sent + 1
      /\ f.driverCancelled <=> e.driverCancelled \/ ev.kind = "searching"
      /\ ~Push!Capped(Entry(ev)) => e.sent < MaxPerTrip
  BY <1>1, EntryIs
<1>8. n \in Push!Notice /\ n.at = h[t] + 1 /\ n.chain = e.chain /\ n.type = Push!TypeFor(ev)
  <2>1. Push!TypeFor(ev) \in Push!Noticed \cup {"reassigned"}
    BY <1>1, TypeIs
  <2> QED  BY <1>2, <1>7, <2>1 DEF NewNotice, Push!Notice
<1>9. (n.type = "reassigned" => e.driverCancelled) /\ (n.type = "assigned" => ~e.driverCancelled)
  BY <1>1, <1>8, TypeIs
<1>10. Notes(t, f, lg, After(ev)) /\ After(ev) \in Seq(Push!TripEntry)
  BY <1>1, <1>4, <1>5, <1>6, AfterTyped DEF Notes
<1>11. /\ notices \in [Trip -> Seq(Push!Notice)] /\ emitted \in [Trip -> Seq(Push!Noticed)]
       /\ received \in [Trip -> Seq(Nat)]
  BY <1>1 DEF Push!PushTypeOK
<1>12. g \in [Trip -> Nat] /\ g[t] = h[t] + 1 /\ \A u \in Trip \ {t} : g[u] = h[u]
  BY <1>1, <1>2
<1>13. /\ ns2 \in [Trip -> Seq(Push!Notice)] /\ \A u \in Trip \ {t} : ns2[u] = notices[u]
       /\ ns2[t] = IF Push!Capped(Entry(ev)) THEN notices[t] ELSE Append(notices[t], n)
  BY <1>2, <1>8, <1>11
<1>14. Told(notices[t], lo[t], emitted[t]) /\ Sound(notices[t], lo[t], emitted[t], h[t], received[t])
  BY <1>2, <1>3 DEF Remembered, Told
<1>15. Remembers(e, notices[t], lo[t], emitted[t], h[t]) /\ InTime(notices[t], lo[t], emitted[t], h[t])
  BY <1>3, <1>4, <1>5, <1>14 DEF Remembered, LedgerSound, Sound
<1>16. h[t] < Len(emitted[t]) /\ emitted[t][h[t] + 1] = ev.kind
  BY <1>1, <1>2, <1>11
<1> HIDE DEF t, e, f, n, lg, lo
<1>17. Sound(ns2[t], lo[t], emitted[t], g[t], received[t]) /\ Remembers(f, ns2[t], lo[t], emitted[t], g[t])
  <2> DEFINE o == notices[t]
             l == lo[t]
             em == emitted[t]
             m == h[t]
             r == received[t]
  <2>0. r \in Seq(Nat) /\ o \in Seq(Push!Notice) /\ em \in Seq(Push!Noticed)
    BY <1>2, <1>11 DEF t
  <2>1. CASE Push!Capped(Entry(ev))
    <3>1. e.sent <= f.sent /\ ns2[t] = o
      BY <1>7, <1>13, <2>1
    <3>2. Told(o, l, em) /\ InTime(o, l, em, m) /\ m < Len(em) /\ Remembers(e, o, l, em, m) /\ Sound(o, l, em, m, r)
      BY <1>14, <1>15, <1>16
    <3>3. EntryBecomes(e, f, em[m + 1])
      BY <1>6, <1>7, <1>16, <3>1 DEF EntryBecomes
    <3> HIDE DEF o, l, em, m, r
    <3>4. InTime(o, l, em, m + 1) /\ Remembers(f, o, l, em, m + 1)
      BY <1>5, <3>2, <3>3, Noted
    <3>5. Prolongs(o, o, l, l, em, em)
      BY <2>0, Unmoved
    <3>6. Sound(o, l, em, m + 1, r)
      BY <2>0, <3>2, <3>4, <3>5, SoundStays
    <3> QED  BY <1>12, <3>1, <3>4, <3>6 DEF o, l, em, m, r
  <2>2. CASE ~Push!Capped(Entry(ev))
    <3> DEFINE o2 == Append(o, n)
    <3>1. ns2[t] = o2 /\ f.sent = e.sent + 1 /\ e.sent < MaxPerTrip
      BY <1>7, <1>13, <2>2
    <3>2. Told(o, l, em) /\ InTime(o, l, em, m) /\ m < Len(em) /\ Remembers(e, o, l, em, m) /\ Sound(o, l, em, m, r)
      BY <1>14, <1>15, <1>16
    <3>3. EntryBecomes(e, f, em[m + 1])
      BY <1>6, <1>7, <1>16, <3>1 DEF EntryBecomes
    <3>4. NoticeFor(e, n, m)
      BY <1>8, <1>9 DEF NoticeFor
    <3>a. o2 = Append(o, n) /\ e \in Push!TripEntry /\ f.sent = e.sent + 1 /\ e.sent < MaxPerTrip
      BY <1>5, <3>1
    <3> HIDE DEF o, l, em, m, r, o2
    <3>5. /\ Told(o2, l, em) /\ InTime(o2, l, em, m + 1) /\ Remembers(f, o2, l, em, m + 1)
          /\ Prolongs(o, o2, l, l, em, em) /\ Len(o2) = Len(o) + 1
          /\ ChainsAt(Len(o2), o2, l) /\ FitsAt(Len(o2), o2, l, em)
      <4>1. InTime(o2, l, em, m + 1)
        BY <3>2, <3>3, <3>4, <3>a, Submitted
      <4>2. Remembers(f, o2, l, em, m + 1)
        BY <3>2, <3>3, <3>4, <3>a, Submitted
      <4>3. Prolongs(o, o2, l, l, em, em)
        BY <3>2, <3>3, <3>4, <3>a, Submitted
      <4>4. Told(o2, l, em)
        BY <3>2, <3>3, <3>4, <3>a, Submitted
      <4>5. Len(o2) = Len(o) + 1
        BY <2>0, <3>a, <3>4 DEF o
      <4>6. ChainsAt(Len(o2), o2, l) /\ FitsAt(Len(o2), o2, l, em)
        BY <3>2, <3>3, <3>4, <3>a, Submitted
      <4> QED  BY <4>1, <4>2, <4>3, <4>4, <4>5, <4>6
    <3>6. \A i \in 1..Len(o2) : i \in 1..Len(o) \/ i = Len(o2)
      <4>1. Len(o) \in Nat
        BY <2>0 DEF o
      <4>2. Len(o2) = Len(o) + 1
        BY <3>5
      <4> QED  BY <4>1, <4>2
    <3>7. \A i \in 1..Len(o2) : i \in 1..Len(o) \/ (ChainsAt(i, o2, l) /\ FitsAt(i, o2, l, em))
      BY <3>5, <3>6
    <3>8. Sound(o2, l, em, m + 1, r)
      BY <2>0, <3>2, <3>5, <3>7, SoundStays
    <3> QED  BY <1>12, <3>1, <3>5, <3>8 DEF o, l, em, m, r, o2
  <2> QED  BY <2>1, <2>2
<1>18. SameBut(t, notices, ns2, h, g)
  BY <1>12, <1>13 DEF SameBut
<1>19. Remembered(After(ev), ns2, lo, emitted, g, received)
  <2>1. t \in Trip
    BY <1>2 DEF t
  <2>2. ns2 \in [Trip -> Seq(Push!Notice)] /\ g \in [Trip -> Nat]
    BY <1>12, <1>13
  <2>3. Notes(t, f, lg, After(ev)) /\ After(ev) \in Seq(Push!TripEntry)
    BY <1>10
  <2> QED  BY <1>3, <1>17, <1>18, <2>1, <2>2, <2>3, OneTripMoves
<1> QED  BY <1>19 DEF lo

-----------------------------------------------------------------------------
(* The steps.                                                              *)

(* What the steps that are about events say, by shapes.                    *)
LEMMA FactsTyped ==
  ASSUME Push!PushTypeOK, NEW i \in 1..Len(committed)
  PROVE  /\ committed[i].trip \in Trip /\ committed[i].to \in Passenger
         /\ committed[i].kind \in Push!Noticed \cup {"closed"}
         /\ Push!RemoveAt(committed, i) \in Seq(Push!Fact)
<1>1. committed \in Seq(Push!Fact)
  BY DEF Push!PushTypeOK
<1>2. committed[i] \in Push!Fact
  BY <1>1, ElementOfSeq
<1> QED  BY <1>1, <1>2, Removed DEF Push!Fact

LEMMA EmitIs ==
  ASSUME Push!PushTypeOK, NEW i, Push!Emit(i)
  PROVE  \E e \in Push!Event :
           /\ e.nth = Len(emitted[e.trip]) + 1
           /\ emitted' = [emitted EXCEPT ![e.trip] = Append(@, e.kind)]
           /\ events' = Append(events, e)
           /\ committed' \in Seq(Push!Fact)
           /\ UNCHANGED <<ledger, lost, notices, drops, received, devices, trimming, untrimmed>>
<1> DEFINE f == committed[i]
           e == [trip |-> f.trip, to |-> f.to, kind |-> f.kind, nth |-> Len(emitted[f.trip]) + 1]
<1>1. i \in 1..Len(committed) /\ f.kind # "closed"
  BY DEF Push!Emit
<1>2. f.trip \in Trip /\ f.to \in Passenger /\ f.kind \in Push!Noticed /\ Push!RemoveAt(committed, i) \in Seq(Push!Fact)
  BY <1>1, FactsTyped
<1>3. /\ emitted' = [emitted EXCEPT ![f.trip] = Append(@, f.kind)] /\ events' = Append(events, e)
      /\ committed' = Push!RemoveAt(committed, i)
      /\ UNCHANGED <<ledger, lost, notices, drops, received, devices, trimming, untrimmed>>
  BY DEF Push!Emit, Push!deviceVars
<1>4. emitted[f.trip] \in Seq(Push!Noticed)
  BY <1>2 DEF Push!PushTypeOK
<1>5. Len(emitted[f.trip]) + 1 \in Nat
  BY <1>4
<1> HIDE DEF f
<1>6. e \in Push!Event /\ e.trip = f.trip /\ e.kind = f.kind /\ e.nth = Len(emitted[f.trip]) + 1
  BY <1>2, <1>5 DEF Push!Event
<1> HIDE DEF e
<1> QED  BY <1>2, <1>3, <1>6

LEMMA CloseIs ==
  ASSUME Push!PushTypeOK, NEW i, Push!EmitClosed(i)
  PROVE  \E t \in Trip :
           /\ lost' = Push!Losing({ ledger[k].trip : k \in Push!Of(t, ledger) })
           /\ ledger' = Push!Without(t, ledger)
           /\ committed' \in Seq(Push!Fact)
           /\ UNCHANGED <<events, emitted, notices, drops, received, devices, trimming, untrimmed>>
<1>1. i \in 1..Len(committed)
  BY DEF Push!EmitClosed
<1>2. committed[i].trip \in Trip /\ Push!RemoveAt(committed, i) \in Seq(Push!Fact)
  BY <1>1, FactsTyped
<1> QED  BY <1>2 DEF Push!EmitClosed, Push!deviceVars

LEMMA MemoryParts ==
  ASSUME MemoryInv
  PROVE  /\ ledger \in Seq(Push!TripEntry) /\ events \in Seq(Push!Event) /\ committed \in Seq(Push!Fact)
         /\ notices \in [Trip -> Seq(Push!Notice)]
         /\ lost \in [Trip -> SUBSET Nat] /\ emitted \in [Trip -> Seq(Push!Noticed)]
         /\ received \in [Trip -> Seq(Nat)] /\ drops \subseteq Token
         /\ devices \in Seq([token : Token, user : Passenger])
         /\ trimming \in [Passenger -> Nat] /\ untrimmed \in [Passenger -> Nat]
         /\ OnePerTrip(ledger)
         /\ \A t \in Trip : /\ Told(notices[t], lost[t], emitted[t])
                            /\ Sound(notices[t], lost[t], emitted[t], HandledOf(events, emitted)[t], received[t])
                            /\ InTime(notices[t], lost[t], emitted[t], HandledOf(events, emitted)[t])
BY DEF MemoryInv, Push!PushTypeOK, Remembered, Told, Sound

LEMMA EmitKeeps ==
  ASSUME MemoryInv, NEW i, Push!Emit(i)
  PROVE  MemoryInv'
<1> DEFINE h == HandledOf(events, emitted)
<1>1. Push!PushTypeOK /\ Remembered(ledger, notices, lost, emitted, h, received)
  BY DEF MemoryInv
<1>2. PICK e \in Push!Event :
           /\ e.nth = Len(emitted[e.trip]) + 1
           /\ emitted' = [emitted EXCEPT ![e.trip] = Append(@, e.kind)]
           /\ events' = Append(events, e)
           /\ committed' \in Seq(Push!Fact)
           /\ UNCHANGED <<ledger, lost, notices, drops, received, devices, trimming, untrimmed>>
  BY <1>1, EmitIs
<1>3. e.trip \in Trip /\ e.kind \in Push!Noticed
  BY DEF Push!Event
<1>4. HandledOf(events', emitted') = h
  BY <1>2, MemoryParts, EmitCounts
<1>5. /\ emitted' \in [Trip -> Seq(Push!Noticed)] /\ events' \in Seq(Push!Event)
  BY <1>2, <1>3, MemoryParts
<1>6. InLine(events', h, emitted') /\ LastWaits(events', h, emitted')
  <2>1. InLine(events, h, emitted) /\ LastWaits(events, h, emitted)
    BY DEF MemoryInv
  <2>2. h \in [Trip -> Nat] /\ \A t \in Trip : h[t] <= Len(emitted[t])
    BY CountsTyped
  <2> HIDE DEF h
  <2> QED  BY <1>2, <2>1, <2>2, MemoryParts, InLineAppend
<1>7. GoOn(notices, lost, emitted, notices, lost, emitted', h)
  <2> SUFFICES ASSUME NEW t \in Trip
               PROVE  /\ Prolongs(notices[t], notices[t], lost[t], lost[t], emitted[t], emitted'[t])
                      /\ InTime(notices[t], lost[t], emitted'[t], h[t])
    BY DEF GoOn
  <2>1. /\ emitted[t] \in Seq(Push!Noticed) /\ notices[t] \in Seq(Push!Notice)
        /\ InTime(notices[t], lost[t], emitted[t], h[t])
    BY MemoryParts
  <2>2. emitted'[t] = IF t = e.trip THEN Append(emitted[t], e.kind) ELSE emitted[t]
    BY <1>2, <1>3, MemoryParts
  <2>3. /\ Len(emitted[t]) \in Nat /\ Len(emitted'[t]) \in Nat /\ Len(emitted[t]) <= Len(emitted'[t])
        /\ \A m \in 1..Len(emitted[t]) : emitted'[t][m] = emitted[t][m]
    BY <1>3, <2>1, <2>2
  <2> HIDE DEF h
  <2>4. InTime(notices[t], lost[t], emitted'[t], h[t])
    BY <2>1, <2>3 DEF InTime
  <2>5. Len(notices[t]) <= Len(notices[t])
    BY <2>1
  <2> QED  BY <2>3, <2>4, <2>5 DEF Prolongs
<1> HIDE DEF h
<1>8. LosesRest(ledger, ledger, lost, h)
  BY DEF LosesRest
<1>9. Remembered(ledger, notices, lost, emitted', h, received)
  BY <1>1, <1>5, <1>7, <1>8, MemoryParts, RemainsItself, RememberedStays
<1>10. Remembered(ledger', notices', lost', emitted', h, received')
  BY <1>2, <1>9
<1>11. Push!PushTypeOK'
  BY <1>2, <1>5, <1>10, MemoryParts, TypesOf
<1> QED  BY <1>4, <1>6, <1>10, <1>11 DEF MemoryInv

LEMMA CloseKeeps ==
  ASSUME MemoryInv, NEW i, Push!EmitClosed(i)
  PROVE  MemoryInv'
<1> DEFINE h == HandledOf(events, emitted)
<1>1. Push!PushTypeOK /\ Remembered(ledger, notices, lost, emitted, h, received)
  BY DEF MemoryInv
<1>2. PICK t \in Trip :
           /\ lost' = Push!Losing({ ledger[k].trip : k \in Push!Of(t, ledger) })
           /\ ledger' = Push!Without(t, ledger)
           /\ committed' \in Seq(Push!Fact)
           /\ UNCHANGED <<events, emitted, notices, drops, received, devices, trimming, untrimmed>>
  BY <1>1, CloseIs
<1> DEFINE T == { ledger[k].trip : k \in Push!Of(t, ledger) }
<1>3. LosesTrips(T, lost, lost', h)
  BY <1>2, LosingIs DEF LosesTrips
<1>4. /\ ledger' \in Seq(Push!TripEntry) /\ Remains(ledger', ledger)
      /\ \A k \in 1..Len(ledger) : ledger[k].trip # t => \E l \in 1..Len(ledger') : ledger'[l] = ledger[k]
  BY <1>2, MemoryParts, WithoutIs
<1>5. LeavesBut(T, ledger', ledger)
  <2> SUFFICES ASSUME NEW k \in 1..Len(ledger), \A l \in 1..Len(ledger') : ledger'[l].trip # ledger[k].trip
               PROVE  ledger[k].trip \in T
    BY DEF LeavesBut
  <2>1. ledger[k].trip = t
    BY <1>4
  <2> QED  BY <2>1 DEF Push!Of
<1> HIDE DEF h, T
<1>6. Remembered(ledger', notices, lost', emitted, h, received)
  BY <1>1, <1>3, <1>4, <1>5, LosingKeeps
<1>7. Remembered(ledger', notices', lost', emitted', h, received')
  BY <1>2, <1>6
<1>8. Push!PushTypeOK'
  BY <1>2, <1>7, MemoryParts, TypesOf
<1>9. HandledOf(events', emitted') = h /\ events' = events /\ emitted' = emitted
  BY <1>2 DEF h
<1>10. InLine(events, h, emitted) /\ LastWaits(events, h, emitted)
  BY DEF MemoryInv, h
<1> QED  BY <1>7, <1>8, <1>9, <1>10 DEF MemoryInv

LEMMA HandleKeeps ==
  ASSUME MemoryInv, Push!HandleEvent
  PROVE  MemoryInv'
<1> DEFINE h == HandledOf(events, emitted)
           lo == Push!Losing(Push!ForgottenFor(events[1]))
<1>1. Push!PushTypeOK /\ InLine(events, h, emitted) /\ LastWaits(events, h, emitted)
  BY DEF MemoryInv
<1>2. PICK ev \in Push!Event :
           /\ events # <<>> /\ Len(events) \in Nat \ {0} /\ ev = events[1]
           /\ ledger' = IF Closes(ev) THEN Push!Without(ev.trip, After(ev)) ELSE After(ev)
           /\ lost' = IF Closes(ev)
                      THEN [Push!Losing(Push!ForgottenFor(ev)) EXCEPT ![ev.trip] = @ \cup {ev.nth}]
                      ELSE Push!Losing(Push!ForgottenFor(ev))
           /\ notices' = IF Push!Capped(Entry(ev)) THEN notices
                         ELSE [notices EXCEPT ![ev.trip] = Append(@, NewNotice(ev))]
           /\ events' = Tail(events)
           /\ UNCHANGED <<committed, emitted, drops, received, devices, trimming, untrimmed>>
  BY <1>1, HandleIs
<1> DEFINE t == ev.trip
           g == [h EXCEPT ![t] = @ + 1]
<1>3. t \in Trip /\ ev.nth \in Nat /\ h \in [Trip -> Nat]
  BY CountsTyped DEF Push!Event
<1>4. g \in [Trip -> Nat] /\ g[t] = h[t] + 1
  BY <1>3
<1>5. HandledOf(events', emitted') = g
  BY <1>2, MemoryParts, TailCounts
<1>6. /\ ev.nth = h[t] + 1 /\ emitted[t][ev.nth] = ev.kind /\ ev.nth <= Len(emitted[t])
      /\ InLine(events', g, emitted') /\ LastWaits(events', g, emitted')
  <2> HIDE DEF h
  <2> QED  BY <1>1, <1>2, <1>3, MemoryParts, InLineTail
<1>7. Remembered(After(ev), notices', lo, emitted, g, received)
  BY <1>2, <1>6, HandledKeeps
<1> HIDE DEF h, g
<1>8. Remembered(ledger', notices', lost', emitted, g, received)
  <2>1. CASE ~Closes(ev)
    BY <1>2, <1>7, <2>1
  <2>2. CASE Closes(ev)
    <3>1. /\ ledger' = Push!Without(t, After(ev))
          /\ lost' = [lo EXCEPT ![t] = @ \cup {g[t]}]
      BY <1>2, <1>4, <1>6, <2>2
    <3>2. After(ev) \in Seq(Push!TripEntry) /\ OnePerTrip(After(ev)) /\ lo \in [Trip -> SUBSET Nat]
      BY <1>7 DEF Remembered
    <3> HIDE DEF lo, t
    <3>3. LosesTrips({t}, lo, lost', g)
      BY <1>3, <1>4, <3>1, <3>2 DEF LosesTrips
    <3>4. /\ ledger' \in Seq(Push!TripEntry) /\ Remains(ledger', After(ev))
          /\ \A k \in 1..Len(After(ev)) : After(ev)[k].trip # t => \E l \in 1..Len(ledger') : ledger'[l] = After(ev)[k]
      BY <1>3, <3>1, <3>2, WithoutIs
    <3>5. LeavesBut({t}, ledger', After(ev))
      BY <3>4 DEF LeavesBut
    <3> QED  BY <1>7, <3>3, <3>4, <3>5, LosingKeeps
  <2> QED  BY <2>1, <2>2
<1>9. Remembered(ledger', notices', lost', emitted', g, received')
  BY <1>2, <1>8
<1>10. events' \in Seq(Push!Event)
  BY <1>2, MemoryParts
<1>11. Push!PushTypeOK'
  BY <1>2, <1>9, <1>10, MemoryParts, TypesOf
<1> QED  BY <1>5, <1>6, <1>9, <1>11 DEF MemoryInv

LEMMA GrowKeeps ==
  ASSUME MemoryInv, NEW i, Push!GrowOld(i)
  PROVE  MemoryInv'
<1> DEFINE h == HandledOf(events, emitted)
<1>1. Push!PushTypeOK /\ Remembered(ledger, notices, lost, emitted, h, received)
  BY DEF MemoryInv
<1>2. /\ i \in 1..Len(ledger) /\ ledger' = [ledger EXCEPT ![i].expired = TRUE]
      /\ UNCHANGED <<committed, events, emitted, lost, notices, drops, received, devices, trimming, untrimmed>>
  BY DEF Push!GrowOld, Push!deviceVars
<1>3. ledger \in Seq(Push!TripEntry) /\ ledger[i] \in Push!TripEntry
  BY <1>2, MemoryParts, LedgerTyped
<1> DEFINE e == [ledger[i] EXCEPT !.expired = TRUE]
<1>4. e \in Push!TripEntry /\ Alike(e, ledger[i])
  BY <1>3 DEF Push!TripEntry, Alike
<1>5. ledger' = [ledger EXCEPT ![i] = e]
  BY <1>2
<1> HIDE DEF e
<1>6. /\ ledger' \in Seq(Push!TripEntry) /\ Len(ledger') = Len(ledger)
      /\ \A k \in 1..Len(ledger) : ledger'[k] = IF k = i THEN e ELSE ledger[k]
  <2> DEFINE s == [ledger EXCEPT ![i] = e]
  <2>1. /\ s \in Seq(Push!TripEntry) /\ Len(s) = Len(ledger)
        /\ \A k \in 1..Len(ledger) : s[k] = IF k = i THEN e ELSE ledger[k]
    BY <1>2, <1>3, <1>4
  <2> HIDE DEF s
  <2>2. ledger' = s
    BY <1>5 DEF s
  <2> QED  BY <2>1, <2>2
<1>7. \A k \in 1..Len(ledger) : Alike(ledger'[k], ledger[k])
  BY <1>4, <1>6 DEF Alike
<1>8. Remains(ledger', ledger)
  <2> DEFINE g == [k \in 1..Len(ledger) |-> k]
  <2>1. g \in [1..Len(ledger') -> 1..Len(ledger)] /\ \A k \in 1..Len(ledger) : g[k] = k
    BY <1>6
  <2> HIDE DEF g
  <2> QED  BY <1>6, <1>7, <2>1 DEF Remains
<1>9. LosesRest(ledger', ledger, lost, h)
  BY <1>6, <1>7 DEF LosesRest, Alike
<1> HIDE DEF h
<1>10. GoOn(notices, lost, emitted, notices, lost, emitted, h)
  <2>1. \A t \in Trip : /\ Prolongs(notices[t], notices[t], lost[t], lost[t], emitted[t], emitted[t])
                        /\ InTime(notices[t], lost[t], emitted[t], h[t])
    BY MemoryParts, Unmoved DEF h
  <2> QED  BY <2>1 DEF GoOn
<1>11. Remembered(ledger', notices, lost, emitted, h, received)
  BY <1>1, <1>6, <1>8, <1>9, <1>10, MemoryParts, RememberedStays
<1>12. Remembered(ledger', notices', lost', emitted', h, received')
  BY <1>2, <1>11
<1>13. Push!PushTypeOK'
  BY <1>2, <1>12, MemoryParts, TypesOf
<1>14. HandledOf(events', emitted') = h /\ events' = events /\ emitted' = emitted
  BY <1>2 DEF h
<1>15. InLine(events, h, emitted) /\ LastWaits(events, h, emitted)
  BY DEF MemoryInv, h
<1> QED  BY <1>12, <1>13, <1>14, <1>15 DEF MemoryInv

(* After a restart nothing waits, and every trip is forgotten.             *)
LEMMA RestartKeeps ==
  ASSUME MemoryInv, Push!Restart
  PROVE  MemoryInv'
<1> DEFINE h == HandledOf(events, emitted)
           g == [t \in Trip |-> Len(emitted[t])]
           Stopped(n) == [n EXCEPT !.stage = "done", !.tokens = {}]
<1>1. /\ committed' = <<>> /\ events' = <<>> /\ ledger' = <<>> /\ drops' = {}
      /\ lost' = [t \in Trip |-> lost[t] \cup {Len(emitted[t])}]
      /\ notices' = [t \in Trip |-> [i \in 1..Len(notices[t]) |-> Stopped(notices[t][i])]]
      /\ trimming' = [u \in Passenger |-> 0]
      /\ untrimmed' = [u \in Passenger |-> untrimmed[u] + trimming[u]]
      /\ emitted' = emitted /\ received' = received /\ devices' = devices
  BY DEF Push!Restart
<1>2. g \in [Trip -> Nat] /\ \A t \in Trip : g[t] = Len(emitted[t])
  BY MemoryParts
<1>3. ASSUME NEW n \in Push!Notice
      PROVE  /\ Stopped(n) \in Push!Notice /\ Stopped(n).stage = "done" /\ Stopped(n).at = n.at
             /\ Stopped(n).chain = n.chain /\ Stopped(n).type = n.type /\ Stopped(n).late = n.late
  BY DEF Push!Notice
<1>4. ASSUME NEW t \in Trip
      PROVE  /\ notices[t] \in Seq(Push!Notice) /\ Len(notices[t]) \in Nat
             /\ \A i \in 1..Len(notices[t]) : notices[t][i] \in Push!Notice
             /\ Told(notices[t], lost[t], emitted[t])
             /\ Sound(notices[t], lost[t], emitted[t], h[t], received[t])
             /\ InTime(notices[t], lost[t], emitted[t], h[t])
             /\ received[t] \in Seq(Nat) /\ emitted[t] \in Seq(Push!Noticed) /\ lost[t] \in SUBSET Nat
  BY MemoryParts, NoticeOf DEF MemoryInv
<1> HIDE DEF Stopped, g, h
<1>5. ASSUME NEW t \in Trip
      PROVE  /\ notices'[t] \in Seq(Push!Notice) /\ Len(notices'[t]) = Len(notices[t])
             /\ \A i \in 1..Len(notices[t]) : notices'[t][i] = Stopped(notices[t][i])
  <2>1. notices'[t] = [i \in 1..Len(notices[t]) |-> Stopped(notices[t][i])]
    BY <1>1
  <2>2. \A i \in 1..Len(notices[t]) : Stopped(notices[t][i]) \in Push!Notice
    BY <1>3, <1>4
  <2> QED  BY <1>4, <2>1, <2>2
<1>6. notices' \in [Trip -> Seq(Push!Notice)] /\ lost' \in [Trip -> SUBSET Nat]
  <2>1. DOMAIN notices' = Trip /\ notices' = [t \in Trip |-> notices'[t]]
    BY <1>1
  <2>2. \A t \in Trip : lost'[t] = lost[t] \cup {g[t]} /\ lost'[t] \in SUBSET Nat
    BY <1>1, <1>2, <1>4
  <2> QED  BY <1>1, <1>5, <2>1, <2>2
<1>7. ASSUME NEW t \in Trip
      PROVE  /\ Told(notices'[t], lost'[t], emitted[t])
             /\ InTime(notices'[t], lost'[t], emitted[t], g[t])
             /\ g[t] \in lost'[t]
             /\ Prolongs(notices[t], notices'[t], lost[t], lost'[t], emitted[t], emitted[t])
  <2>1. lost'[t] = lost[t] \cup {g[t]} /\ g[t] \in Nat /\ g[t] = Len(emitted[t])
    BY <1>1, <1>2
  <2>2. Told(notices'[t], lost'[t], emitted[t])
    BY <1>4, <1>5, <1>6 DEF Told
  <2>3. /\ h[t] \in Nat /\ h[t] <= g[t] /\ \A k \in lost[t] : k <= h[t] /\ k \in Nat
        /\ \A i \in 1..Len(notices[t]) : notices[t][i].at <= h[t] /\ notices[t][i].at \in Nat
    BY <1>4, <2>1, ToldTyped DEF InTime
  <2>4. \A i \in 1..Len(notices[t]) : notices'[t][i].at <= g[t]
    <3>1. \A i \in 1..Len(notices[t]) : notices'[t][i].at = notices[t][i].at
      BY <1>3, <1>4, <1>5
    <3> QED  BY <2>1, <2>3, <3>1
  <2>5. InTime(notices'[t], lost'[t], emitted[t], g[t])
    <3>1. \A k \in lost'[t] : k <= g[t]
      BY <2>1, <2>3
    <3>2. g[t] <= Len(emitted[t])
      BY <2>1
    <3> QED  BY <1>5, <2>1, <2>4, <3>1, <3>2 DEF InTime
  <2>6. Prolongs(notices[t], notices'[t], lost[t], lost'[t], emitted[t], emitted[t])
    <3>1. Len(notices[t]) <= Len(notices'[t]) /\ Len(emitted[t]) <= Len(emitted[t])
      BY <1>2, <1>4, <1>5
    <3>2. \A i \in 1..Len(notices[t]) :
            /\ notices'[t][i].at = notices[t][i].at /\ notices'[t][i].chain = notices[t][i].chain
            /\ notices'[t][i].type = notices[t][i].type
            /\ notices'[t][i].stage = "done" /\ notices'[t][i].late = notices[t][i].late
      BY <1>3, <1>4, <1>5
    <3> QED  BY <2>1, <3>1, <3>2 DEF Prolongs
  <2> QED  BY <2>1, <2>2, <2>5, <2>6
<1>8. ASSUME NEW t \in Trip PROVE Sound(notices'[t], lost'[t], emitted[t], g[t], received[t])
  BY <1>4, <1>5, <1>7, SoundStays
<1>9. OnePerTrip(ledger') /\ LedgerSound(ledger', notices', lost', emitted, g) /\ ledger' \in Seq(Push!TripEntry)
  <2>1. Len(ledger') = 0 /\ ledger' \in Seq(Push!TripEntry) /\ ~\E i \in 1..Len(ledger') : TRUE
    BY <1>1
  <2>2. \A t \in Trip : Blank(notices'[t], lost'[t], emitted[t], g[t])
    BY <1>7, LostIsBlank
  <2> QED  BY <2>1, <2>2 DEF OnePerTrip, LedgerSound
<1>10. Remembered(ledger', notices', lost', emitted', g, received')
  BY <1>1, <1>2, <1>6, <1>8, <1>9, MemoryParts DEF Remembered
<1>11. /\ committed' \in Seq(Push!Fact) /\ events' \in Seq(Push!Event) /\ drops' \subseteq Token
       /\ devices' \in Seq([token : Token, user : Passenger])
       /\ trimming' \in [Passenger -> Nat] /\ untrimmed' \in [Passenger -> Nat]
  BY <1>1, MemoryParts
<1>12. Push!PushTypeOK'
  BY <1>10, <1>11, TypesOf
<1>13. HandledOf(events', emitted') = g
  BY <1>1, MemoryParts, NoneCounts DEF g
<1>14. InLine(events', g, emitted') /\ LastWaits(events', g, emitted')
  <2>1. ~\E i \in 1..Len(events') : TRUE
    BY <1>1
  <2> QED  BY <1>1, <1>2, <2>1 DEF InLine, LastWaits
<1> QED  BY <1>10, <1>12, <1>13, <1>14 DEF MemoryInv

(* Steps that leave the ledger and the events alone.                       *)
LEMMA QuietKeeps ==
  ASSUME MemoryInv, UNCHANGED <<events, ledger, emitted, lost, notices, received>>,
         committed' \in Seq(Push!Fact), drops' \subseteq Token,
         devices' \in Seq([token : Token, user : Passenger]),
         trimming' \in [Passenger -> Nat], untrimmed' \in [Passenger -> Nat]
  PROVE  MemoryInv'
<1> DEFINE h == HandledOf(events, emitted)
<1>1. Remembered(ledger', notices', lost', emitted', h, received')
  BY DEF MemoryInv
<1>2. events' \in Seq(Push!Event)
  BY MemoryParts
<1>3. Push!PushTypeOK'
  BY <1>1, <1>2, TypesOf
<1>4. HandledOf(events', emitted') = h
  OBVIOUS
<1>5. InLine(events', h, emitted') /\ LastWaits(events', h, emitted')
  BY DEF MemoryInv
<1> QED  BY <1>1, <1>3, <1>4, <1>5 DEF MemoryInv

LEMMA MovedFits ==
  ASSUME MemoryInv, NEW t \in Trip, NEW i, NEW m, GoesOn(t, i, m)
  PROVE  Remembered(ledger, notices', lost, emitted, HandledOf(events, emitted), received)
<1> DEFINE h == HandledOf(events, emitted)
<1>1. Push!PushTypeOK /\ Remembered(ledger, notices, lost, emitted, h, received)
  BY DEF MemoryInv
<1>2. /\ notices' \in [Trip -> Seq(Push!Notice)]
      /\ \A u \in Trip : Len(notices'[u]) = Len(notices[u])
      /\ \A u \in Trip : \A k \in 1..Len(notices[u]) :
           notices'[u][k] = IF u = t /\ k = i THEN m ELSE notices[u][k]
  BY <1>1, GoneOn
<1>3. /\ i \in 1..Len(notices[t]) /\ notices[t][i].stage # "done" /\ m \in Push!Notice
      /\ m.at = notices[t][i].at /\ m.chain = notices[t][i].chain /\ m.type = notices[t][i].type
      /\ notices[t][i].late => m.late
  BY DEF GoesOn
<1>4. ASSUME NEW u \in Trip
      PROVE  /\ Prolongs(notices[u], notices'[u], lost[u], lost[u], emitted[u], emitted[u])
             /\ InTime(notices'[u], lost[u], emitted[u], h[u])
             /\ Len(notices'[u]) = Len(notices[u])
  <2>1. \A k \in 1..Len(notices[u]) :
            /\ notices'[u][k].at = notices[u][k].at /\ notices'[u][k].chain = notices[u][k].chain
            /\ notices'[u][k].type = notices[u][k].type
            /\ notices[u][k].stage = "done" => notices'[u][k].stage = "done"
            /\ notices[u][k].late => notices'[u][k].late
    BY <1>2, <1>3
  <2>2. Len(notices[u]) <= Len(notices'[u]) /\ Len(emitted[u]) <= Len(emitted[u])
    BY <1>2, MemoryParts
  <2>3. InTime(notices[u], lost[u], emitted[u], h[u])
    BY MemoryParts
  <2> HIDE DEF h
  <2>4. InTime(notices'[u], lost[u], emitted[u], h[u])
    BY <1>2, <2>1, <2>3 DEF InTime
  <2> QED  BY <1>2, <2>1, <2>2, <2>4 DEF Prolongs
<1> HIDE DEF h
<1>5. LosesRest(ledger, ledger, lost, h) /\ GoOn(notices, lost, emitted, notices', lost, emitted, h)
  BY <1>4 DEF LosesRest, GoOn
<1>6. Remembered(ledger, notices', lost, emitted, h, received)
  BY <1>1, <1>2, <1>5, MemoryParts, RemainsItself, RememberedStays
<1> QED  BY <1>6 DEF h

LEMMA SendKeeps ==
  ASSUME MemoryInv, NEW t \in Trip, NEW i, NEW m, GoesOn(t, i, m),
         UNCHANGED <<committed, events, ledger, emitted, lost, devices, trimming, untrimmed>>,
         drops' \subseteq Token,
         NEW rs, received' = rs, Remembered(ledger, notices', lost, emitted, HandledOf(events, emitted), rs)
  PROVE  MemoryInv'
<1> DEFINE h == HandledOf(events, emitted)
<1>1. Remembered(ledger', notices', lost', emitted', h, received')
  OBVIOUS
<1>2. Push!PushTypeOK'
  BY <1>1, MemoryParts, TypesOf
<1>3. HandledOf(events', emitted') = h
  OBVIOUS
<1>4. InLine(events', h, emitted') /\ LastWaits(events', h, emitted')
  BY DEF MemoryInv
<1> QED  BY <1>1, <1>2, <1>3, <1>4 DEF MemoryInv

(* A notice is received when those of its chain have been, or are late.    *)
LEMMA ReceiptFits ==
  ASSUME MemoryInv, NEW t \in Trip, NEW i, NEW m, GoesOn(t, i, m), m.stage = "done", Push!InTurn(t, i)
  PROVE  Remembered(ledger, notices', lost, emitted, HandledOf(events, emitted),
                    [received EXCEPT ![t] = Append(@, i)])
<1> DEFINE h == HandledOf(events, emitted)
           ns == notices[t]
           ms == notices'[t]
           lo == lost[t]
           rs == received[t]
<1>1. Push!PushTypeOK
  BY DEF MemoryInv
<1>2. Remembered(ledger, notices', lost, emitted, h, received)
  BY MovedFits
<1>3. /\ Len(ms) = Len(ns) /\ \A k \in 1..Len(ns) : ms[k] = IF k = i THEN m ELSE ns[k]
  BY <1>1, GoneOn
<1>4. /\ i \in 1..Len(ns) /\ ns[i].stage # "done" /\ m.at = ns[i].at /\ (ns[i].late => m.late)
      /\ Len(ns) \in Nat /\ rs \in Seq(Nat) /\ received \in [Trip -> Seq(Nat)]
  BY <1>1, NoticeOf, MemoryParts DEF GoesOn, Push!Notice
<1>5. \A j \in 1..(i - 1) : ns[j].chain = ns[i].chain => ns[j].stage = "done" \/ ns[j].late
  BY DEF Push!InTurn
<1>6. Sound(ns, lo, emitted[t], h[t], rs) /\ Sound(ms, lo, emitted[t], h[t], rs)
  BY <1>2, MemoryParts DEF Remembered
<1> HIDE DEF h, ns, ms, lo, rs
<1>a. i \in Nat
  BY <1>4
<1>7. CameAt(i, ms, lo)
  <2>1. i \in 1..Len(ms) /\ ms[i].stage = "done" /\ ms[i].at = ns[i].at
    BY <1>3, <1>4, <1>a
  <2>2. ASSUME NEW j \in 1..(i - 1)
        PROVE  ms[j].stage = "done" \/ ms[j].late \/ LostIn(lo, ms[j].at, ms[i].at)
    <3>1. j \in 1..Len(ns) /\ j # i
      BY <1>4
    <3>2. ms[j] = ns[j]
      BY <1>3, <3>1
    <3>3. ns[j].chain = ns[i].chain \/ LostIn(lo, ns[j].at, ns[i].at)
      BY <1>4, <1>6 DEF Sound, ChainsAt
    <3> QED  BY <1>5, <2>1, <3>2, <3>3
  <2> QED  BY <2>1, <2>2 DEF CameAt
<1>8. ASSUME NEW a \in 1..Len(rs) PROVE FollowsAt(rs[a], i, ms, lo)
  <2>1. CameAt(rs[a], ns, lo)
    BY <1>6 DEF Sound
  <2>2. rs[a] \in 1..Len(ns) /\ rs[a] # i
    BY <1>4, <2>1 DEF CameAt
  <2>3. ms[rs[a]].at = ns[rs[a]].at /\ ms[i].at = ns[i].at /\ (ns[i].late => ms[i].late)
    BY <1>3, <1>4, <1>a, <2>2
  <2>4. CASE rs[a] < i
    BY <2>2, <2>4 DEF FollowsAt
  <2>5. CASE ~(rs[a] < i)
    <3>1. i \in 1..(rs[a] - 1)
      BY <1>4, <2>2, <2>5
    <3>2. ns[i].stage = "done" \/ ns[i].late \/ LostIn(lo, ns[i].at, ns[rs[a]].at)
      BY <2>1, <3>1 DEF CameAt
    <3> QED  BY <1>4, <2>2, <2>3, <3>2 DEF FollowsAt
  <2> QED  BY <2>4, <2>5
<1>9. Sound(ms, lo, emitted[t], h[t], Append(rs, i))
  BY <1>4, <1>6, <1>7, <1>8, <1>a, OneMoreCame
<1> DEFINE r2 == [received EXCEPT ![t] = Append(@, i)]
<1>10. r2 \in [Trip -> Seq(Nat)] /\ r2[t] = Append(rs, i) /\ \A u \in Trip : u # t => r2[u] = received[u]
  BY <1>4, <1>a DEF rs
<1> HIDE DEF r2
<1>11. ASSUME NEW u \in Trip PROVE Sound(notices'[u], lost[u], emitted[u], h[u], r2[u])
  <2>1. CASE u = t
    BY <1>9, <1>10, <2>1 DEF ms, lo
  <2>2. CASE u # t
    BY <1>2, <1>10, <2>2 DEF Remembered
  <2> QED  BY <2>1, <2>2
<1>12. Remembered(ledger, notices', lost, emitted, h, r2)
  BY <1>2, <1>10, <1>11 DEF Remembered
<1> QED  BY <1>12 DEF h, r2

LEMMA SendingKeeps ==
  ASSUME MemoryInv, NEW t \in Trip, NEW i,
         Push!ListByUser(t, i) \/ Push!SendFails(t, i) \/ Push!SendTimesOut(t, i)
  PROVE  MemoryInv'
<1>1. Push!PushTypeOK /\ drops \subseteq Token
  BY DEF MemoryInv, Push!PushTypeOK
<1>2. PICK m : GoesOn(t, i, m)
  BY <1>1, SendGoesOn
<1>3. UNCHANGED <<committed, events, ledger, emitted, lost, devices, trimming, untrimmed, drops, received>>
  BY DEF Push!ListByUser, Push!SendFails, Push!SendTimesOut, Push!ledgerVars, Push!deviceVars
<1>4. Remembered(ledger, notices', lost, emitted, HandledOf(events, emitted), received)
  BY <1>2, MovedFits
<1> QED  BY <1>1, <1>2, <1>3, <1>4, SendKeeps

LEMMA SentKeeps ==
  ASSUME MemoryInv, NEW t \in Trip, NEW i, NEW gone, Push!SendPushNotifications(t, i, gone)
  PROVE  MemoryInv'
<1>1. Push!PushTypeOK /\ drops \subseteq Token
  BY DEF MemoryInv, Push!PushTypeOK
<1>2. PICK m : GoesOn(t, i, m) /\ m.stage = "done"
  BY <1>1, SendGoesOn
<1>3. /\ UNCHANGED <<committed, events, ledger, emitted, lost, devices, trimming, untrimmed>>
      /\ received' = [received EXCEPT ![t] = Append(@, i)] /\ drops' = drops \cup gone
      /\ gone \subseteq notices[t][i].tokens /\ i \in 1..Len(notices[t]) /\ Push!InTurn(t, i)
  BY DEF Push!SendPushNotifications, Push!Sending, Push!ledgerVars, Push!deviceVars
<1>4. notices[t][i] \in Push!Notice
  BY <1>1, <1>3, NoticeOf
<1>5. notices[t][i].tokens \subseteq Token
  BY <1>4 DEF Push!Notice
<1>6. drops' \subseteq Token
  BY <1>1, <1>3, <1>5
<1> DEFINE rs == [received EXCEPT ![t] = Append(@, i)]
<1>7. Remembered(ledger, notices', lost, emitted, HandledOf(events, emitted), rs)
  BY <1>2, <1>3, ReceiptFits
<1>8. received' = rs
  BY <1>3
<1> HIDE DEF rs
<1> QED  BY <1>2, <1>3, <1>6, <1>7, <1>8, SendKeeps

LEMMA DevicesKeep ==
  ASSUME MemoryInv, NEW u, NEW tok, NEW n, DeviceStep(u, tok, n)
  PROVE  MemoryInv'
<1>1. Push!PushTypeOK
  BY DEF MemoryInv
<1>2. /\ devices' \in Seq([token : Token, user : Passenger]) /\ drops' \subseteq Token
      /\ trimming' \in [Passenger -> Nat] /\ untrimmed' \in [Passenger -> Nat]
      /\ UNCHANGED <<committed, events, ledger, emitted, lost, notices, received>>
  BY <1>1, DeviceStepTyped
<1>3. committed' \in Seq(Push!Fact)
  BY <1>2, MemoryParts
<1> QED  BY <1>2, <1>3, QuietKeeps

(* Something has happened to a trip of a passenger.                        *)
LEMMA TellKeeps ==
  ASSUME MemoryInv, NEW t \in Trip, NEW u \in Passenger, NEW kind \in Push!Noticed \cup {"closed"},
         Push!Happens(t, u, kind)
  PROVE  MemoryInv'
<1>1. /\ committed' = Append(committed, [trip |-> t, to |-> u, kind |-> kind])
      /\ UNCHANGED <<events, ledger, emitted, lost, notices, received, drops, devices, trimming, untrimmed>>
  BY DEF Push!Happens, Push!deviceVars
<1>2. [trip |-> t, to |-> u, kind |-> kind] \in Push!Fact
  BY DEF Push!Fact
<1>3. committed' \in Seq(Push!Fact)
  BY <1>1, <1>2, MemoryParts
<1> QED  BY <1>1, <1>3, MemoryParts, QuietKeeps

LEMMA StillKeeps ==
  ASSUME MemoryInv, UNCHANGED pushVars
  PROVE  MemoryInv'
<1>1. UNCHANGED <<committed, events, ledger, notices, drops, devices, trimming, emitted, lost, received, untrimmed>>
  BY DEF pushVars
<1> QED  BY <1>1, MemoryParts, QuietKeeps

(* The passenger a step of a trip tells of it.                             *)
LEMMA StepTells ==
  ASSUME BookingInv, NEW t \in Trip, TripStep(t)
  PROVE  \/ UNCHANGED pushVars
         \/ \E u \in Passenger, kind \in Push!Noticed \cup {"closed"} : Push!Happens(t, u, kind)
<1>1. CASE \E to \in TripStatus : Progress(t, to) /\ UNCHANGED pushVars
  BY <1>1
<1>2. CASE ~\E to \in TripStatus : Progress(t, to) /\ UNCHANGED pushVars
  <2>1. PICK kind \in Push!Noticed \cup {"closed"} : Tells(t, kind)
    BY <1>2 DEF TripStep, ClosingKind, Push!Noticed
  <2>2. trip[t] # None
    BY <1>2 DEF TripStep, Take, GiveBack, MarkArrived, MarkNoDriver, Close, Is
  <2>3. trip[t] \in TripRequest
    BY <2>2, RowKnown
  <2>4. trip[t].passenger \in Passenger
    BY <2>3, RowParts
  <2> QED  BY <2>1, <2>4 DEF Tells
<1> QED  BY <1>1, <1>2

LEMMA PushKinds ==
  ASSUME Push!PushNext
  PROVE  \/ \E i \in 1..Len(committed) : Push!Emit(i) \/ Push!EmitClosed(i)
         \/ Push!HandleEvent \/ Push!Restart \/ \E i \in 1..Len(ledger) : Push!GrowOld(i)
         \/ \E t \in Trip : \E i :
              \/ Push!ListByUser(t, i) \/ Push!SendFails(t, i) \/ Push!SendTimesOut(t, i)
              \/ \E gone \in SUBSET notices[t][i].tokens : Push!SendPushNotifications(t, i, gone)
         \/ \E u, tok, n : DeviceStep(u, tok, n)
BY DEF Push!PushNext, DeviceStep

LEMMA PushKeeps == ASSUME MemoryInv, Push!PushNext PROVE MemoryInv'
<1>1. CASE \E i \in 1..Len(committed) : Push!Emit(i) \/ Push!EmitClosed(i)
  BY <1>1, EmitKeeps, CloseKeeps
<1>2. CASE Push!HandleEvent \/ Push!Restart \/ \E i \in 1..Len(ledger) : Push!GrowOld(i)
  BY <1>2, HandleKeeps, RestartKeeps, GrowKeeps
<1>3. ASSUME NEW t \in Trip, NEW i,
             \/ Push!ListByUser(t, i) \/ Push!SendFails(t, i) \/ Push!SendTimesOut(t, i)
             \/ \E gone \in SUBSET notices[t][i].tokens : Push!SendPushNotifications(t, i, gone)
      PROVE  MemoryInv'
  <2>1. ASSUME NEW gone, Push!SendPushNotifications(t, i, gone) PROVE MemoryInv'
    BY <2>1, SentKeeps
  <2> QED  BY <1>3, <2>1, SendingKeeps
<1>4. CASE \E u, tok, n : DeviceStep(u, tok, n)
  BY <1>4, DevicesKeep
<1> QED  BY <1>1, <1>2, <1>3, <1>4, PushKinds

-----------------------------------------------------------------------------
(* The phones of a passenger.                                              *)

Owned(u, rows) == { rows[i].token : i \in { k \in 1..Len(rows) : rows[k].user = u } }

Bounded(rows, late, failed) ==
  \A u \in Passenger : Cardinality(Owned(u, rows)) <= MaxTokens + late[u] + failed[u]

LEMMA TokensOf ==
  ASSUME NEW n \in Nat, NEW f, NEW P \in SUBSET (1..n)
  PROVE  LET T == { f[i].token : i \in P }
         IN  IsFiniteSet(T) /\ Cardinality(T) <= Cardinality(P) /\ Cardinality(T) \in Nat
<1> DEFINE T == { f[i].token : i \in P }
<1>1. IsFiniteSet(P)
  BY PlacesFinite
<1>2. [i \in P |-> f[i].token] \in Surjection(P, T)
  BY DEF Surjection
<1> HIDE DEF T
<1>3. IsFiniteSet(T) /\ Cardinality(T) <= Cardinality(P)
  BY <1>1, <1>2, FS_Surjection
<1>4. Cardinality(T) \in Nat
  BY <1>3, FS_CardinalityType
<1> QED  BY <1>3, <1>4 DEF T

LEMMA OwnedTyped ==
  ASSUME NEW rows, Len(rows) \in Nat, NEW u
  PROVE  IsFiniteSet(Owned(u, rows)) /\ Cardinality(Owned(u, rows)) \in Nat
<1> DEFINE P == { k \in 1..Len(rows) : rows[k].user = u }
<1>1. P \in SUBSET (1..Len(rows)) /\ Owned(u, rows) = { rows[i].token : i \in P }
  BY DEF Owned
<1> HIDE DEF P
<1> QED  BY <1>1, TokensOf

LEMMA OwnedCount ==
  ASSUME NEW u
  PROVE  Push!Cardinality(Push!Devices(u)) = Cardinality(Owned(u, devices))
BY SameCount DEF Push!Devices, Owned

LEMMA FewerOwned ==
  ASSUME NEW s, NEW r, NEW g, Drawn(r, s, g), NEW u
  PROVE  Owned(u, r) \subseteq Owned(u, s)
BY DEF Drawn, Owned

LEMMA FewerBounded ==
  ASSUME NEW s, Len(s) \in Nat, NEW r, \E g : Drawn(r, s, g), Len(r) \in Nat,
         NEW late \in [Passenger -> Nat], NEW failed \in [Passenger -> Nat], Bounded(s, late, failed)
  PROVE  Bounded(r, late, failed)
<1>1. ASSUME NEW u \in Passenger PROVE Cardinality(Owned(u, r)) <= Cardinality(Owned(u, s))
  <2>1. Owned(u, r) \subseteq Owned(u, s)
    BY FewerOwned
  <2> QED  BY <2>1, OwnedTyped, FS_Subset
<1>2. \A u \in Passenger : Cardinality(Owned(u, r)) \in Nat /\ Cardinality(Owned(u, s)) \in Nat
  BY OwnedTyped
<1>3. MaxTokens \in Nat
  BY PushAssumption
<1> QED  BY <1>1, <1>2, <1>3 DEF Bounded

LEMMA LeastPlace ==
  ASSUME NEW S \in SUBSET Nat, S # {}
  PROVE  \E n \in S : \A m \in S : n <= m
<1> DEFINE Before == { ss \in Nat \X Nat : ss[1] < ss[2] }
<1>1. IsWellFoundedOn(Before, Nat)
  BY NatLessThanWellFounded DEF OpToRel
<1>2. PICK n \in S : \A m \in S : ~ (<<m, n>> \in Before)
  BY <1>1, WFMin
<1>3. \A m \in S : ~ (m < n)
  BY <1>2
<1> QED  BY <1>3

(* Rows of u after which he has fewer than MaxTokens are MaxTokens at most.*)
LEMMA LatestAreFew ==
  ASSUME NEW n \in Nat, NEW U \in SUBSET (1..n),
         NEW K \in SUBSET U, \A i \in K : Cardinality({ j \in (i + 1)..n : j \in U }) < MaxTokens
  PROVE  Cardinality(K) <= MaxTokens
<1>0. MaxTokens \in Nat /\ K \in SUBSET Nat /\ K \in SUBSET (1..n)
  BY PushAssumption
<1>1. CASE K = {}
  BY <1>0, <1>1, FS_EmptySet
<1>2. CASE K # {}
  <2>1. PICK i \in K : \A j \in K : i <= j
    BY <1>0, <1>2, LeastPlace
  <2> DEFINE L == { j \in (i + 1)..n : j \in U }
  <2>2. L \in SUBSET (1..n) /\ K \subseteq L \cup {i}
    BY <1>0, <2>1
  <2>3. Cardinality(L) < MaxTokens
    BY <2>1
  <2> HIDE DEF L
  <2>4. IsFiniteSet(L) /\ Cardinality(L) \in Nat /\ Cardinality(K) \in Nat
    BY <1>0, <2>2, PlacesFinite
  <2>5. IsFiniteSet(L \cup {i}) /\ Cardinality(L \cup {i}) <= Cardinality(L) + 1 /\ Cardinality(L \cup {i}) \in Nat
    BY <2>4, FS_AddElement
  <2>6. Cardinality(K) <= Cardinality(L \cup {i})
    BY <2>2, <2>5, FS_Subset
  <2> QED  BY <1>0, <2>3, <2>4, <2>5, <2>6
<1> QED  BY <1>1, <1>2

(* What Trim leaves.                                                       *)
LEMMA TrimLeaves ==
  ASSUME Push!PushTypeOK, NEW u \in Passenger, Push!Trim(u)
  PROVE  /\ \A v : Owned(v, devices') \subseteq Owned(v, devices)
         /\ Cardinality(Owned(u, devices')) <= MaxTokens
<1> DEFINE n == Len(devices)
           U == { i \in 1..n : devices[i].user = u }
           I == { i \in 1..n : devices[i].user = u => Push!AmongLatest(u, i) }
           K == { i \in U : Push!AmongLatest(u, i) }
<1>1. n \in Nat /\ devices \in Seq([token : Token, user : Passenger])
  BY DEF Push!PushTypeOK
<1>2. PICK place \in [1..Push!Cardinality(I) -> I] : devices' = [k \in DOMAIN place |-> devices[place[k]]]
  BY DEF Push!Trim
<1>3. Push!Cardinality(I) \in Nat
  BY <1>1, SameCount, PlacesFinite
<1>4. \A i \in K : Cardinality({ j \in (i + 1)..n : j \in U }) < MaxTokens
  <2>1. ASSUME NEW i \in K PROVE Cardinality({ j \in (i + 1)..n : j \in U }) < MaxTokens
    <3>1. { j \in (i + 1)..n : j \in U } = { j \in (i + 1)..Len(devices) : devices[j].user = u }
      BY <1>1
    <3>2. Push!AmongLatest(u, i)
      OBVIOUS
    <3> QED  BY <3>1, <3>2, SameCount DEF Push!AmongLatest
  <2> QED  BY <2>1
<1>5. U \in SUBSET (1..n) /\ K \in SUBSET U /\ K \in SUBSET (1..n) /\ I \in SUBSET (1..n)
  OBVIOUS
<1>a. \A i \in I : i \in U => i \in K
  OBVIOUS
<1>b. U = { i \in 1..n : devices[i].user = u }
  OBVIOUS
<1> HIDE DEF U, I, K
<1>6. Cardinality(K) <= MaxTokens
  BY <1>1, <1>4, <1>5, LatestAreFew
<1>7. /\ DOMAIN devices' = 1..Push!Cardinality(I) /\ Len(devices') = Push!Cardinality(I)
      /\ \A k \in 1..Len(devices') : devices'[k] = devices[place[k]] /\ place[k] \in I
  BY <1>2, <1>3
<1>8. \A v : Owned(v, devices') \subseteq Owned(v, devices)
  BY <1>5, <1>7 DEF Owned
<1> DEFINE T == { devices[i].token : i \in K }
<1>9. Owned(u, devices') \subseteq T
  <2>1. ASSUME NEW k \in 1..Len(devices'), devices'[k].user = u PROVE devices'[k].token \in T
    <3>1. devices'[k] = devices[place[k]] /\ place[k] \in I
      BY <1>7
    <3>2. place[k] \in K
      BY <1>5, <1>a, <1>b, <2>1, <3>1
    <3> QED  BY <3>1, <3>2
  <2> QED  BY <2>1 DEF Owned
<1> HIDE DEF T
<1>10. IsFiniteSet(T) /\ Cardinality(T) <= Cardinality(K) /\ Cardinality(T) \in Nat
  BY <1>1, <1>5, TokensOf DEF T
<1>11. Cardinality(Owned(u, devices')) <= Cardinality(T)
  BY <1>9, <1>10, FS_Subset
<1>12. Cardinality(Owned(u, devices')) \in Nat /\ Cardinality(K) \in Nat /\ MaxTokens \in Nat
  BY <1>1, <1>3, <1>5, <1>7, OwnedTyped, PlacesFinite, PushAssumption
<1> QED  BY <1>6, <1>8, <1>10, <1>11, <1>12

LEMMA RegisterAdds ==
  ASSUME Push!PushTypeOK, NEW u \in Passenger, NEW tok \in Token, Push!Register(u, tok)
  PROVE  /\ \A v \in Passenger \ {u} : Owned(v, devices') \subseteq Owned(v, devices)
         /\ Owned(u, devices') \subseteq Owned(u, devices) \cup {tok}
<1> DEFINE r == Push!WithoutToken(tok)
           e == [token |-> tok, user |-> u]
<1>1. /\ r \in Seq([token : Token, user : Passenger]) /\ \E g : Drawn(r, devices, g)
  BY DevicesTyped
<1>2. devices' = Append(r, e) /\ e \in [token : Token, user : Passenger] /\ e.token = tok /\ e.user = u
  BY DEF Push!Register
<1> HIDE DEF r, e
<1>3. /\ Len(r) \in Nat /\ Len(devices') = Len(r) + 1 /\ devices'[Len(r) + 1] = e
      /\ \A k \in 1..Len(r) : devices'[k] = r[k]
  BY <1>1, <1>2
<1>4. ASSUME NEW v, NEW x \in Owned(v, devices') PROVE x \in Owned(v, r) \/ (v = u /\ x = tok)
  <2>1. PICK k \in 1..Len(devices') : devices'[k].user = v /\ devices'[k].token = x
    BY DEF Owned
  <2>2. k \in 1..Len(r) \/ k = Len(r) + 1
    BY <1>3
  <2>3. CASE k \in 1..Len(r)
    BY <1>3, <2>1, <2>3 DEF Owned
  <2>4. CASE k = Len(r) + 1
    BY <1>2, <1>3, <2>1, <2>4
  <2> QED  BY <2>2, <2>3, <2>4
<1>5. \A v : Owned(v, r) \subseteq Owned(v, devices)
  BY <1>1, FewerOwned
<1> QED  BY <1>4, <1>5

LEMMA DevicesStayBounded ==
  ASSUME Push!PushTypeOK, Bounded(devices, trimming, untrimmed),
         NEW u, NEW tok, NEW n, DeviceStep(u, tok, n)
  PROVE  Bounded(devices', trimming', untrimmed')
<1> DEFINE Device == [token : Token, user : Passenger]
<1>1. /\ devices \in Seq(Device) /\ Len(devices) \in Nat
      /\ trimming \in [Passenger -> Nat] /\ untrimmed \in [Passenger -> Nat]
      /\ MaxTokens \in Nat
  BY PushAssumption DEF Push!PushTypeOK
<1>2. devices' \in Seq(Device) /\ Len(devices') \in Nat
  <2>1. devices' \in Seq(Device)
    BY DeviceStepTyped
  <2> QED  BY <2>1
<1> HIDE DEF Device
<1>3. ASSUME NEW v
      PROVE  /\ IsFiniteSet(Owned(v, devices)) /\ Cardinality(Owned(v, devices)) \in Nat
             /\ IsFiniteSet(Owned(v, devices')) /\ Cardinality(Owned(v, devices')) \in Nat
             /\ Owned(v, devices') \subseteq Owned(v, devices)
                  => Cardinality(Owned(v, devices')) <= Cardinality(Owned(v, devices))
  BY <1>1, <1>2, OwnedTyped, FS_Subset
<1>4. CASE u \in Passenger /\ tok \in Token /\ Push!Register(u, tok)
  <2>1. trimming' = [trimming EXCEPT ![u] = @ + 1] /\ untrimmed' = untrimmed
    BY <1>4 DEF Push!Register
  <2>2. \A v \in Passenger \ {u} : Cardinality(Owned(v, devices')) <= Cardinality(Owned(v, devices))
    BY <1>3, <1>4, RegisterAdds
  <2>3. Cardinality(Owned(u, devices')) <= Cardinality(Owned(u, devices)) + 1
    <3> DEFINE W == Owned(u, devices) \cup {tok}
    <3>1. Owned(u, devices') \subseteq W
      BY <1>4, RegisterAdds
    <3>2. IsFiniteSet(W) /\ Cardinality(W) <= Cardinality(Owned(u, devices)) + 1 /\ Cardinality(W) \in Nat
      BY <1>3, FS_AddElement, FS_CardinalityType
    <3> HIDE DEF W
    <3>3. Cardinality(Owned(u, devices')) <= Cardinality(W)
      BY <3>1, <3>2, FS_Subset
    <3> QED  BY <1>3, <3>2, <3>3
  <2> QED  BY <1>1, <1>3, <1>4, <2>1, <2>2, <2>3 DEF Bounded
<1>5. CASE u \in Passenger /\ Push!Trim(u)
  <2>1. /\ trimming' = [trimming EXCEPT ![u] = @ - 1] /\ untrimmed' = [untrimmed EXCEPT ![u] = 0]
        /\ trimming[u] > 0
    BY <1>5 DEF Push!Trim
  <2>2. \A v \in Passenger : Cardinality(Owned(v, devices')) <= Cardinality(Owned(v, devices))
    BY <1>3, <1>5, TrimLeaves
  <2>3. Cardinality(Owned(u, devices')) <= MaxTokens
    BY <1>5, TrimLeaves
  <2> QED  BY <1>1, <1>3, <1>5, <2>1, <2>2, <2>3 DEF Bounded
<1>6. CASE u \in Passenger /\ Push!TrimFails(u)
  <2>1. /\ trimming' = [trimming EXCEPT ![u] = @ - 1] /\ untrimmed' = [untrimmed EXCEPT ![u] = @ + 1]
        /\ trimming[u] > 0 /\ devices' = devices
    BY <1>6 DEF Push!TrimFails
  <2> QED  BY <1>1, <1>3, <1>6, <2>1 DEF Bounded
<1>7. CASE (u \in Passenger /\ tok \in Token /\ Push!Revoke(u, tok)) \/ Push!Drop(tok) \/ Push!PurgeStale(n)
  <2>1. trimming' = trimming /\ untrimmed' = untrimmed
    BY <1>7 DEF Push!Revoke, Push!Drop, Push!PurgeStale
  <2>2. devices' = devices \/ \E g : Drawn(devices', devices, g)
    <3>1. devices' = Push!WithoutToken(tok) => \E g : Drawn(devices', devices, g)
      BY DevicesTyped
    <3>2. n \in 1..Len(devices) /\ devices' = SubSeq(devices, n + 1, Len(devices))
            => \E g : Drawn(devices', devices, g)
      <4>1. ASSUME n \in 1..Len(devices), devices' = SubSeq(devices, n + 1, Len(devices))
            PROVE  \E g : Drawn(devices', devices, g)
        <5>1. n \in Nat
          BY <4>1
        <5> QED  BY <1>1, <4>1, <5>1, SuffixIs
      <4> QED  BY <4>1
    <3> QED  BY <1>7, <3>1, <3>2 DEF Push!Revoke, Push!Drop, Push!PurgeStale
  <2>3. Bounded(devices', trimming, untrimmed)
    BY <1>1, <1>2, <2>2, FewerBounded
  <2> QED  BY <2>1, <2>3
<1> QED  BY <1>4, <1>5, <1>6, <1>7 DEF DeviceStep

PushInv == MemoryInv /\ Bounded(devices, trimming, untrimmed)

(* Steps other than those about the phones leave the bound as it is.       *)
LEMMA BoundedStays ==
  ASSUME PushInv, Push!PushNext
  PROVE  Bounded(devices', trimming', untrimmed')
<1>1. /\ Push!PushTypeOK /\ Bounded(devices, trimming, untrimmed)
      /\ trimming \in [Passenger -> Nat] /\ untrimmed \in [Passenger -> Nat]
  BY DEF PushInv, MemoryInv, Push!PushTypeOK
<1>2. CASE UNCHANGED <<devices, trimming, untrimmed>>
  BY <1>1, <1>2
<1>3. CASE Push!Restart
  <2>1. /\ devices' = devices /\ trimming' = [u \in Passenger |-> 0]
        /\ untrimmed' = [u \in Passenger |-> untrimmed[u] + trimming[u]]
    BY <1>3 DEF Push!Restart
  <2>2. \A u \in Passenger : MaxTokens + trimming'[u] + untrimmed'[u] = MaxTokens + trimming[u] + untrimmed[u]
    BY <1>1, <2>1, PushAssumption
  <2> QED  BY <1>1, <2>1, <2>2 DEF Bounded
<1>4. CASE \E u, tok, n : DeviceStep(u, tok, n)
  BY <1>1, <1>4, DevicesStayBounded
<1>5. (~Push!Restart /\ ~\E u, tok, n : DeviceStep(u, tok, n)) => UNCHANGED <<devices, trimming, untrimmed>>
  BY PushKinds DEF Push!Emit, Push!EmitClosed, Push!HandleEvent, Push!GrowOld, Push!ListByUser,
                   Push!SendFails, Push!SendTimesOut, Push!SendPushNotifications, Push!deviceVars
<1> QED  BY <1>2, <1>3, <1>4, <1>5

LEMMA NoticesStart == ASSUME Init PROVE PushInv
<1> DEFINE h == HandledOf(events, emitted)
<1>1. /\ committed = <<>> /\ events = <<>> /\ ledger = <<>>
      /\ notices = [t \in Trip |-> <<>>]
      /\ drops = {} /\ devices = <<>>
      /\ trimming = [u \in Passenger |-> 0] /\ untrimmed = [u \in Passenger |-> 0]
      /\ emitted = [t \in Trip |-> <<>>] /\ lost = [t \in Trip |-> {}]
      /\ received = [t \in Trip |-> <<>>]
  BY DEF Init, Push!PushInit
<1>2. Push!PushTypeOK
  BY <1>1 DEF Push!PushTypeOK
<1>3. emitted \in [Trip -> Seq(Push!Noticed)] /\ \A t \in Trip : Len(emitted[t]) = 0
  BY <1>1
<1>4. h \in [Trip -> Nat] /\ \A t \in Trip : h[t] = 0
  <2>1. h = [t \in Trip |-> Len(emitted[t])]
    BY <1>1, <1>3, NoneCounts
  <2> HIDE DEF h
  <2> QED  BY <1>3, <2>1
<1> HIDE DEF h
<1>5. InLine(events, h, emitted) /\ LastWaits(events, h, emitted)
  <2>1. Len(events) = 0
    BY <1>1
  <2> QED  BY <1>3, <1>4, <2>1 DEF InLine, LastWaits
<1>6. ASSUME NEW t \in Trip
      PROVE  /\ InTime(notices[t], lost[t], emitted[t], h[t])
             /\ Sound(notices[t], lost[t], emitted[t], h[t], received[t])
             /\ Blank(notices[t], lost[t], emitted[t], h[t])
  <2>1. Len(notices[t]) = 0 /\ lost[t] = {} /\ Len(received[t]) = 0
    BY <1>1
  <2>2. InTime(notices[t], lost[t], emitted[t], h[t])
    BY <1>3, <1>4, <2>1 DEF InTime
  <2>3. Sound(notices[t], lost[t], emitted[t], h[t], received[t])
    BY <2>1, <2>2 DEF Sound
  <2>4. Blank(notices[t], lost[t], emitted[t], h[t])
    BY <1>4, <2>1 DEF Blank, Fresh, Forgiven
  <2> QED  BY <2>2, <2>3, <2>4
<1>7. OnePerTrip(ledger) /\ LedgerSound(ledger, notices, lost, emitted, h)
  <2>1. Len(ledger) = 0
    BY <1>1
  <2> QED  BY <1>6, <2>1 DEF OnePerTrip, LedgerSound
<1>8. Remembered(ledger, notices, lost, emitted, h, received)
  BY <1>2, <1>4, <1>6, <1>7 DEF Remembered, Push!PushTypeOK
<1>9. MemoryInv
  BY <1>2, <1>5, <1>8 DEF MemoryInv, h
<1>10. Bounded(devices, trimming, untrimmed)
  <2>1. Len(devices) = 0
    BY <1>1
  <2>2. \A u \in Passenger : Owned(u, devices) = {} /\ trimming[u] = 0 /\ untrimmed[u] = 0
    BY <1>1, <2>1 DEF Owned
  <2> QED  BY <2>2, FS_EmptySet, PushAssumption DEF Bounded
<1> QED  BY <1>9, <1>10 DEF PushInv

LEMMA NoticesKept == ASSUME BookingInv, PushInv, [Next]_vars PROVE PushInv'
<1>1. MemoryInv /\ Bounded(devices, trimming, untrimmed)
  BY DEF PushInv
<1>2. CASE UNCHANGED pushVars
  <2>1. MemoryInv'
    BY <1>1, <1>2, StillKeeps
  <2> QED  BY <1>1, <1>2, <2>1 DEF pushVars, PushInv
<1>3. CASE Push!PushNext
  <2>1. MemoryInv'
    BY <1>1, <1>3, PushKeeps
  <2>2. Bounded(devices', trimming', untrimmed')
    BY <1>3, BoundedStays
  <2> QED  BY <2>1, <2>2 DEF PushInv
<1>4. ASSUME NEW t \in Trip, NEW u \in Passenger, NEW kind \in Push!Noticed \cup {"closed"},
             Push!Happens(t, u, kind)
      PROVE  PushInv'
  <2>1. MemoryInv'
    BY <1>1, <1>4, TellKeeps
  <2>2. UNCHANGED <<devices, trimming, untrimmed>>
    BY <1>4 DEF Push!Happens, Push!deviceVars
  <2> QED  BY <1>1, <2>1, <2>2 DEF PushInv
<1>5. CASE \E t \in Trip : TripStep(t)
  BY <1>2, <1>4, <1>5, StepTells
<1> QED  BY <1>2, <1>3, <1>5 DEF Next, vars

-----------------------------------------------------------------------------
(* What the invariant says of the notices.                                 *)

LEMMA NoticesAreSound == ASSUME PushInv PROVE NoticesAreDue
<1> DEFINE h == HandledOf(events, emitted)
<1>1. ASSUME NEW t \in Trip
      PROVE  /\ Sound(notices[t], lost[t], emitted[t], h[t], received[t])
             /\ \A m, n : Push!LostBetween(t, m, n) <=> LostIn(lost[t], m, n)
  BY MemoryParts DEF PushInv, Push!LostBetween, LostIn
<1> HIDE DEF h
<1>2. Push!NoticesInOrder
  <2> SUFFICES ASSUME NEW t \in Trip, NEW b \in 1..Len(received[t]), NEW a \in 1..(b - 1)
               PROVE  LET first == received[t][a]
                          then  == received[t][b]
                      IN  /\ first # then
                          /\ \/ first < then
                             \/ notices[t][then].late
                             \/ Push!LostBetween(t, notices[t][then].at, notices[t][first].at)
    BY DEF Push!NoticesInOrder
  <2>1. FollowsAt(received[t][a], received[t][b], notices[t], lost[t])
    BY <1>1 DEF Sound
  <2> QED  BY <1>1, <2>1 DEF FollowsAt
<1>3. Push!NoticesFitTrip
  <2> SUFFICES ASSUME NEW t \in Trip, NEW i \in 1..Len(notices[t])
               PROVE  LET n == notices[t][i]
                          Before(m) == m < n.at /\ emitted[t][m] = "searching"
                          counted == { j \in 1..i : ~Push!LostBetween(t, notices[t][j].at, n.at) }
                      IN  /\ n.type = "reassigned" => \E m \in 1..Len(emitted[t]) : Before(m)
                          /\ n.type = "assigned" =>
                               \A m \in 1..Len(emitted[t]) : Before(m) => Push!LostBetween(t, m, n.at)
                          /\ Push!Cardinality(counted) <= MaxPerTrip
    BY DEF Push!NoticesFitTrip
  <2>1. FitsAt(i, notices[t], lost[t], emitted[t])
    BY <1>1 DEF Sound
  <2>2. { j \in 1..i : ~Push!LostBetween(t, notices[t][j].at, notices[t][i].at) } = Counted(i, notices[t], lost[t])
    BY <1>1 DEF Counted
  <2> QED  BY <1>1, <2>1, <2>2, SameCount DEF FitsAt, GivenBack
<1>4. Push!DevicesBounded
  BY OwnedCount DEF Push!DevicesBounded, PushInv, Bounded
<1> QED  BY <1>2, <1>3, <1>4 DEF NoticesAreDue

(* The inductive invariant of the notices: the events of a trip wait in    *)
(* line, as many as are not handled yet; the ledger has one entry of it,   *)
(* which counts every notice since it was lost and knows whether a driver  *)
(* gave the trip back; and a trip without an entry was lost since.         *)
THEOREM NoticesAreRemembered == Spec => []PushInv
<1>1. Init => PushInv
  BY NoticesStart
<1>2. BookingInv /\ PushInv /\ [Next]_vars => PushInv'
  BY NoticesKept
<1> QED  BY <1>1, <1>2, BookingHolds, PTL DEF Spec

(* The notices of a trip reach the passenger's phones in the order of what *)
(* happened to it, tell of another driver if and only if one gave the trip *)
(* back, and are no more, to no more phones, than allowed: whatever calls  *)
(* of PushService overlap, time out or fail, and whenever the process that *)
(* has the ledger starts again.                                            *)
THEOREM NoticesComeDue == Spec => []NoticesAreDue
<1>1. PushInv => NoticesAreDue
  BY NoticesAreSound
<1> QED  BY <1>1, NoticesAreRemembered, PTL

=============================================================================
