------------------------------- MODULE Fares -------------------------------
(***************************************************************************)
(* The price of a trip: a base fare of the town and service, with a night  *)
(* and a holiday surcharge that depend on the moment, in the time of       *)
(* Bogota. Moments are counted from the midnight that begins day 0.        *)
(* Amounts are whole pesos and percentages whole numbers.                  *)
(***************************************************************************)
EXTENDS Naturals

CONSTANTS
  HourLength,   \* units of time in an hour
  Sunday,       \* the weekday of a Sunday, day 0 being weekday 0
  Festivos      \* the days in the table of Colombian holidays

ASSUME FareAssumption ==
  /\ HourLength \in Nat \ {0}
  /\ Sunday \in 0..6
  /\ Festivos \subseteq Nat

Amount == Nat

FareParams == [baseFare : Amount, nightSurchargePct : Nat, holidaySurchargePct : Nat]

FareBreakdown == [base : Amount, night : Amount, holiday : Amount, total : Amount]

HourInBogota(t) == (t \div HourLength) % 24

BogotaDate(t) == t \div (24 * HourLength)

IsSundayInBogota(t) == BogotaDate(t) % 7 = Sunday

NightStart == 21
NightEnd == 5

IsNightTime(t) == HourInBogota(t) >= NightStart \/ HourInBogota(t) < NightEnd

IsFestivo(t) == BogotaDate(t) \in Festivos

IsHoliday(t) == IsSundayInBogota(t) \/ IsFestivo(t)

(* Math.round of a percentage: halves go up.                               *)
Percentage(base, pct) == (base * pct + 50) \div 100

CalculateFare(params, t) ==
  LET base    == params.baseFare
      night   == IF IsNightTime(t) THEN Percentage(base, params.nightSurchargePct) ELSE 0
      holiday == IF IsHoliday(t) THEN Percentage(base, params.holidaySurchargePct) ELSE 0
  IN  [base |-> base, night |-> night, holiday |-> holiday, total |-> base + night + holiday]

(* A price of which only the total is known.                               *)
LumpSum(total) == [base |-> total, night |-> 0, holiday |-> 0, total |-> total]

=============================================================================
