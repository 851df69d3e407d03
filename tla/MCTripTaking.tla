---------------------------- MODULE MCTripTaking ----------------------------
(***************************************************************************)
(* Small instances of TripTaking: two companies, drivers of either, and    *)
(* the assignments, handlers and drivers as interchangeable model values   *)
(* where nothing tells them apart.                                         *)
(***************************************************************************)
EXTENDS TripTaking, TLC

CONSTANTS d1, d2, d3, c1, c2, t1, t2, h1, h2, h3, h4

(* d1 and d2 are colleagues, d3 works for the other company.               *)
MCCompanyOf == [d \in Driver |-> IF d = d3 THEN c2 ELSE c1]

(* The first trip is open to every company, the second asks for c1.        *)
MCRequestedCompany == [t \in Trip |-> IF t = t2 THEN c1 ELSE None]

(* One request in flight per driver and one for passengers.                *)
MCClientOf ==
  [h \in Handler |-> CASE h = h1 -> d1 [] h = h2 -> d2 [] h = h3 -> d3 [] OTHER -> Passenger]

(* Driver d1 has two requests in flight.                                   *)
MCDoubleClientOf ==
  [h \in Handler |-> CASE h = h1 -> d1 [] h = h2 -> d2 [] h = h3 -> d1 [] OTHER -> Passenger]

MCAssignmentSymmetry == Permutations(Assignment)

=============================================================================
