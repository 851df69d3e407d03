----------------------------- MODULE MCDispatch -----------------------------
(***************************************************************************)
(* Small instances of Dispatch: drivers of one company or rivals of two,   *)
(* and at most one request in flight per driver.                           *)
(***************************************************************************)
EXTENDS Dispatch, TLC

CONSTANTS d1, d2, d3, h1, h2, h3, h4, t1, t2

MCCompanyOf == [d \in Driver |-> "c1"]

MCRivals == [d \in Driver |-> IF d = d1 THEN "c1" ELSE "c2"]

MCRequestedCompany == [t \in Trip |-> None]

MCClientOf ==
  [h \in Handler |-> CASE h = h1 -> d1 [] h = h2 -> d2 [] h = h3 -> d3 [] OTHER -> Passenger]

MCSymmetry == Permutations(Assignment) \cup Permutations(Worker) \cup Permutations(Search)

(* One trip and two drivers, with a failure; or two trips that compete for *)
(* the driver d1, without failures and with d2 at home. The second trip is *)
(* asked for after the first.                                              *)
MCScope ==
  /\ status[t2] # Unrequested => status[t1] # Unrequested
  /\ \/ status[t2] = Unrequested
     \/ /\ failures = 0
        /\ driver[d2] = "off_shift" /\ \A a \in Assignment : rowDriver[a] # d2

=============================================================================
