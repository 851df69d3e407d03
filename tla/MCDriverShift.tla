--------------------------- MODULE MCDriverShift ---------------------------
(***************************************************************************)
(* A small instance of DriverShift: d1 and his colleague d2, who drives    *)
(* and lets his phone be, compete for one trip.                            *)
(***************************************************************************)
EXTENDS DriverShift, TLC

CONSTANTS c1, d1, d2, v1, v2

MCCompanyOf == [d \in Driver |-> c1]

MCSymmetry == Permutations(Request)

Writing(r) == request[r].op \in {"start", "refresh", "report", "look"}

(* Consents change and passengers look for a time; or positions grow old   *)
(* and are purged for longer.                                              *)
MCScope ==
  /\ GrantedVersion(d2, v2) /\ status[d2] \in {"available", "on_trip"}
  /\ \A r \in Request : request[r] # Idle => request[r].driver = d1
  /\ \A r, q \in Request : Writing(r) /\ Writing(q) => r = q
  /\ tracking # Idle => now <= 1 /\ calls <= 1 /\ purge = Idle
  /\ now > 1 => calls = 0 /\ trip[CHOOSE t \in Trip : TRUE].at # "window"

=============================================================================
