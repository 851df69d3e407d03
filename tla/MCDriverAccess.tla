--------------------------- MODULE MCDriverAccess ---------------------------
(***************************************************************************)
(* One driver from the creation of the fleet on. PINs and requests are     *)
(* interchangeable.                                                        *)
(***************************************************************************)
EXTENDS DriverAccess, TLC

CONSTANTS u1, u2

MCIdentity == { [nationalId |-> i, phone |-> i, plate |-> i] : i \in 1..2 }

MCSymmetry == Permutations(Pin) \cup Permutations(Handler)

(* The driver was created, and nothing else happened to the fleet.         *)
OnlyCreated ==
  /\ Cardinality(fleet) = 1 /\ inDoubt = {} /\ left = {}
  /\ creation = [h \in Handler |-> Enrolment!Idle]
  /\ declared = None
  /\ \E d \in fleet : d.identity.plate = 1
  /\ \E u \in Upload : staged = [v \in Upload |-> IF v = u THEN "gone" ELSE "new"]

NotYetSent ==
  /\ now = 0 /\ known = {} /\ enabled /\ serial
  /\ Created => \E h \in Handler : request[h].op = "send"

(* Creations of drivers overlap until the first PIN is sent, and go on as  *)
(* long as two files are left at most; or the driver was created, and the  *)
(* rest is about him.                                                      *)
MCNext ==
  \/ NotYetSent /\ Cardinality(left) <= 2 /\ EnrolStep
  \/ OnlyCreated /\ AccessStep

(* Once the first PIN was sent the fleet no longer changes.                *)
MCView == IF NotYetSent THEN <<accessVars, fleetVars>> ELSE accessVars

MCSpec == AccessInit /\ [][MCNext]_<<accessVars, fleetVars>>

(* Either no session is stored, so that PINs, failures and the clock run;  *)
(* or sessions are, by right logins, changes and resets that come one at a *)
(* time and do not fail.                                                   *)
MCScope ==
  \/ \A t \in 1..MaxToken : row[t] = "none"
  \/ /\ now = 0 /\ failed = 0 /\ serial
     /\ delivered \/ \E h \in Handler : request[h].op \in {"send", "mark"}
     /\ \A h \in Handler : request[h].op = "login" => request[h].seen.right /\ request[h].seen.admitted

=============================================================================
