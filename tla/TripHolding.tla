---------------------------- MODULE TripHolding ----------------------------
(***************************************************************************)
(* What the taking of trips promises to its users: a trip is asked for,    *)
(* held by one driver at a time, given back or closed, and a driver holds  *)
(* at most one trip. Nothing is said of offers, of searches or of how the  *)
(* driver of a trip is found.                                              *)
(***************************************************************************)
CONSTANTS Trip, Driver, None

VARIABLES
  phase,   \* "none", "open", "held" or "closed"
  holder   \* the driver of a held trip, None for any other

holdingVars == <<phase, holder>>

Init ==
  /\ phase = [t \in Trip |-> "none"]
  /\ holder = [t \in Trip |-> None]

Move(t, p, d) ==
  /\ phase' = [phase EXCEPT ![t] = p]
  /\ holder' = [holder EXCEPT ![t] = d]

Ask(t) == phase[t] = "none" /\ Move(t, "open", None)

Take(t, d) ==
  /\ phase[t] = "open"
  /\ \A u \in Trip : holder[u] # d
  /\ Move(t, "held", d)

GiveBack(t) == phase[t] = "held" /\ Move(t, "open", None)

Close(t) == phase[t] \in {"open", "held"} /\ Move(t, "closed", None)

Next == \E t \in Trip : Ask(t) \/ GiveBack(t) \/ Close(t) \/ \E d \in Driver : Take(t, d)

Spec == Init /\ [][Next]_holdingVars

=============================================================================
