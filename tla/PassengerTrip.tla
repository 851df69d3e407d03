--------------------------- MODULE PassengerTrip ---------------------------
(***************************************************************************)
(* A passenger's trips, and the notices pushed to him about them: each     *)
(* step of a trip he is told of commits first, and its event is emitted by *)
(* the same call some time after.                                          *)
(***************************************************************************)
EXTENDS TripBooking

CONSTANTS Token, MaxPerTrip, MaxEntries, MaxTokens

ASSUME PushAssumption == {MaxPerTrip, MaxEntries, MaxTokens} \subseteq Nat \ {0}

VARIABLES committed, events, ledger, notices, drops, devices, trimming,
          emitted, lost, received, untrimmed

Push == INSTANCE PushDelivery WITH User <- Passenger

(* See PushDelivery: notices come in order and say what happened to the    *)
(* trip, in number and to as many phones as allowed.                       *)
NoticesAreDue == Push!NoticesInOrder /\ Push!NoticesFitTrip /\ Push!DevicesBounded

pushVars == <<committed, events, ledger, notices, drops, devices, trimming,
              emitted, lost, received, untrimmed>>

vars == <<bookingVars, pushVars>>

PassengerTypeOK == BookingTypeOK /\ Push!PushTypeOK

Init == BookingInit /\ Push!PushInit

Tells(t, kind) == Push!Happens(t, trip[t].passenger, kind)

(* A passenger who cancels is told nothing, nor one whose trip is          *)
(* completed, or who did not show up.                                      *)
ClosingKind(to) == IF to = "cancelled_by_driver" THEN "ended" ELSE "closed"

TripStep(t) ==
  \/ \E d \in Driver : Take(t, d) /\ Tells(t, "assigned")
  \/ GiveBack(t) /\ Tells(t, "searching")
  \/ MarkArrived(t) /\ Tells(t, "arrived")
  \/ MarkNoDriver(t) /\ Tells(t, "no_driver")
  \/ \E to \in TripStatus :
       \/ Progress(t, to) /\ UNCHANGED pushVars
       \/ Close(t, to) /\ Tells(t, ClosingKind(to))

Next ==
  \/ Aside /\ UNCHANGED pushVars
  \/ Push!PushNext /\ UNCHANGED bookingVars
  \/ \E t \in Trip : TripStep(t)

Spec == Init /\ [][Next]_vars

=============================================================================
