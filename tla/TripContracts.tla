--------------------------- MODULE TripContracts ---------------------------
(***************************************************************************)
(* The state machines every service of the backend shares: the statuses of *)
(* a trip request and of an assignment (one row per offer made to a        *)
(* driver), the steps the contracts allow between them, and the two tables *)
(* the closing of a trip is driven by.                                     *)
(***************************************************************************)

TripStatus ==
  { "pending_assignment", "assigned", "driver_en_route", "in_progress",
    "completed", "cancelled_by_passenger", "cancelled_by_driver",
    "no_driver", "no_show", "expired" }

(* TRIP_STATUS_TRANSITIONS as a relation.                                  *)
TripTransitions ==
  { <<"pending_assignment", "assigned">>,
    <<"pending_assignment", "no_driver">>,
    <<"pending_assignment", "cancelled_by_passenger">>,
    <<"pending_assignment", "expired">>,
    <<"assigned", "driver_en_route">>,
    <<"assigned", "pending_assignment">>,
    <<"assigned", "cancelled_by_passenger">>,
    <<"assigned", "cancelled_by_driver">>,
    <<"driver_en_route", "in_progress">>,
    <<"driver_en_route", "cancelled_by_passenger">>,
    <<"driver_en_route", "cancelled_by_driver">>,
    <<"driver_en_route", "no_show">>,
    <<"in_progress", "completed">> }

SourceStatusesFor(to) == { from \in TripStatus : <<from, to>> \in TripTransitions }

(* The statuses in which a driver and his company hold the trip.           *)
HeldStatus == { "assigned", "driver_en_route", "in_progress" }

AssignmentTransitions ==
  { <<"created", "notified">>, <<"created", "timeout">>,
    <<"notified", "accepted">>, <<"notified", "rejected">>, <<"notified", "timeout">>,
    <<"accepted", "cancelled">>, <<"accepted", "completed">> }

(* What the open assignments of a trip become when the trip is closed.     *)
AssignmentStatusByTarget(to) ==
  IF to \in { "completed", "no_show" } THEN "completed" ELSE "cancelled"

=============================================================================
