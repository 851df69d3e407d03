----------------------------- MODULE MCTripRide -----------------------------
(***************************************************************************)
(* Small instances of TripRide: two start codes, overlapping requests of   *)
(* interchangeable handlers.                                               *)
(***************************************************************************)
EXTENDS TripRide, TLC

MCSymmetry == Permutations(Handler) \cup Permutations(Code)

=============================================================================
