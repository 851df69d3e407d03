---------------------------- MODULE MCSettlement ----------------------------
(***************************************************************************)
(* Small instances of Settlement: three trips, two of them of one          *)
(* commission, so that balances repeat, and two overlapping requests.      *)
(***************************************************************************)
EXTENDS Settlement, TLC

CONSTANTS t1, t2, t3

MCTrip == {t1, t2, t3}

MCCommission == t1 :> 1 @@ t2 :> 1 @@ t3 :> 2

MCSymmetry == Permutations(Call) \cup Permutations({t1, t2})

=============================================================================
