--------------------------- MODULE MCOneTimeCode ---------------------------
(***************************************************************************)
(* Small instances of OneTimeCode: each request is served by the process   *)
(* of the same number, the third by the first process.                     *)
(***************************************************************************)
EXTENDS OneTimeCode, TLC

CONSTANTS n1, n2, i1, i2

MCNodeOf == [h \in Issuer |-> IF h = i2 THEN n2 ELSE n1]

MCSymmetry ==
  Permutations(Phone) \cup Permutations(Verifier)
    \cup {n1 :> n2 @@ n2 :> n1 @@ i1 :> i2 @@ i2 :> i1}

Used(p) ==
  \/ RowsOf(p) # {}
  \/ \E h \in Issuer : issuer[h].op \in {"waiting", "hashing", "inserted", "sending"} /\ issuer[h].phone = p
  \/ \E s \in sent : s[1] = p

Tried == (\E v \in Verifier : verifier[v] # Idle) \/ (\E i \in OtpId : compared[i] > 0)

(* Many codes of one phone; or codes of two phones, for a shorter time; or *)
(* verifications, of two codes of one phone.                               *)
MCScope ==
  /\ (\A p \in Phone : Used(p)) => now <= 1 /\ ~Tried
  /\ Tried => now <= 2 /\ nextId <= 3

=============================================================================
