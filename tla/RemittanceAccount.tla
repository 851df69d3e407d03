------------------------- MODULE RemittanceAccount -------------------------
(***************************************************************************)
(* What settlement promises to a company: what its driver owes for a week  *)
(* only grows, each mark pays some of what is owed, nothing is paid beyond *)
(* it, and a mark can be taken back, as a whole and once. Nothing is said  *)
(* of reports, of ledgers, of locks or of repeated requests.               *)
(***************************************************************************)
EXTENDS Naturals, FiniteSetsExt

CONSTANT Mark

VARIABLES
  owed,   \* commissions of the week collected by the driver
  paid    \* a function: the marks in force and what each of them paid

accountVars == <<owed, paid>>

Total(p) == MapThenSumSet(LAMBDA m : p[m], DOMAIN p)

Init ==
  /\ owed \in Nat
  /\ paid = [m \in {} |-> 0]

Owe ==
  /\ owed' \in Nat
  /\ owed' > owed
  /\ UNCHANGED paid

Pay(m) ==
  /\ m \notin DOMAIN paid
  /\ DOMAIN paid' = DOMAIN paid \cup {m}
  /\ \A n \in DOMAIN paid : paid'[n] = paid[n]
  /\ paid'[m] > 0
  /\ Total(paid') <= owed
  /\ UNCHANGED owed

TakeBack(m) ==
  /\ m \in DOMAIN paid
  /\ paid' = [n \in DOMAIN paid \ {m} |-> paid[n]]
  /\ UNCHANGED owed

Next == Owe \/ \E m \in Mark : Pay(m) \/ TakeBack(m)

Spec == Init /\ [][Next]_accountVars

=============================================================================
