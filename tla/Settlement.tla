---------------------------- MODULE Settlement ----------------------------
(***************************************************************************)
(* The week of a driver with his company. The commissions of the trips he  *)
(* completed in it are owed once their cash is collected, which he may     *)
(* confirm long after; the console reports the balance, an admin marks it  *)
(* as remitted or reverses a mark, and the ledger only grows. A report is  *)
(* two reads of a READ COMMITTED transaction; a mark runs under a lock of  *)
(* the driver's row, but what it counted may grow before it commits.       *)
(*                                                                         *)
(* Remittances are refused until the week has ended, so its trips are      *)
(* given: only their cash moves. MaxEntries bounds the ledger.             *)
(***************************************************************************)
EXTENDS Integers, Sequences, FiniteSetsExt

CONSTANTS
  Trip,         \* completed trips of the driver in the week
  Commission,   \* commission of each, fixed when it was taken
  Call,         \* requests of the console that may overlap
  MaxEntries,   \* bound on the ledger
  None

ASSUME SettlementAssumption ==
  /\ IsFiniteSet(Trip)
  /\ Commission \in [Trip -> Nat]
  /\ MaxEntries \in Nat
  /\ None \notin Call \cup Nat

VARIABLES
  collected,   \* trips whose cash_collected_at is set
  ledger,      \* settlement_remittance, by remittance_id
  lock,        \* the transaction that holds the driver's row FOR UPDATE
  call         \* what each request of the console has read and answered

vars == <<collected, ledger, lock, call>>

(* An entry keeps, beside its columns, what its transaction had counted.   *)
Entry == [kind : {"remittance", "reversal"}, amount : Int, reverses : Nat \cup {None}, due : Nat]

Request == [at : {"idle", "counted", "shown", "marking", "deciding", "undoing", "reversing"},
            due : Nat,                    \* commissions it counted
            seen : Nat,                   \* length of the ledger it read
            expected : Int,               \* balance of the report it shows
            target : Nat \cup {None},     \* entry to be reversed
            answer : {"none", "recorded", "same", "nothing", "changed"},
            entry : Nat \cup {None}]      \* entry named by the answer

TypeOK ==
  /\ collected \subseteq Trip
  /\ ledger \in Seq(Entry)
  /\ lock \in Call \cup {None}
  /\ call \in [Call -> Request]

Blank == [at |-> "idle", due |-> 0, seen |-> 0, expected |-> 0, target |-> None,
          answer |-> "none", entry |-> None]

Init ==
  /\ collected = {}
  /\ ledger = <<>>
  /\ lock = None
  /\ call = [c \in Call |-> Blank]

Due == MapThenSumSet(LAMBDA t : Commission[t], collected)

Signed(e) == IF e.kind = "remittance" THEN e.amount ELSE -e.amount

Remitted(l) == MapThenSumSet(LAMBDA i : Signed(l[i]), DOMAIN l)

Reversals(l, i) == { j \in DOMAIN l : l[j].reverses = i }

InForce(l) == { i \in DOMAIN l : l[i].kind = "remittance" /\ Reversals(l, i) = {} }

-----------------------------------------------------------------------------

(* The driver confirms the cash of a trip, days later if he likes.         *)
MarkCashCollected(t) ==
  /\ t \notin collected
  /\ collected' = collected \cup {t}
  /\ UNCHANGED <<ledger, lock, call>>

Ready(c) == call[c].at \in {"idle", "shown"}

(* The report: commissions first, ledger second.                           *)
CountCommissions(c) ==
  /\ Ready(c)
  /\ call' = [call EXCEPT ![c] = [Blank EXCEPT !.at = "counted", !.due = Due]]
  /\ UNCHANGED <<collected, ledger, lock>>

(* Mutant: only the last entry of the ledger is subtracted.                *)
BalanceOfLast(due, l) == due - (IF l = <<>> THEN 0 ELSE Signed(l[Len(l)]))

Balance(due, l) == due - Remitted(l)

ShowReport(c) ==
  /\ call[c].at = "counted"
  /\ call' = [call EXCEPT ![c].at = "shown", ![c].due = 0,
                          ![c].expected = Balance(call[c].due, ledger)]
  /\ UNCHANGED <<collected, ledger, lock>>

(* A mark of the balance shown, which a repeated click or a retry sends    *)
(* again: the driver is locked, then the commissions are counted, then the *)
(* ledger is read.                                                         *)
(* Mutant: the row of the driver is read and not locked.                   *)
ReadDriver == lock \in Call \cup {None}

LockDriver == lock = None

BeginRecord(c) ==
  /\ call[c].at = "shown"
  /\ call[c].expected > 0
  /\ LockDriver
  /\ lock' = c
  /\ call' = [call EXCEPT ![c].at = "marking", ![c].due = Due,
                          ![c].answer = "none", ![c].entry = None]
  /\ UNCHANGED <<collected, ledger>>

ListLedger(c) ==
  /\ call[c].at = "marking"
  /\ call' = [call EXCEPT ![c].at = "deciding", ![c].seen = Len(ledger)]
  /\ UNCHANGED <<collected, ledger, lock>>

Seen(c) == SubSeq(ledger, 1, call[c].seen)

Owing(c) == Balance(call[c].due, Seen(c))

Answered(c, answer, entry) ==
  call' = [call EXCEPT ![c].at = "shown", ![c].due = 0, ![c].seen = 0,
                       ![c].answer = answer, ![c].entry = entry]

InsertEntry(e) ==
  /\ Len(ledger) < MaxEntries
  /\ ledger' = Append(ledger, e)

(* Which of several remittances in force is the last one depends on when   *)
(* their transactions began, and is left open.                             *)
SettledAlready(c) ==
  /\ Owing(c) <= 0
  /\ \/ \E i \in InForce(Seen(c)) : Answered(c, "same", i)
     \/ InForce(Seen(c)) = {} /\ Answered(c, "nothing", None)
  /\ UNCHANGED ledger

BalanceChanged(c) ==
  /\ Owing(c) > 0
  /\ call[c].expected # Owing(c)
  /\ Answered(c, "changed", None)
  /\ UNCHANGED ledger

InsertRemittance(c) ==
  /\ Owing(c) > 0
  /\ call[c].expected = Owing(c)
  /\ InsertEntry([kind |-> "remittance", amount |-> Owing(c), reverses |-> None,
                  due |-> call[c].due])
  /\ Answered(c, "recorded", Len(ledger) + 1)

EndRecord(c) ==
  /\ call[c].at = "deciding"
  /\ SettledAlready(c) \/ BalanceChanged(c) \/ InsertRemittance(c)
  /\ lock' = None
  /\ UNCHANGED collected

(* An entry is chosen from the history and read before the driver is       *)
(* locked; its reversal is looked for, and made, under the lock. A unique  *)
(* index refuses a second reversal of one entry.                           *)
FindEntry(c) ==
  /\ Ready(c)
  /\ \E i \in DOMAIN ledger :
       call' = [call EXCEPT ![c] = [Blank EXCEPT !.at = "undoing", !.target = i]]
  /\ UNCHANGED <<collected, ledger, lock>>

BeginReverse(c) ==
  /\ call[c].at = "undoing"
  /\ LockDriver
  /\ lock' = c
  /\ call' = [call EXCEPT ![c].at = "reversing", ![c].seen = Len(ledger)]
  /\ UNCHANGED <<collected, ledger>>

Reversible(c, i) == ledger[i].kind = "remittance" /\ Reversals(Seen(c), i) = {}

(* Mutant: the reversal does not say which remittance it takes back.       *)
InsertUnlinked(i) ==
  /\ Reversals(ledger, i) = {}
  /\ InsertEntry([kind |-> "reversal", amount |-> ledger[i].amount, reverses |-> None, due |-> 0])

InsertReversal(i) ==
  /\ Reversals(ledger, i) = {}
  /\ InsertEntry([kind |-> "reversal", amount |-> ledger[i].amount, reverses |-> i, due |-> 0])

EndReverse(c) ==
  /\ call[c].at = "reversing"
  /\ IF Reversible(c, call[c].target) THEN InsertReversal(call[c].target) ELSE UNCHANGED ledger
  /\ call' = [call EXCEPT ![c] = Blank]
  /\ lock' = None
  /\ UNCHANGED collected

(* A transaction fails, and nothing of it is written.                      *)
Rollback(c) ==
  /\ call[c].at \in {"marking", "deciding", "reversing"}
  /\ call' = [call EXCEPT ![c] = IF @.at = "reversing" THEN Blank
                                 ELSE [@ EXCEPT !.at = "shown", !.due = 0, !.seen = 0]]
  /\ lock' = None
  /\ UNCHANGED <<collected, ledger>>

Next ==
  \/ \E t \in Trip : MarkCashCollected(t)
  \/ \E c \in Call :
       \/ CountCommissions(c) \/ ShowReport(c)
       \/ BeginRecord(c) \/ ListLedger(c) \/ EndRecord(c)
       \/ FindEntry(c) \/ BeginReverse(c) \/ EndReverse(c)
       \/ Rollback(c)

Spec == Init /\ [][Next]_vars

-----------------------------------------------------------------------------

(* What is remitted in total is never negative and never exceeds the       *)
(* commissions collected (amountToRemit - state.remitted), although cash is *)
(* confirmed and marks are reversed while others are being made.           *)
WithinDue == Remitted(ledger) \in 0..Due

(* A reversal takes back the whole of an earlier remittance, no two of     *)
(* them the same one, and is not itself reversed (findReversalOf, the      *)
(* unique index and REMITTANCE_NOT_REVERSIBLE).                            *)
ReversedOnce ==
  \A i \in DOMAIN ledger :
    ledger[i].kind = "reversal" =>
      /\ ledger[i].reverses \in 1..(i - 1)
      /\ ledger[ledger[i].reverses].kind = "remittance"
      /\ ledger[ledger[i].reverses].amount = ledger[i].amount
      /\ Reversals(ledger, ledger[i].reverses) = {i}

(* Simultaneous or repeated marks make one entry: a second remittance with *)
(* no reversal since the first pays commissions collected since then.      *)
NewDebtOnly ==
  \A i, j \in DOMAIN ledger :
    /\ i < j
    /\ \A k \in i..j : ledger[k].kind = "remittance"
    => ledger[i].due < ledger[j].due

(* No commission is remitted twice: neither in total, nor by two marks.    *)
PaidOnce == WithinDue /\ NewDebtOnly

(* A report may be stale when it is shown, but it never asks for more than *)
(* the driver then owes: generate reads the ledger after the commissions.  *)
ReportNeverOverstates ==
  [][\A c \in Call : call[c].at = "counted" /\ call'[c].at = "shown"
        => call'[c].expected <= Due - Remitted(ledger)]_vars

(* The answer to a mark that adds nothing: the remittance it names is in   *)
(* force when it is given, or nothing was owed at all.                     *)
AnsweredTruly ==
  [][\A c \in Call : call[c].at = "deciding" /\ call'[c].at = "shown" =>
       /\ call'[c].answer = "same" =>
            /\ ledger'[call'[c].entry].kind = "remittance"
            /\ \A j \in DOMAIN ledger' : ledger'[j].reverses # call'[c].entry
            /\ call[c].due <= Remitted(ledger')
       /\ call'[c].answer = "nothing" => call[c].due = 0]_vars

(* What the console is told of a balance, by a report or by a mark.        *)
AnswersAreTrue == ReportNeverOverstates /\ AnsweredTruly

(* The ledger implements the account of a week: its marks in force are the *)
(* remittances that were not reversed.                                     *)
Account == INSTANCE RemittanceAccount WITH
  Mark <- 1..MaxEntries, owed <- Due, paid <- [i \in InForce(ledger) |-> ledger[i].amount]

ImplementsAccount == Account!Spec

=============================================================================
