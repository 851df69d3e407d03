--------------------------- MODULE ConsentLedger ---------------------------
(***************************************************************************)
(* auth.consent_record: what drivers said to the notice about their        *)
(* location. Entries are only added. A call adds its entry while it holds  *)
(* the advisory lock of the user exclusively, but the entry carries the    *)
(* time its transaction began, before it got the lock: calls that wait for *)
(* each other may add entries in another order than they began in. The     *)
(* entry in force is the one that began last.                              *)
(***************************************************************************)
EXTENDS Naturals, FiniteSets, FiniteSetsExt

CONSTANTS
  Driver,
  Version,    \* versions of the notice that were ever registered
  Current,    \* LOCATION_NOTICE_VERSION
  Sharing,    \* DRIVER_LOCATION_SHARING_NOTICE_VERSIONS
  MaxCalls    \* bound: calls that grant or revoke

ASSUME LedgerAssumption ==
  /\ Current \in Version
  /\ Sharing \subseteq Version
  /\ MaxCalls \in Nat

VARIABLES
  ledger,     \* the entries of each driver
  calls       \* how many calls that grant or revoke have begun

ledgerVars == <<ledger, calls>>

Entry == [began : 0..MaxCalls, action : {"granted", "revoked"}, version : Version]

LedgerTypeOK ==
  /\ ledger \in [Driver -> SUBSET Entry]
  /\ calls \in 0..MaxCalls

(* Drivers who granted some version before, or never said a word.          *)
LedgerInit ==
  /\ ledger \in [Driver -> {{}} \cup
                   { {[began |-> 0, action |-> "granted", version |-> v]} : v \in Version }]
  /\ calls = 0

(* latestEntry, which an empty ledger has none of.                         *)
InForce(d, e) == e \in ledger[d] /\ \A f \in ledger[d] : f.began <= e.began

Granted(d) == \E e \in ledger[d] : InForce(d, e) /\ e.action = "granted"

Revoked(d) == \E e \in ledger[d] : InForce(d, e) /\ e.action = "revoked"

GrantedVersion(d, v) ==
  \E e \in ledger[d] : InForce(d, e) /\ e.action = "granted" /\ e.version = v

CoversLocationSharing(d) == \E v \in Sharing : GrantedVersion(d, v)

BeginCall ==
  /\ calls < MaxCalls
  /\ calls' = calls + 1

AddEntry(d, n, action, v) ==
  ledger' = [ledger EXCEPT ![d] = @ \cup {[began |-> n, action |-> action, version |-> v]}]

Grant(d, n, v) ==
  \/ ~GrantedVersion(d, v) /\ AddEntry(d, n, "granted", v)
  \/ GrantedVersion(d, v) /\ UNCHANGED ledger

Revoke(d, n) ==
  \/ \E v \in Version : GrantedVersion(d, v) /\ AddEntry(d, n, "revoked", v)
  \/ ~Granted(d) /\ UNCHANGED ledger

=============================================================================
