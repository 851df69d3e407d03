-------------------------- MODULE ServiceVersions --------------------------
(***************************************************************************)
(* Fares and operational parameters of a town, per service, and the        *)
(* commission of a company are never overwritten: a change closes the open *)
(* version and adds the next one in one statement, under the condition     *)
(* that the version its author saw is still open; a first version is       *)
(* inserted unless there is an open one. The platform edits one key; the   *)
(* provisioning of a company goes through the keys of its services, in     *)
(* order, and then its commission, in one READ COMMITTED transaction.      *)
(*                                                                         *)
(* A key is written by one transaction at a time: the others wait for the  *)
(* open row or for the entry of the unique index on open versions. So the  *)
(* versions of a key are a sequence, and the place in it is the version.   *)
(* MaxTime and MaxVersions bound the clock and the history.                *)
(***************************************************************************)
EXTENDS Integers, Sequences, FiniteSets, SequencesExt

CONSTANTS
  Company,
  Town,
  Service,       \* services by the order of their names
  TownOf,        \* the town of each company
  Declared,      \* the services of each company, as its application lists them
  Txn,           \* transactions that may overlap
  MaxTime,
  MaxVersions,
  None

FareKey == {"fare"} \X Town \X Service

ParamsKey == {"params"} \X Town \X Service

CommissionKey == {"commission"} \X Company

Key == FareKey \cup ParamsKey \cup CommissionKey

Commission(c) == <<"commission", c>>

(* The services in the order of their names, whatever the application says,*)
(* and for each its fare and then its parameters; the commission last.     *)
(* Mutant: the services are taken as the application lists them.           *)
ServicesAsDeclared(c) == Declared[c]

ServicesSorted(c) ==
  LET S == ToSet(Declared[c])
  IN  CHOOSE s \in [1..Cardinality(S) -> S] : \A i, j \in DOMAIN s : i < j => s[i] < s[j]

Plan(c) ==
  FlattenSeq([i \in DOMAIN ServicesSorted(c) |->
    <<<<"fare", TownOf[c], ServicesSorted(c)[i]>>, <<"params", TownOf[c], ServicesSorted(c)[i]>>>>])
  \o <<Commission(c)>>

(* What a company cannot do without, in whatever order it is seen to.      *)
Needed(c) ==
  {Commission(c)} \cup ({"fare", "params"} \X {TownOf[c]} \X ToSet(Declared[c]))

Moment == 0..MaxTime

Open == -1

(* saw: the version its author had seen, 0 if none.                        *)
Version == [from : Moment, to : Moment \cup {Open}, saw : Nat]

Write == [closes : Nat, from : Moment, saw : Nat]

ASSUME VersionsAssumption ==
  /\ TownOf \in [Company -> Town]
  /\ Service \subseteq Int
  /\ Declared \in [Company -> Seq(Service)]
  /\ MaxTime \in Nat /\ MaxVersions \in Nat
  /\ None \notin Company \cup Write

VARIABLES
  history,   \* committed versions of each key
  pending,   \* what each transaction has written to each key and not committed
  txn,       \* transactions
  now        \* the clock of the database

versionVars == <<history, pending, txn, now>>

Transaction == [at : {"idle", "reading", "writing", "rereading", "ready"},
                company : Company \cup {None},   \* whom it provisions
                start : Moment,                  \* now() of its statements
                todo : Seq(Key),
                saw : Nat]

IdleTxn == [at |-> "idle", company |-> None, start |-> 0, todo |-> <<>>, saw |-> 0]

VersionsTypeOK ==
  /\ history \in [Key -> Seq(Version)]
  /\ pending \in [Txn -> [Key -> Write \cup {None}]]
  /\ txn \in [Txn -> Transaction]
  /\ now \in Moment

VersionsInit ==
  /\ history = [k \in Key |-> <<>>]
  /\ pending = [x \in Txn |-> [k \in Key |-> None]]
  /\ txn = [x \in Txn |-> IdleTxn]
  /\ now = 0

-----------------------------------------------------------------------------

OpenVersions(k) == { v \in DOMAIN history[k] : history[k][v].to = Open }

(* What findCurrent tells: the open version, or 0.                         *)
Current(k) == IF OpenVersions(k) = {} THEN 0 ELSE CHOOSE v \in OpenVersions(k) : TRUE

Wanted(x) == Head(txn[x].todo)

Holds(x, k) == pending[x][k] # None

Free(x, k) == \A y \in Txn \ {x} : ~Holds(y, k)

(* The next key of a provisioning, or the end. Parameters are not read     *)
(* before they are inserted.                                               *)
Onward(t) ==
  LET rest == Tail(t.todo)
  IN  [t EXCEPT !.todo = rest, !.saw = 0,
                !.at = IF rest = <<>> THEN "ready"
                       ELSE IF Head(rest) \in ParamsKey THEN "writing" ELSE "reading"]

Advance(x) == txn' = [txn EXCEPT ![x] = Onward(txn[x])]

(* Nothing that a transaction wrote is left of it.                         *)
Abort(x) ==
  /\ txn[x].at # "idle"
  /\ txn' = [txn EXCEPT ![x] = IdleTxn]
  /\ pending' = [pending EXCEPT ![x] = [k \in Key |-> None]]
  /\ UNCHANGED <<history, now>>

(* An edit of a key by the platform, by the version its form shows, which  *)
(* may be long closed; of no version only where a key need not have one.   *)
BeginEdit(x, k, version) ==
  /\ txn[x].at = "idle"
  /\ version \in 0..Len(history[k])
  /\ k \in FareKey => version # 0
  /\ txn' = [txn EXCEPT ![x] = [at |-> "writing", company |-> None, start |-> now,
                                todo |-> <<k>>, saw |-> version]]
  /\ UNCHANGED <<history, pending, now>>

BeginProvisioning(x, c) ==
  /\ txn[x].at = "idle"
  /\ txn' = [txn EXCEPT ![x] = [at |-> "reading", company |-> c, start |-> now,
                                todo |-> Plan(c), saw |-> 0]]
  /\ UNCHANGED <<history, pending, now>>

(* A town that has a fare keeps it. A request without an initial fare      *)
(* stops where there is none (Abort).                                      *)
FareFound(x) ==
  /\ txn[x].at = "reading" /\ Wanted(x) \in FareKey
  /\ Current(Wanted(x)) # 0
  /\ Advance(x)
  /\ UNCHANGED <<history, pending, now>>

FareMissing(x) ==
  /\ txn[x].at = "reading" /\ Wanted(x) \in FareKey
  /\ Current(Wanted(x)) = 0
  /\ txn' = [txn EXCEPT ![x].at = "writing"]
  /\ UNCHANGED <<history, pending, now>>

ReadCommission(x) ==
  /\ txn[x].at = "reading" /\ Wanted(x) \in CommissionKey
  /\ txn' = [txn EXCEPT ![x].at = "writing", ![x].saw = Current(Wanted(x))]
  /\ UNCHANGED <<history, pending, now>>

Later(a, b) == IF a > b THEN a ELSE b

(* Mutant: the next version starts when its transaction did.               *)
StartsAtOnce(x, v) == txn[x].start

StartsWhenClosed(x, v) == Later(history[Wanted(x)][v].from, txn[x].start)

Wrote(x, closes, from) ==
  /\ Len(history[Wanted(x)]) < MaxVersions
  /\ pending' = [pending EXCEPT ![x][Wanted(x)] =
                   [closes |-> closes, from |-> from, saw |-> txn[x].saw]]
  /\ Advance(x)
  /\ UNCHANGED <<history, now>>

InsertIfNoOpenVersion(x) ==
  /\ txn[x].at = "writing" /\ txn[x].saw = 0
  /\ Free(x, Wanted(x))
  /\ OpenVersions(Wanted(x)) = {}
  /\ Wrote(x, 0, txn[x].start)

ReplaceOpenVersion(x) ==
  /\ txn[x].at = "writing" /\ txn[x].saw # 0
  /\ Free(x, Wanted(x))
  /\ txn[x].saw \in OpenVersions(Wanted(x))
  /\ Wrote(x, txn[x].saw, StartsWhenClosed(x, txn[x].saw))

(* Neither writes anything: there is an open version, or the one that was  *)
(* seen is closed. An insert waits for whoever writes the key; an update   *)
(* only for whoever closes its row.                                        *)
WroteNothing(x) ==
  /\ txn[x].at = "writing"
  /\ \/ txn[x].saw = 0 /\ Free(x, Wanted(x)) /\ OpenVersions(Wanted(x)) # {}
     \/ txn[x].saw # 0 /\ txn[x].saw \notin OpenVersions(Wanted(x))

(* Another provisioning inserted the fare or the parameters. An edit or a  *)
(* commission that meets this stops (Abort).                               *)
LostFare(x) ==
  /\ WroteNothing(x) /\ txn[x].company # None /\ Wanted(x) \in FareKey
  /\ txn' = [txn EXCEPT ![x].at = "rereading"]
  /\ UNCHANGED <<history, pending, now>>

WinnerFound(x) ==
  /\ txn[x].at = "rereading"
  /\ Current(Wanted(x)) # 0
  /\ Advance(x)
  /\ UNCHANGED <<history, pending, now>>

LostParams(x) ==
  /\ WroteNothing(x) /\ txn[x].company # None /\ Wanted(x) \in ParamsKey
  /\ Advance(x)
  /\ UNCHANGED <<history, pending, now>>

Amended(h, w) ==
  Append(IF w.closes = 0 THEN h ELSE [h EXCEPT ![w.closes].to = w.from],
         [from |-> w.from, to |-> Open, saw |-> w.saw])

Commit(x) ==
  /\ txn[x].at = "ready"
  /\ history' = [k \in Key |-> IF Holds(x, k) THEN Amended(history[k], pending[x][k])
                                              ELSE history[k]]
  /\ pending' = [pending EXCEPT ![x] = [k \in Key |-> None]]
  /\ txn' = [txn EXCEPT ![x] = IdleTxn]
  /\ UNCHANGED now

Tick ==
  /\ now < MaxTime
  /\ now' = now + 1
  /\ UNCHANGED <<history, pending, txn>>

(* The steps of a transaction between its begin and its end.               *)
Statement(x) ==
  \/ FareFound(x) \/ FareMissing(x) \/ ReadCommission(x)
  \/ InsertIfNoOpenVersion(x) \/ ReplaceOpenVersion(x)
  \/ LostFare(x) \/ WinnerFound(x) \/ LostParams(x)

VersionsNext ==
  \/ \E x \in Txn : Statement(x) \/ Commit(x) \/ Abort(x)
  \/ \E x \in Txn, k \in Key, v \in 0..MaxVersions : BeginEdit(x, k, v)
  \/ \E x \in Txn, c \in Company : BeginProvisioning(x, c)
  \/ Tick

VersionsSpec == VersionsInit /\ [][VersionsNext]_versionVars

-----------------------------------------------------------------------------

Unbroken(h) ==
  \A v \in 1..Len(h) :
    /\ h[v].saw = v - 1
    /\ v < Len(h) => h[v].from <= h[v].to /\ h[v].to = h[v + 1].from
    /\ v = Len(h) => h[v].to = Open

(* The versions of a key cover the time since the first one without gap    *)
(* or overlap, the last one open, and each replaced the version its author *)
(* had seen: no edit is lost, whatever order transactions start and commit *)
(* in (replaceOpenVersion, insertIfNoOpenVersion).                         *)
UnbrokenHistory == \A k \in Key : Unbroken(history[k])

WaitsFor(x, y) ==
  /\ txn[x].at = "writing"
  /\ txn[x].saw = 0 \/ txn[x].saw \in OpenVersions(Wanted(x))
  /\ y # x /\ Holds(y, Wanted(x))

(* Companies of one town that are approved at once, with their services    *)
(* listed in any order, and edits of the same keys never wait for each     *)
(* other in a circle (the sort in ensureForApproval).                      *)
NoCircularWait ==
  \A S \in (SUBSET Txn) \ {{}} : \E x \in S : \A y \in S : ~WaitsFor(x, y)

=============================================================================
