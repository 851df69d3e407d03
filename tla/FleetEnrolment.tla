--------------------------- MODULE FleetEnrolment ---------------------------
(***************************************************************************)
(* The fleet of one company: how its admin creates a driver with his       *)
(* vehicle and his documents, within the number of vehicles that the       *)
(* company declared.                                                       *)
(*                                                                         *)
(* The uploads are moved to the keys of the driver before the transaction  *)
(* that creates him, and removed if it fails. The transaction locks the    *)
(* row of the company (LockFleetQuota) and then creates (Create): these    *)
(* are two steps, with the lock in between. A move is two steps, as in     *)
(* Affiliation. The PIN of the new driver is sent in DriverPin.            *)
(***************************************************************************)
EXTENDS Naturals, FiniteSets

CONSTANTS
  DocType,      \* REQUIRED_DRIVER_DOCUMENT_TYPES
  Identity,     \* [nationalId, phone, plate]: what the database keeps unique
  Upload,       \* staged files
  Handler,      \* identities of requests that may overlap
  MaxFleet,     \* bound: the largest number of vehicles a company declares
  None

VARIABLES
  declared,    \* company.vehicle_count
  fleet,       \* drivers, each with his vehicle and documents
  lock,        \* the request that holds the row of the company
  staged,      \* what became of each upload
  promoted,    \* files under drivers/
  creation,    \* requests in flight
  left,        \* history: files that nobody will remove any more
  inDoubt      \* history: drivers whose commit was not acknowledged

fileVars  == <<staged, promoted, left>>
fleetVars == <<declared, fleet, lock, fileVars, creation, inDoubt>>

(* The key of a promoted file has an identifier made for the request.      *)
DriverDocumentKey(h, u) == <<u, h>>

FileKey == { DriverDocumentKey(h, u) : h \in Handler, u \in Upload }

Documents == [DocType -> Upload \cup {None}]

Driver == [identity : Identity, document : [DocType -> FileKey]]

Idle == [at |-> "idle"]

Creation ==
  {Idle} \cup
  [at : {"moving", "locking", "creating", "undoing"},
   identity : Identity, document : Documents, moved : SUBSET DocType]

TypeOK ==
  /\ declared \in 0..MaxFleet \cup {None}
  /\ fleet \subseteq Driver /\ inDoubt \subseteq fleet
  /\ lock \in Handler \cup {None}
  /\ staged \in [Upload -> {"new", "staged", "gone"}]
  /\ promoted \subseteq FileKey /\ left \subseteq FileKey
  /\ creation \in [Handler -> Creation]
  /\ \A h \in Handler : lock = h <=> creation[h].at = "creating"

Init ==
  /\ declared \in 0..MaxFleet \cup {None}
  /\ fleet = {} /\ inDoubt = {}
  /\ lock = None
  /\ staged = [u \in Upload |-> "new"]
  /\ promoted = {} /\ left = {}
  /\ creation = [h \in Handler |-> Idle]

-----------------------------------------------------------------------------

FleetQuota == [declared |-> declared, used |-> Cardinality(fleet)]

(* What the admin is shown as still free.                                  *)
Available ==
  IF FleetQuota.declared = None THEN None
  ELSE IF FleetQuota.used < FleetQuota.declared THEN FleetQuota.declared - FleetQuota.used
  ELSE 0

(* An application of the company that was read before it became active is  *)
(* stored after it (Affiliation), with another number of vehicles.         *)
Redeclare(n) ==
  /\ lock = None
  /\ declared' = n
  /\ UNCHANGED <<fleet, lock, fileVars, creation, inDoubt>>

Stage(u) ==
  /\ staged[u] = "new"
  /\ staged' = [staged EXCEPT ![u] = "staged"]
  /\ UNCHANGED <<declared, fleet, lock, promoted, left, creation, inDoubt>>

PurgeStaging(u) ==
  /\ staged[u] = "staged"
  /\ staged' = [staged EXCEPT ![u] = "gone"]
  /\ UNCHANGED <<declared, fleet, lock, promoted, left, creation, inDoubt>>

Complete(docs) == \A d \in DocType : docs[d] # None

AllStaged(docs) == \A d \in DocType : docs[d] # None => staged[docs[d]] = "staged"

BeginCreate(h, id, docs) ==
  /\ creation[h] = Idle
  /\ Complete(docs) /\ AllStaged(docs)
  /\ creation' = [creation EXCEPT ![h] =
       [at |-> "moving", identity |-> id, document |-> docs, moved |-> {}]]
  /\ UNCHANGED <<declared, fleet, lock, fileVars, inDoubt>>

Moving(h, d) == creation[h].at = "moving" /\ d \notin creation[h].moved

KeyOf(h, d) == DriverDocumentKey(h, creation[h].document[d])

CopyDocument(h, d) ==
  /\ Moving(h, d)
  /\ staged[creation[h].document[d]] = "staged"
  /\ promoted' = promoted \cup {KeyOf(h, d)}
  /\ UNCHANGED <<declared, fleet, lock, staged, left, creation, inDoubt>>

RemoveStaged(h, d) ==
  /\ Moving(h, d)
  /\ KeyOf(h, d) \in promoted
  /\ staged' = [staged EXCEPT ![creation[h].document[d]] = "gone"]
  /\ creation' = [creation EXCEPT ![h].moved = @ \cup {d}]
  /\ UNCHANGED <<declared, fleet, lock, promoted, left, inDoubt>>

MovesDone(h) ==
  /\ creation[h].at = "moving" /\ creation[h].moved = DocType
  /\ creation' = [creation EXCEPT ![h].at = "locking"]
  /\ UNCHANGED <<declared, fleet, lock, fileVars, inDoubt>>

MovedKeys(h) == { KeyOf(h, d) : d \in creation[h].moved }

Undo(h) == creation' = [creation EXCEPT ![h].at = "undoing"]

(* A file whose move failed half-way is left.                              *)
MoveFails(h) ==
  /\ creation[h].at = "moving"
  /\ Undo(h)
  /\ left' = left \cup { KeyOf(h, d) : d \in DocType \ creation[h].moved }
  /\ UNCHANGED <<declared, fleet, lock, staged, promoted, inDoubt>>

-----------------------------------------------------------------------------
(* The transaction.                                                        *)

Full == FleetQuota.declared # None /\ FleetQuota.used >= FleetQuota.declared

(* Mutant: the row of the company is read without the lock.                *)
ReadQuota(h) ==
  /\ creation[h].at = "locking"
  /\ IF Full THEN Undo(h)
             ELSE creation' = [creation EXCEPT ![h].at = "creating"]
  /\ UNCHANGED <<declared, fleet, lock, fileVars, inDoubt>>

LockFleetQuota(h) ==
  /\ creation[h].at = "locking"
  /\ lock = None
  /\ IF Full THEN Undo(h) /\ UNCHANGED lock
             ELSE creation' = [creation EXCEPT ![h].at = "creating"] /\ lock' = h
  /\ UNCHANGED <<declared, fleet, fileVars, inDoubt>>

(* National id, phone and plate are each unique.                           *)
Unique(id) == \A d \in fleet : \A f \in DOMAIN id : d.identity[f] # id[f]

DocumentRows(h) == [d \in DocType |-> KeyOf(h, d)]

NewDriver(h) == [identity |-> creation[h].identity, document |-> DocumentRows(h)]

CreateDriver(h) ==
  /\ creation[h].at = "creating"
  /\ Unique(creation[h].identity)
  /\ fleet' = fleet \cup {NewDriver(h)}
  /\ lock' = None

Create(h) ==
  /\ CreateDriver(h)
  /\ creation' = [creation EXCEPT ![h] = Idle]
  /\ UNCHANGED <<declared, fileVars, inDoubt>>

(* The commit is applied but its answer is lost: the request takes it for  *)
(* a failure.                                                              *)
CreateInDoubt(h) ==
  /\ CreateDriver(h)
  /\ Undo(h)
  /\ inDoubt' = inDoubt \cup {NewDriver(h)}
  /\ UNCHANGED <<declared, fileVars>>

(* Mutant: what was moved stays when the transaction fails.                *)
AbortOnly(h) ==
  /\ creation[h].at \in {"locking", "creating"}
  /\ creation' = [creation EXCEPT ![h] = Idle]
  /\ lock' = IF lock = h THEN None ELSE lock
  /\ UNCHANGED <<declared, fleet, fileVars, inDoubt>>

(* A value that is taken, a second document of one type or a lost          *)
(* connection aborts the transaction.                                      *)
Abort(h) ==
  /\ creation[h].at \in {"locking", "creating"}
  /\ Undo(h)
  /\ lock' = IF lock = h THEN None ELSE lock
  /\ UNCHANGED <<declared, fleet, fileVars, inDoubt>>

(* The removal stops at the first file it cannot remove.                   *)
RollbackPromoted(h) ==
  /\ creation[h].at = "undoing"
  /\ \E kept \in SUBSET MovedKeys(h) :
       /\ promoted' = promoted \ (MovedKeys(h) \ kept)
       /\ left' = left \cup kept
  /\ creation' = [creation EXCEPT ![h] = Idle]
  /\ UNCHANGED <<declared, fleet, lock, staged, inDoubt>>

(* The process of the request stops: nothing is undone.                    *)
Stop(h) ==
  /\ creation[h] # Idle
  /\ left' = left \cup { KeyOf(h, d) : d \in DocType }
  /\ creation' = [creation EXCEPT ![h] = Idle]
  /\ lock' = IF lock = h THEN None ELSE lock
  /\ UNCHANGED <<declared, fleet, staged, promoted, inDoubt>>

Next ==
  \/ \E n \in 0..MaxFleet : Redeclare(n)
  \/ \E u \in Upload : Stage(u) \/ PurgeStaging(u)
  \/ \E h \in Handler :
       \/ \E id \in Identity, docs \in Documents : BeginCreate(h, id, docs)
       \/ \E d \in DocType : CopyDocument(h, d) \/ RemoveStaged(h, d)
       \/ MovesDone(h) \/ MoveFails(h)
       \/ LockFleetQuota(h)
       \/ Create(h) \/ CreateInDoubt(h) \/ Abort(h)
       \/ RollbackPromoted(h) \/ Stop(h)

Spec == Init /\ [][Next]_fleetVars

-----------------------------------------------------------------------------
(* No driver is created when the quota in force leaves no room, however    *)
(* creations overlap with each other and with a change of the quota.       *)
QuotaKept == [][fleet' # fleet => Available # 0]_fleetVars

(* Every document of every driver has its file: no other request's undoing *)
(* takes it. (An unacknowledged commit loses the files of its driver.)     *)
DriverIsDocumented ==
  \A d \in fleet \ inDoubt : \A t \in DocType : d.document[t] \in promoted

(* A file under drivers/ belongs to a driver or to a request under way;    *)
(* other files are left only by a process that stopped or by the storage   *)
(* itself failing.                                                         *)
FilesAccounted ==
  \A k \in promoted \ left :
    \/ \E d \in fleet : \E t \in DocType : d.document[t] = k
    \/ \E h \in Handler : creation[h] # Idle /\ \E t \in DocType : KeyOf(h, t) = k

=============================================================================
