------------------------- MODULE DriverAccessProofs -------------------------
(***************************************************************************)
(* What holds of the fleet, the PIN and the sessions for any requests,     *)
(* uploads, PINs and tokens.                                               *)
(***************************************************************************)
EXTENDS DriverAccess, FiniteSetTheorems, TLAPS

-----------------------------------------------------------------------------
(* The fleet. What a request under way knows of its files: they were       *)
(* staged, and those it moved are its own until it ends.                   *)

UnderWay(h) == creation[h].at \in {"moving", "locking", "creating", "undoing"}

FilesOf(h) == { Enrolment!KeyOf(h, t) : t \in DocType }

CreationsComplete ==
  \A h \in Handler : UnderWay(h) => creation[h].document \in [DocType -> Upload]

(* Whoever may create has locked the row of the company while there was    *)
(* room in its fleet.                                                      *)
RoomWhileLocked ==
  \A h \in Handler : creation[h].at = "creating" => ~Enrolment!Full

MovedAreInPlace ==
  \A h \in Handler : UnderWay(h) =>
    /\ \A t \in creation[h].moved : /\ staged[creation[h].document[t]] = "gone"
                                    /\ Enrolment!KeyOf(h, t) \in promoted
    /\ creation[h].at \in {"locking", "creating"} => creation[h].moved = DocType
    /\ creation[h].at = "undoing" =>
         \A t \in DocType \ creation[h].moved : Enrolment!KeyOf(h, t) \in left

(* The upload of a document is used up, and no request under way has it.   *)
DocumentsOwned ==
  \A d \in fleet : \A t \in DocType :
    /\ \E u \in Upload, g \in Handler : d.document[t] = <<u, g>> /\ staged[u] = "gone"
    /\ d \notin inDoubt => \A h \in Handler : UnderWay(h) => d.document[t] \notin FilesOf(h)

FleetInv ==
  /\ Enrolment!TypeOK /\ IsFiniteSet(fleet)
  /\ CreationsComplete /\ RoomWhileLocked /\ MovedAreInPlace /\ DocumentsOwned
  /\ Enrolment!DriverIsDocumented /\ Enrolment!FilesAccounted

LEMMA FleetStart == Enrolment!Init => FleetInv
<1> SUFFICES ASSUME Enrolment!Init PROVE FleetInv
  OBVIOUS
<1> USE AccessAssumption DEF Enrolment!Init, Enrolment!Idle, UnderWay
<1>1. Enrolment!TypeOK
  BY DEF Enrolment!TypeOK, Enrolment!Creation, Enrolment!FileKey
<1>2. IsFiniteSet(fleet) /\ Enrolment!DriverIsDocumented /\ Enrolment!FilesAccounted
  BY FS_EmptySet DEF Enrolment!DriverIsDocumented, Enrolment!FilesAccounted
<1>3. CreationsComplete /\ RoomWhileLocked /\ MovedAreInPlace /\ DocumentsOwned
  BY DEF CreationsComplete, RoomWhileLocked, MovedAreInPlace, DocumentsOwned
<1> QED  BY <1>1, <1>2, <1>3 DEF FleetInv

(* What a request under way is made of, and what its keys are.             *)
LEMMA CreationShape ==
  ASSUME FleetInv, NEW h \in Handler
  PROVE  /\ creation[h] \in Enrolment!Creation
         /\ creation[h] = Enrolment!Idle <=> creation[h].at = "idle"
         /\ creation[h] # Enrolment!Idle <=> UnderWay(h)
         /\ UnderWay(h) =>
              /\ creation[h] \in [at : {"moving", "locking", "creating", "undoing"},
                   identity : Identity, document : Enrolment!Documents, moved : SUBSET DocType]
              /\ \A t \in DocType : /\ creation[h].document[t] \in Upload
                                    /\ Enrolment!KeyOf(h, t) = <<creation[h].document[t], h>>
                                    /\ Enrolment!KeyOf(h, t) \in Enrolment!FileKey
              /\ Enrolment!MovedKeys(h) = { Enrolment!KeyOf(h, t) : t \in creation[h].moved }
<1>1. creation[h] \in Enrolment!Creation /\ CreationsComplete
  BY DEF FleetInv, Enrolment!TypeOK
<1>2. /\ creation[h] = Enrolment!Idle <=> creation[h].at = "idle"
      /\ creation[h] # Enrolment!Idle <=> UnderWay(h)
  BY <1>1 DEF Enrolment!Creation, Enrolment!Idle, UnderWay
<1>3. ASSUME UnderWay(h)
      PROVE  creation[h] \in [at : {"moving", "locking", "creating", "undoing"},
               identity : Identity, document : Enrolment!Documents, moved : SUBSET DocType]
  BY <1>1, <1>3 DEF Enrolment!Creation, Enrolment!Idle, UnderWay
<1>4. ASSUME UnderWay(h), NEW t \in DocType
      PROVE  /\ creation[h].document[t] \in Upload
             /\ Enrolment!KeyOf(h, t) = <<creation[h].document[t], h>>
             /\ Enrolment!KeyOf(h, t) \in Enrolment!FileKey
  BY <1>1, <1>4 DEF CreationsComplete, Enrolment!KeyOf, Enrolment!DriverDocumentKey, Enrolment!FileKey
<1> QED  BY <1>1, <1>2, <1>3, <1>4 DEF Enrolment!MovedKeys

(* A request that goes on keeps who and what it is about.                  *)
Goes(h, at, moved) ==
  creation' = [creation EXCEPT ![h] = [at |-> at, identity |-> creation[h].identity,
                                       document |-> creation[h].document, moved |-> moved]]

LEMMA CreationGoes ==
  ASSUME FleetInv, NEW h \in Handler
  PROVE  /\ \A d \in DocType : Enrolment!RemoveStaged(h, d) => Goes(h, "moving", creation[h].moved \cup {d})
         /\ Enrolment!MovesDone(h) => Goes(h, "locking", DocType)
         /\ UnderWay(h) /\ Enrolment!Undo(h) => Goes(h, "undoing", creation[h].moved)
         /\ creation[h].at = "locking" /\ creation' = [creation EXCEPT ![h].at = "creating"]
              => Goes(h, "creating", creation[h].moved)
<1> DEFINE r == creation[h]
<1>1. UnderWay(h) => r \in [at : {"moving", "locking", "creating", "undoing"},
                 identity : Identity, document : Enrolment!Documents, moved : SUBSET DocType]
  BY CreationShape
<1>2. ASSUME UnderWay(h), NEW at PROVE [r EXCEPT !.at = at] = [at |-> at, identity |-> r.identity,
                                       document |-> r.document, moved |-> r.moved]
  BY <1>1, <1>2
<1>3. ASSUME UnderWay(h), NEW m PROVE [r EXCEPT !.moved = m] = [at |-> r.at, identity |-> r.identity,
                                       document |-> r.document, moved |-> m]
  BY <1>1, <1>3
<1>4. ASSUME NEW at, creation' = [creation EXCEPT ![h].at = at] PROVE creation' = [creation EXCEPT ![h] = [r EXCEPT !.at = at]]
  BY <1>4
<1>5. ASSUME NEW d \in DocType, Enrolment!RemoveStaged(h, d)
      PROVE Goes(h, "moving", creation[h].moved \cup {d})
  BY <1>3, <1>5 DEF Enrolment!RemoveStaged, Enrolment!Moving, UnderWay, Goes
<1>6. ASSUME Enrolment!MovesDone(h) PROVE Goes(h, "locking", DocType)
  BY <1>2, <1>6 DEF Enrolment!MovesDone, UnderWay, Goes
<1>7. ASSUME UnderWay(h), Enrolment!Undo(h) PROVE Goes(h, "undoing", creation[h].moved)
  BY <1>2, <1>7 DEF Enrolment!Undo, Goes
<1>8. ASSUME creation[h].at = "locking", creation' = [creation EXCEPT ![h].at = "creating"]
      PROVE Goes(h, "creating", creation[h].moved)
  BY <1>2, <1>8 DEF UnderWay, Goes
<1> QED  BY <1>5, <1>6, <1>7, <1>8

LEMMA CreationGone ==
  ASSUME FleetInv, NEW h \in Handler, NEW at \in {"moving", "locking", "creating", "undoing"},
         NEW m \in SUBSET DocType, UnderWay(h), Goes(h, at, m)
  PROVE  /\ creation' \in [Handler -> Enrolment!Creation]
         /\ creation'[h].at = at /\ creation'[h].moved = m /\ UnderWay(h)'
         /\ creation'[h].document = creation[h].document
         /\ \A g \in Handler : UnderWay(g)' <=> UnderWay(g)
         /\ \A g \in Handler \ {h} : creation'[g] = creation[g]
         /\ \A g \in Handler, t \in DocType : Enrolment!KeyOf(g, t)' = Enrolment!KeyOf(g, t)
<1> DEFINE r == [at |-> at, identity |-> creation[h].identity,
                 document |-> creation[h].document, moved |-> m]
<1>1. creation \in [Handler -> Enrolment!Creation] /\ r \in Enrolment!Creation
  <2>1. creation \in [Handler -> Enrolment!Creation]
    BY DEF FleetInv, Enrolment!TypeOK
  <2> QED  BY <2>1, CreationShape DEF Enrolment!Creation
<1>2. creation' = [creation EXCEPT ![h] = r]
  BY DEF Goes
<1>3. creation'[h] = r /\ \A g \in Handler \ {h} : creation'[g] = creation[g]
  BY <1>1, <1>2
<1>4. \A g \in Handler : creation'[g].document = creation[g].document
  BY <1>3
<1> QED
  BY <1>1, <1>2, <1>3, <1>4 DEF UnderWay, Enrolment!KeyOf, Enrolment!DriverDocumentKey

(* A request that ends, or begins.                                         *)
LEMMA CreationEnds ==
  ASSUME FleetInv, NEW h \in Handler, NEW c \in Enrolment!Creation, creation' = [creation EXCEPT ![h] = c]
  PROVE  /\ creation' \in [Handler -> Enrolment!Creation]
         /\ creation'[h] = c
         /\ \A g \in Handler \ {h} : creation'[g] = creation[g]
         /\ \A g \in Handler \ {h} : UnderWay(g)' <=> UnderWay(g)
         /\ \A g \in Handler \ {h}, t \in DocType : Enrolment!KeyOf(g, t)' = Enrolment!KeyOf(g, t)
BY DEF FleetInv, Enrolment!TypeOK, UnderWay, Enrolment!KeyOf, Enrolment!DriverDocumentKey

-----------------------------------------------------------------------------
(* The kinds of steps of a creation, by what they do to the files.         *)

(* Nobody's files change.                                                  *)
Quiet ==
  /\ UNCHANGED <<fleet, lock, promoted, creation, left, inDoubt>>
  /\ declared' \in 0..MaxFleet \cup {None} /\ (declared' = declared \/ lock = None)
  /\ staged' \in [Upload -> {"new", "staged", "gone"}]
  /\ \A u \in Upload : staged[u] = "gone" => staged'[u] = "gone"

Begins(h) ==
  /\ creation[h].at = "idle"
  /\ \E id \in Identity, docs \in [DocType -> Upload] :
       /\ \A t \in DocType : staged[docs[t]] = "staged"
       /\ creation' = [creation EXCEPT ![h] =
            [at |-> "moving", identity |-> id, document |-> docs, moved |-> {}]]
  /\ UNCHANGED <<declared, fleet, lock, staged, promoted, left, inDoubt>>

Copies(h, t) ==
  /\ creation[h].at = "moving"
  /\ promoted' = promoted \cup {Enrolment!KeyOf(h, t)}
  /\ UNCHANGED <<declared, fleet, lock, staged, creation, left, inDoubt>>

Removes(h, t) ==
  /\ creation[h].at = "moving" /\ Enrolment!KeyOf(h, t) \in promoted
  /\ staged' = [staged EXCEPT ![creation[h].document[t]] = "gone"]
  /\ Goes(h, "moving", creation[h].moved \cup {t})
  /\ UNCHANGED <<declared, fleet, lock, promoted, left, inDoubt>>

Moved(h) ==
  /\ creation[h].at = "moving" /\ creation[h].moved = DocType
  /\ Goes(h, "locking", DocType)
  /\ UNCHANGED <<declared, fleet, lock, staged, promoted, left, inDoubt>>

GoesBack(h) ==
  /\ UnderWay(h)
  /\ Goes(h, "undoing", creation[h].moved)
  /\ UNCHANGED <<declared, fleet, staged, promoted, inDoubt>>
  /\ lock' = IF lock = h THEN None ELSE lock
  /\ \/ creation[h].at = "moving"
        /\ left' = left \cup { Enrolment!KeyOf(h, t) : t \in DocType \ creation[h].moved }
     \/ creation[h].at \in {"locking", "creating"} /\ left' = left

Locks(h) ==
  /\ creation[h].at = "locking" /\ lock = None /\ ~Enrolment!Full
  /\ Goes(h, "creating", creation[h].moved)
  /\ lock' = h
  /\ UNCHANGED <<declared, fleet, staged, promoted, left, inDoubt>>

Creates(h) ==
  /\ creation[h].at = "creating"
  /\ fleet' = fleet \cup {Enrolment!NewDriver(h)}
  /\ lock' = None
  /\ UNCHANGED <<declared, staged, promoted, left>>
  /\ \/ creation' = [creation EXCEPT ![h] = Enrolment!Idle] /\ inDoubt' = inDoubt
     \/ Goes(h, "undoing", creation[h].moved) /\ inDoubt' = inDoubt \cup {Enrolment!NewDriver(h)}

Ends(h) ==
  /\ UnderWay(h)
  /\ creation' = [creation EXCEPT ![h] = Enrolment!Idle]
  /\ lock' = IF lock = h THEN None ELSE lock
  /\ UNCHANGED <<declared, fleet, staged, inDoubt>>
  /\ \/ left' = left \cup FilesOf(h) /\ promoted' = promoted
     \/ /\ creation[h].at = "undoing"
        /\ \E kept \in SUBSET Enrolment!MovedKeys(h) :
             /\ promoted' = promoted \ (Enrolment!MovedKeys(h) \ kept)
             /\ left' = left \cup kept

LEMMA EnrolmentSteps ==
  ASSUME FleetInv, [Enrolment!Next]_(Enrolment!fleetVars)
  PROVE  \/ Quiet
         \/ \E h \in Handler :
              \/ Begins(h) \/ Moved(h) \/ GoesBack(h) \/ Locks(h) \/ Creates(h) \/ Ends(h)
              \/ \E t \in DocType : Copies(h, t) \/ Removes(h, t)
<1> USE DEF Enrolment!fleetVars, Enrolment!fileVars
<1>0. /\ Enrolment!TypeOK
      /\ \A h \in Handler : lock = h <=> creation[h].at = "creating"
      /\ declared \in 0..MaxFleet \cup {None} /\ staged \in [Upload -> {"new", "staged", "gone"}]
  BY DEF FleetInv, Enrolment!TypeOK
<1>1. CASE UNCHANGED Enrolment!fleetVars
  BY <1>0, <1>1 DEF Quiet
<1>2. ASSUME NEW n \in 0..MaxFleet, Enrolment!Redeclare(n) PROVE Quiet
  BY <1>0, <1>2 DEF Quiet, Enrolment!Redeclare
<1>3. ASSUME NEW u \in Upload, Enrolment!Stage(u) \/ Enrolment!PurgeStaging(u) PROVE Quiet
  BY <1>0, <1>3 DEF Quiet, Enrolment!Stage, Enrolment!PurgeStaging
<1>4. ASSUME NEW h \in Handler, NEW id \in Identity, NEW docs \in Enrolment!Documents,
             Enrolment!BeginCreate(h, id, docs)
      PROVE  Begins(h)
  <2>1. docs \in [DocType -> Upload] /\ \A t \in DocType : staged[docs[t]] = "staged"
    BY <1>4 DEF Enrolment!BeginCreate, Enrolment!Complete, Enrolment!AllStaged, Enrolment!Documents
  <2> QED  BY <1>4, <2>1, CreationShape DEF Enrolment!BeginCreate, Begins
<1>5. ASSUME NEW h \in Handler, NEW t \in DocType, Enrolment!CopyDocument(h, t) PROVE Copies(h, t)
  BY <1>5 DEF Enrolment!CopyDocument, Enrolment!Moving, Copies
<1>6. ASSUME NEW h \in Handler, NEW t \in DocType, Enrolment!RemoveStaged(h, t) PROVE Removes(h, t)
  BY <1>6, CreationGoes DEF Enrolment!RemoveStaged, Enrolment!Moving, Removes
<1>7. ASSUME NEW h \in Handler, Enrolment!MovesDone(h) PROVE Moved(h)
  BY <1>7, CreationGoes DEF Enrolment!MovesDone, Moved
<1>8. ASSUME NEW h \in Handler, Enrolment!MoveFails(h) \/ Enrolment!Abort(h) PROVE GoesBack(h)
  BY <1>0, <1>8, CreationGoes DEF Enrolment!MoveFails, Enrolment!Abort, GoesBack, UnderWay
<1>9. ASSUME NEW h \in Handler, Enrolment!LockFleetQuota(h) PROVE GoesBack(h) \/ Locks(h)
  BY <1>0, <1>9, CreationGoes DEF Enrolment!LockFleetQuota, GoesBack, Locks, UnderWay
<1>10. ASSUME NEW h \in Handler, Enrolment!Create(h) \/ Enrolment!CreateInDoubt(h) PROVE Creates(h)
  BY <1>0, <1>10, CreationGoes DEF Enrolment!Create, Enrolment!CreateInDoubt, Enrolment!CreateDriver,
      Creates, UnderWay
<1>11. ASSUME NEW h \in Handler, Enrolment!RollbackPromoted(h) PROVE Ends(h)
  BY <1>0, <1>11 DEF Enrolment!RollbackPromoted, Ends, UnderWay
<1>12. ASSUME NEW h \in Handler, Enrolment!Stop(h) PROVE Ends(h)
  BY <1>0, <1>12, CreationShape DEF Enrolment!Stop, Ends, FilesOf
<1> QED
  BY <1>1, <1>2, <1>3, <1>4, <1>5, <1>6, <1>7, <1>8, <1>9, <1>10, <1>11, <1>12 DEF Enrolment!Next

-----------------------------------------------------------------------------

LEMMA NewDriverTyped ==
  ASSUME FleetInv, NEW h \in Handler, UnderWay(h)
  PROVE  /\ Enrolment!NewDriver(h) \in Enrolment!Driver
         /\ \A t \in DocType : Enrolment!NewDriver(h).document[t] = Enrolment!KeyOf(h, t)
<1>1. Enrolment!DocumentRows(h) \in [DocType -> Enrolment!FileKey]
  BY CreationShape DEF Enrolment!DocumentRows
<1>2. creation[h].identity \in Identity
  BY CreationShape
<1> QED  BY <1>1, <1>2 DEF Enrolment!NewDriver, Enrolment!Driver, Enrolment!DocumentRows

FleetStep ==
  \/ Quiet
  \/ \E h \in Handler :
       \/ Begins(h) \/ Moved(h) \/ GoesBack(h) \/ Locks(h) \/ Creates(h) \/ Ends(h)
       \/ \E t \in DocType : Copies(h, t) \/ Removes(h, t)

LEMMA FleetTyped ==
  ASSUME FleetInv, FleetStep
  PROVE  Enrolment!TypeOK' /\ IsFiniteSet(fleet')
<1>0. /\ Enrolment!TypeOK /\ IsFiniteSet(fleet)
      /\ CreationsComplete
  BY DEF FleetInv
<1> USE AccessAssumption DEF Enrolment!TypeOK, Enrolment!Driver, Enrolment!FileKey, Enrolment!DriverDocumentKey
<1>1. CASE Quiet
  BY <1>0, <1>1 DEF Quiet
<1>2. ASSUME NEW h \in Handler, Begins(h) PROVE Enrolment!TypeOK' /\ IsFiniteSet(fleet')
  <2>1. PICK c \in Enrolment!Creation : c.at = "moving" /\ creation' = [creation EXCEPT ![h] = c]
    BY <1>2 DEF Begins, Enrolment!Creation, Enrolment!Documents
  <2>2. /\ creation' \in [Handler -> Enrolment!Creation]
        /\ creation'[h] = c /\ \A g \in Handler \ {h} : creation'[g] = creation[g]
    BY <2>1, CreationEnds
  <2> QED  BY <1>0, <1>2, <2>1, <2>2 DEF Begins
<1>3. ASSUME NEW h \in Handler, NEW t \in DocType, Copies(h, t) PROVE Enrolment!TypeOK' /\ IsFiniteSet(fleet')
  <2>1. Enrolment!KeyOf(h, t) \in Enrolment!FileKey
    BY <1>3, CreationShape DEF Copies, UnderWay
  <2> QED  BY <1>0, <1>3, <2>1 DEF Copies
<1>4. ASSUME NEW h \in Handler, NEW t \in DocType, Removes(h, t) PROVE Enrolment!TypeOK' /\ IsFiniteSet(fleet')
  <2>1. creation[h].moved \cup {t} \in SUBSET DocType /\ UnderWay(h)
    BY <1>4, CreationShape DEF Removes, UnderWay
  <2>2. Goes(h, "moving", creation[h].moved \cup {t})
    BY <1>4 DEF Removes
  <2>3. /\ creation' \in [Handler -> Enrolment!Creation]
        /\ creation'[h].at = "moving" /\ \A g \in Handler \ {h} : creation'[g] = creation[g]
    BY <2>1, <2>2, CreationGone
  <2>4. staged' \in [Upload -> {"new", "staged", "gone"}]
    <3>1. staged' = [staged EXCEPT ![creation[h].document[t]] = "gone"]
      BY <1>4 DEF Removes
    <3>2. staged \in [Upload -> {"new", "staged", "gone"}]
      BY <1>0
    <3> HIDE DEF Enrolment!TypeOK
    <3> QED  BY <3>1, <3>2
  <2> QED  BY <1>0, <1>4, <2>3, <2>4 DEF Removes
<1>5. ASSUME NEW h \in Handler, Moved(h) \/ Locks(h) PROVE Enrolment!TypeOK' /\ IsFiniteSet(fleet')
  <2>1. creation[h].moved \in SUBSET DocType /\ UnderWay(h)
    BY <1>5, CreationShape DEF Moved, Locks, UnderWay
  <2>2. \/ Moved(h) /\ Goes(h, "locking", DocType)
        \/ Locks(h) /\ Goes(h, "creating", creation[h].moved)
    BY <1>5 DEF Moved, Locks
  <2>3. /\ creation' \in [Handler -> Enrolment!Creation]
        /\ creation'[h].at = IF Moved(h) /\ creation[h].at = "moving" THEN "locking" ELSE "creating"
        /\ \A g \in Handler \ {h} : creation'[g] = creation[g]
    BY <2>1, <2>2, CreationGone DEF Moved, Locks
  <2> QED  BY <1>0, <1>5, <2>3 DEF Moved, Locks
<1>6. ASSUME NEW h \in Handler, GoesBack(h) PROVE Enrolment!TypeOK' /\ IsFiniteSet(fleet')
  <2>1. creation[h].moved \in SUBSET DocType /\ UnderWay(h) /\ Goes(h, "undoing", creation[h].moved)
    BY <1>6, CreationShape DEF GoesBack
  <2>2. /\ creation' \in [Handler -> Enrolment!Creation]
        /\ creation'[h].at = "undoing" /\ \A g \in Handler \ {h} : creation'[g] = creation[g]
    BY <2>1, CreationGone
  <2>3. \A t \in DocType : Enrolment!KeyOf(h, t) \in Enrolment!FileKey
    BY <2>1, CreationShape
  <2> QED  BY <1>0, <1>6, <2>2, <2>3 DEF GoesBack
<1>7. ASSUME NEW h \in Handler, Creates(h) PROVE Enrolment!TypeOK' /\ IsFiniteSet(fleet')
  <2>1. creation[h].moved \in SUBSET DocType /\ UnderWay(h)
    BY <1>7, CreationShape DEF Creates, UnderWay
  <2>2. /\ creation' \in [Handler -> Enrolment!Creation]
        /\ creation'[h].at \in {"idle", "undoing"} /\ \A g \in Handler \ {h} : creation'[g] = creation[g]
    <3>1. CASE creation' = [creation EXCEPT ![h] = Enrolment!Idle]
      BY <3>1, CreationEnds DEF Enrolment!Idle, Enrolment!Creation
    <3>2. CASE Goes(h, "undoing", creation[h].moved)
      BY <2>1, <3>2, CreationGone
    <3> QED  BY <1>7, <3>1, <3>2 DEF Creates
  <2>3. Enrolment!NewDriver(h) \in Enrolment!Driver
    BY <2>1, NewDriverTyped
  <2>4. IsFiniteSet(fleet')
    <3>1. fleet' = fleet \cup {Enrolment!NewDriver(h)} /\ IsFiniteSet(fleet)
      BY <1>0, <1>7 DEF Creates
    <3>2. IsFiniteSet(fleet \cup {Enrolment!NewDriver(h)})
      BY <3>1, FS_AddElement
    <3> QED  BY <3>1, <3>2
  <2> QED  BY <1>0, <1>7, <2>2, <2>3, <2>4 DEF Creates
<1>8. ASSUME NEW h \in Handler, Ends(h) PROVE Enrolment!TypeOK' /\ IsFiniteSet(fleet')
  <2>1. UnderWay(h) /\ \A t \in DocType : Enrolment!KeyOf(h, t) \in Enrolment!FileKey
    BY <1>8, CreationShape DEF Ends
  <2>2. creation' = [creation EXCEPT ![h] = Enrolment!Idle] /\ Enrolment!Idle \in Enrolment!Creation
    BY <1>8 DEF Ends, Enrolment!Creation
  <2>3. /\ creation' \in [Handler -> Enrolment!Creation]
        /\ creation'[h].at = "idle" /\ \A g \in Handler \ {h} : creation'[g] = creation[g]
    BY <2>2, CreationEnds DEF Enrolment!Idle
  <2>4. FilesOf(h) \subseteq Enrolment!FileKey /\ Enrolment!MovedKeys(h) \subseteq Enrolment!FileKey
    BY <2>1, CreationShape DEF FilesOf
  <2>5. promoted' \subseteq Enrolment!FileKey /\ left' \subseteq Enrolment!FileKey
    BY <1>0, <1>8, <2>4 DEF Ends
  <2> QED  BY <1>0, <1>8, <2>3, <2>5 DEF Ends
<1> QED
  BY <1>1, <1>2, <1>3, <1>4, <1>5, <1>6, <1>7, <1>8 DEF FleetStep

(* Uploads that are gone stay so, what is left stays, and a request takes  *)
(* back only files of its own.                                             *)
LEMMA FilesStay ==
  ASSUME FleetInv, FleetStep
  PROVE  /\ \A u \in Upload : staged[u] = "gone" => staged'[u] = "gone"
         /\ left \subseteq left'
         /\ \A k \in promoted : \/ k \in promoted'
                                \/ \E h \in Handler : Ends(h) /\ k \in Enrolment!MovedKeys(h)
<1>0. staged \in [Upload -> {"new", "staged", "gone"}]
  BY DEF FleetInv, Enrolment!TypeOK
<1>1. CASE Quiet
  BY <1>1 DEF Quiet
<1>2. ASSUME NEW h \in Handler, Begins(h) \/ Moved(h) \/ GoesBack(h) \/ Locks(h) \/ Creates(h)
      PROVE  staged' = staged /\ left \subseteq left' /\ promoted' = promoted
  BY <1>2 DEF Begins, Moved, GoesBack, Locks, Creates
<1>3. ASSUME NEW h \in Handler, NEW t \in DocType, Copies(h, t) \/ Removes(h, t)
      PROVE  /\ \A u \in Upload : staged[u] = "gone" => staged'[u] = "gone"
             /\ left' = left /\ promoted \subseteq promoted'
  BY <1>0, <1>3 DEF Copies, Removes
<1>4. ASSUME NEW h \in Handler, Ends(h)
      PROVE  /\ staged' = staged /\ left \subseteq left'
             /\ \A k \in promoted : k \in promoted' \/ k \in Enrolment!MovedKeys(h)
  BY <1>4 DEF Ends
<1> QED  BY <1>1, <1>2, <1>3, <1>4 DEF FleetStep

(* Of a request the step is not by, nothing changes; and it keeps the      *)
(* files it moved.                                                         *)
Untouched(g) ==
  /\ creation'[g] = creation[g]
  /\ \A t \in DocType : Enrolment!KeyOf(g, t)' = Enrolment!KeyOf(g, t)

LEMMA StepIsByOne ==
  ASSUME FleetInv, FleetStep
  PROVE  \/ Quiet /\ \A g \in Handler : Untouched(g)
         \/ \E h \in Handler :
              /\ \/ Begins(h) \/ Moved(h) \/ GoesBack(h) \/ Locks(h) \/ Creates(h) \/ Ends(h)
                 \/ \E t \in DocType : Copies(h, t) \/ Removes(h, t)
              /\ \A g \in Handler \ {h} : Untouched(g)
<1> USE DEF Untouched
<1>1. CASE Quiet
  BY <1>1 DEF Quiet, Enrolment!KeyOf, Enrolment!DriverDocumentKey
<1>2. ASSUME NEW h \in Handler, NEW at, NEW m, Goes(h, at, m)
      PROVE  \A g \in Handler \ {h} : Untouched(g)
  BY <1>2 DEF Goes, Enrolment!KeyOf, Enrolment!DriverDocumentKey, FleetInv, Enrolment!TypeOK
<1>3. ASSUME NEW h \in Handler, NEW c, creation' = [creation EXCEPT ![h] = c]
      PROVE  \A g \in Handler \ {h} : Untouched(g)
  BY <1>3 DEF Enrolment!KeyOf, Enrolment!DriverDocumentKey, FleetInv, Enrolment!TypeOK
<1>4. ASSUME NEW h \in Handler, Moved(h) \/ GoesBack(h) \/ Locks(h)
      PROVE  \A g \in Handler \ {h} : Untouched(g)
  BY <1>2, <1>4 DEF Moved, GoesBack, Locks
<1>5. ASSUME NEW h \in Handler, Begins(h) \/ Creates(h) \/ Ends(h)
      PROVE  \A g \in Handler \ {h} : Untouched(g)
  BY <1>2, <1>3, <1>5 DEF Begins, Creates, Ends
<1>6. ASSUME NEW h \in Handler, NEW t \in DocType, Copies(h, t)
      PROVE  \A g \in Handler \ {h} : Untouched(g)
  BY <1>6 DEF Copies, Enrolment!KeyOf, Enrolment!DriverDocumentKey
<1>7. ASSUME NEW h \in Handler, NEW t \in DocType, Removes(h, t)
      PROVE  \A g \in Handler \ {h} : Untouched(g)
  BY <1>2, <1>7 DEF Removes
<1> QED  BY <1>1, <1>4, <1>5, <1>6, <1>7 DEF FleetStep

RequestOK(g) ==
  UnderWay(g) =>
    /\ creation[g].document \in [DocType -> Upload]
    /\ \A t \in creation[g].moved : /\ staged[creation[g].document[t]] = "gone"
                                    /\ Enrolment!KeyOf(g, t) \in promoted
    /\ creation[g].at \in {"locking", "creating"} => creation[g].moved = DocType
    /\ creation[g].at = "undoing" =>
         \A t \in DocType \ creation[g].moved : Enrolment!KeyOf(g, t) \in left

LEMMA RequestsOK == CreationsComplete /\ MovedAreInPlace <=> \A g \in Handler : RequestOK(g)
  BY DEF CreationsComplete, MovedAreInPlace, RequestOK

LEMMA UntouchedKeeps ==
  ASSUME FleetInv, FleetStep, NEW h \in Handler, NEW g \in Handler, g # h,
         Untouched(g), \A k \in promoted : k \in promoted' \/ k \in FilesOf(h)
  PROVE  RequestOK(g)'
<1> SUFFICES ASSUME UnderWay(g)' PROVE RequestOK(g)'
  BY DEF RequestOK
<1>1. UnderWay(g) /\ RequestOK(g)
  BY RequestsOK DEF UnderWay, Untouched, FleetInv
<1>2. \A t \in creation[g].moved : Enrolment!KeyOf(g, t) \in promoted'
  <2>1. \A t \in DocType : Enrolment!KeyOf(g, t) = <<creation[g].document[t], g>>
    BY DEF Enrolment!KeyOf, Enrolment!DriverDocumentKey
  <2>2. \A k \in FilesOf(h) : k[2] = h
    BY DEF FilesOf, Enrolment!KeyOf, Enrolment!DriverDocumentKey
  <2>3. creation[g].moved \subseteq DocType
    BY <1>1, CreationShape
  <2> QED  BY <1>1, <2>1, <2>2, <2>3 DEF RequestOK
<1>3. \A t \in creation[g].moved : staged'[creation[g].document[t]] = "gone"
  BY <1>1, FilesStay, CreationShape DEF RequestOK
<1>4. creation[g].moved \subseteq DocType
  BY <1>1, CreationShape
<1> QED  BY <1>1, <1>2, <1>3, <1>4, FilesStay DEF RequestOK, Untouched

LEMMA RequestsKeep ==
  ASSUME FleetInv, FleetStep
  PROVE  CreationsComplete' /\ MovedAreInPlace'
<1>0. \A g \in Handler : RequestOK(g)
  BY RequestsOK DEF FleetInv
<1>1. ASSUME Quiet, \A g \in Handler : Untouched(g), NEW g \in Handler PROVE RequestOK(g)'
  BY <1>0, <1>1, FilesStay, CreationShape DEF Quiet, Untouched, RequestOK, UnderWay
<1>2. ASSUME NEW h \in Handler,
             \/ Begins(h) \/ Moved(h) \/ GoesBack(h) \/ Locks(h) \/ Creates(h) \/ Ends(h)
             \/ \E t \in DocType : Copies(h, t) \/ Removes(h, t)
      PROVE  RequestOK(h)' /\ \A k \in promoted : k \in promoted' \/ k \in FilesOf(h)
  <2> USE <1>0
  <2>1. CASE Begins(h)
    <3>1. PICK id \in Identity, docs \in [DocType -> Upload] :
             creation' = [creation EXCEPT ![h] =
               [at |-> "moving", identity |-> id, document |-> docs, moved |-> {}]]
      BY <2>1 DEF Begins
    <3>2. creation'[h] = [at |-> "moving", identity |-> id, document |-> docs, moved |-> {}]
      BY <3>1 DEF FleetInv, Enrolment!TypeOK
    <3> QED  BY <2>1, <3>2 DEF Begins, RequestOK
  <2>2. ASSUME NEW t \in DocType, Copies(h, t)
        PROVE  RequestOK(h)' /\ \A k \in promoted : k \in promoted' \/ k \in FilesOf(h)
    BY <2>2 DEF Copies, RequestOK, UnderWay, Enrolment!KeyOf, Enrolment!DriverDocumentKey
  <2>3. ASSUME NEW t \in DocType, Removes(h, t)
        PROVE  RequestOK(h)' /\ \A k \in promoted : k \in promoted' \/ k \in FilesOf(h)
    <3>1. creation[h].moved \cup {t} \in SUBSET DocType /\ UnderWay(h)
      BY <2>3, CreationShape DEF Removes, UnderWay
    <3>2. /\ creation'[h].at = "moving" /\ creation'[h].moved = creation[h].moved \cup {t}
          /\ creation'[h].document = creation[h].document
          /\ \A d \in DocType : Enrolment!KeyOf(h, d)' = Enrolment!KeyOf(h, d)
      BY <2>3, <3>1, CreationGone DEF Removes
    <3>3. staged'[creation[h].document[t]] = "gone"
      BY <2>3, <3>1, CreationShape DEF Removes, FleetInv, Enrolment!TypeOK
    <3> QED  BY <2>3, <3>1, <3>2, <3>3, FilesStay, CreationShape DEF Removes, RequestOK
  <2>4. CASE Moved(h) \/ Locks(h)
    <3>1. UnderWay(h) /\ creation[h].moved = DocType
      BY <2>4 DEF Moved, Locks, UnderWay, RequestOK
    <3>2. /\ creation'[h].at \in {"locking", "creating"} /\ creation'[h].moved = DocType
          /\ creation'[h].document = creation[h].document
          /\ \A d \in DocType : Enrolment!KeyOf(h, d)' = Enrolment!KeyOf(h, d)
      BY <2>4, <3>1, CreationGone DEF Moved, Locks
    <3> QED  BY <2>4, <3>1, <3>2 DEF Moved, Locks, RequestOK
  <2>5. CASE GoesBack(h)
    <3>1. UnderWay(h) /\ creation[h].moved \in SUBSET DocType
      BY <2>5, CreationShape DEF GoesBack
    <3>2. /\ creation'[h].at = "undoing" /\ creation'[h].moved = creation[h].moved
          /\ creation'[h].document = creation[h].document
          /\ \A d \in DocType : Enrolment!KeyOf(h, d)' = Enrolment!KeyOf(h, d)
      BY <2>5, <3>1, CreationGone DEF GoesBack
    <3> QED  BY <2>5, <3>1, <3>2 DEF GoesBack, RequestOK
  <2>6. CASE Creates(h)
    <3>1. UnderWay(h) /\ creation[h].moved = DocType
      BY <2>6 DEF Creates, UnderWay, RequestOK
    <3>2. CASE creation' = [creation EXCEPT ![h] = Enrolment!Idle]
      <4>1. creation'[h] = Enrolment!Idle
        BY <3>2 DEF FleetInv, Enrolment!TypeOK
      <4> QED  BY <2>6, <4>1 DEF Creates, RequestOK, UnderWay, Enrolment!Idle
    <3>3. CASE Goes(h, "undoing", creation[h].moved)
      <4>1. /\ creation'[h].at = "undoing" /\ creation'[h].moved = DocType
            /\ creation'[h].document = creation[h].document
            /\ \A d \in DocType : Enrolment!KeyOf(h, d)' = Enrolment!KeyOf(h, d)
        BY <3>1, <3>3, CreationGone
      <4> QED  BY <2>6, <3>1, <4>1 DEF Creates, RequestOK
    <3> QED  BY <2>6, <3>2, <3>3 DEF Creates
  <2>7. CASE Ends(h)
    <3>1. creation'[h] = Enrolment!Idle
      BY <2>7 DEF Ends, FleetInv, Enrolment!TypeOK
    <3>2. UnderWay(h) /\ Enrolment!MovedKeys(h) \subseteq FilesOf(h)
      BY <2>7, CreationShape DEF Ends, FilesOf
    <3> QED  BY <2>7, <3>1, <3>2 DEF Ends, RequestOK, UnderWay, Enrolment!Idle
  <2> QED  BY <1>2, <2>1, <2>2, <2>3, <2>4, <2>5, <2>6, <2>7
<1>3. ASSUME NEW g \in Handler PROVE RequestOK(g)'
  BY <1>1, <1>2, StepIsByOne, UntouchedKeeps
<1> QED  BY <1>3 DEF RequestOK, CreationsComplete, MovedAreInPlace, UnderWay, Enrolment!KeyOf,
            Enrolment!DriverDocumentKey

(* While a request holds the row of the company nobody else changes the    *)
(* fleet or the quota.                                                     *)
LEMMA RoomKept == ASSUME FleetInv, FleetStep PROVE RoomWhileLocked'
<1> SUFFICES ASSUME NEW g \in Handler, creation'[g].at = "creating"
             PROVE  declared' = declared /\ fleet' = fleet /\ ~Enrolment!Full
  BY DEF RoomWhileLocked, Enrolment!Full, Enrolment!FleetQuota
<1>0. /\ RoomWhileLocked
      /\ \A h \in Handler : lock = h <=> creation[h].at = "creating"
      /\ None \notin Handler
  BY AccessAssumption DEF FleetInv, Enrolment!TypeOK
<1>1. CASE Quiet /\ Untouched(g)
  BY <1>0, <1>1 DEF Quiet, Untouched, RoomWhileLocked
<1>2. ASSUME NEW h \in Handler, h # g, Untouched(g),
             \/ Begins(h) \/ Moved(h) \/ GoesBack(h) \/ Locks(h) \/ Creates(h) \/ Ends(h)
             \/ \E t \in DocType : Copies(h, t) \/ Removes(h, t)
      PROVE  declared' = declared /\ fleet' = fleet /\ ~Enrolment!Full
  <2>1. lock = g /\ ~Enrolment!Full /\ creation[h].at # "creating" /\ lock # None
    BY <1>0, <1>2 DEF Untouched, RoomWhileLocked
  <2> QED
    BY <1>2, <2>1 DEF Begins, Moved, GoesBack, Locks, Creates, Ends, Copies, Removes
<1>3. CASE Locks(g)
  BY <1>3 DEF Locks
<1>4. ASSUME \/ Begins(g) \/ Moved(g) \/ GoesBack(g) \/ Creates(g) \/ Ends(g)
             \/ \E t \in DocType : Copies(g, t) \/ Removes(g, t)
      PROVE  declared' = declared /\ fleet' = fleet /\ ~Enrolment!Full
  <2>0. creation \in [Handler -> Enrolment!Creation]
    BY DEF FleetInv, Enrolment!TypeOK
  <2>1. ASSUME NEW at, NEW m, Goes(g, at, m) PROVE at = "creating"
    BY <2>0, <2>1 DEF Goes
  <2>2. ~Moved(g) /\ ~GoesBack(g) /\ \A t \in DocType : ~Removes(g, t)
    BY <2>1 DEF Moved, GoesBack, Removes
  <2>3. ASSUME NEW c, creation' = [creation EXCEPT ![g] = c] PROVE c.at = "creating"
    BY <2>0, <2>3
  <2>4. ~Begins(g) /\ ~Ends(g) /\ ~Creates(g)
    <3>1. ~Begins(g)
      <4> SUFFICES ASSUME Begins(g) PROVE FALSE
        OBVIOUS
      <4>1. PICK id \in Identity, docs \in [DocType -> Upload] : creation' = [creation EXCEPT ![g] =
              [at |-> "moving", identity |-> id, document |-> docs, moved |-> {}]]
        BY DEF Begins
      <4>2. [at |-> "moving", identity |-> id, document |-> docs, moved |-> {}].at = "creating"
        BY <2>3, <4>1
      <4> QED  BY <4>2
    <3>2. Enrolment!Idle.at # "creating"
      BY DEF Enrolment!Idle
    <3> QED  BY <2>1, <2>3, <3>1, <3>2 DEF Ends, Creates
  <2> QED  BY <1>0, <1>4, <2>2, <2>4 DEF Copies, RoomWhileLocked
<1> QED  BY <1>1, <1>2, <1>3, <1>4, StepIsByOne

(* The request a step is by keeps its files, ends, or has just begun.      *)
By(h) ==
  \/ Begins(h) \/ Moved(h) \/ GoesBack(h) \/ Locks(h) \/ Creates(h) \/ Ends(h)
  \/ \E t \in DocType : Copies(h, t) \/ Removes(h, t)

KeepsFiles(h) == UnderWay(h) /\ UnderWay(h)' /\ \A t \in DocType : Enrolment!KeyOf(h, t)' = Enrolment!KeyOf(h, t)

LEMMA ActorKeeps ==
  ASSUME FleetInv, NEW h \in Handler, By(h)
  PROVE  Begins(h) \/ KeepsFiles(h) \/ (creation'[h] = Enrolment!Idle /\ (Creates(h) \/ Ends(h)))
<1>1. ASSUME NEW t \in DocType, Copies(h, t) PROVE KeepsFiles(h)
  BY <1>1 DEF Copies, KeepsFiles, UnderWay, Enrolment!KeyOf, Enrolment!DriverDocumentKey
<1>2. ASSUME NEW at \in {"moving", "locking", "creating", "undoing"}, NEW m \in SUBSET DocType,
             UnderWay(h), Goes(h, at, m)
      PROVE  KeepsFiles(h)
  BY <1>2, CreationGone DEF KeepsFiles
<1>3. UnderWay(h) => creation[h].moved \in SUBSET DocType
  BY CreationShape
<1>4. ASSUME Moved(h) \/ GoesBack(h) \/ Locks(h) PROVE KeepsFiles(h)
  BY <1>2, <1>3, <1>4 DEF Moved, GoesBack, Locks, UnderWay
<1>5. ASSUME NEW t \in DocType, Removes(h, t) PROVE KeepsFiles(h)
  BY <1>2, <1>3, <1>5 DEF Removes, UnderWay
<1>6. ASSUME creation' = [creation EXCEPT ![h] = Enrolment!Idle] PROVE creation'[h] = Enrolment!Idle
  BY <1>6 DEF FleetInv, Enrolment!TypeOK
<1>7. CASE Creates(h)
  BY <1>2, <1>3, <1>6, <1>7 DEF Creates, UnderWay
<1>8. CASE Ends(h)
  BY <1>6, <1>8 DEF Ends
<1> QED  BY <1>1, <1>4, <1>5, <1>7, <1>8 DEF By

LEMMA FleetGrows ==
  ASSUME FleetInv, NEW h \in Handler, By(h)
  PROVE  IF Creates(h) THEN fleet' = fleet \cup {Enrolment!NewDriver(h)} /\ inDoubt \subseteq inDoubt'
                       ELSE fleet' = fleet /\ inDoubt' = inDoubt
BY DEF By, Begins, Moved, GoesBack, Locks, Creates, Ends, Copies, Removes

(* The keys of two requests differ.                                        *)
LEMMA KeysDiffer ==
  /\ \A h \in Handler, t \in DocType : Enrolment!KeyOf(h, t) = <<creation[h].document[t], h>>
  /\ \A h \in Handler : \A k \in FilesOf(h) : k[2] = h
  BY DEF FilesOf, Enrolment!KeyOf, Enrolment!DriverDocumentKey

LEMMA OwnedKept == ASSUME FleetInv, FleetStep PROVE DocumentsOwned'
<1> SUFFICES ASSUME NEW d \in fleet', NEW t \in DocType
             PROVE  /\ \E u \in Upload, g \in Handler : d.document[t] = <<u, g>> /\ staged'[u] = "gone"
                    /\ d \notin inDoubt' => \A g \in Handler : UnderWay(g)' => d.document[t] \notin FilesOf(g)'
  BY DEF DocumentsOwned
<1>0. /\ DocumentsOwned
      /\ \A h \in Handler : RequestOK(h)
  BY RequestsOK DEF FleetInv
<1>1. ASSUME NEW g \in Handler, UnderWay(g)', Untouched(g) \/ KeepsFiles(g)
      PROVE  UnderWay(g) /\ FilesOf(g)' = FilesOf(g)
  BY <1>1 DEF Untouched, KeepsFiles, FilesOf, UnderWay
<1>2. CASE Quiet /\ \A g \in Handler : Untouched(g)
  BY <1>0, <1>1, <1>2, FilesStay DEF DocumentsOwned, Quiet
<1>3. ASSUME NEW h \in Handler, By(h), \A g \in Handler \ {h} : Untouched(g), d \in fleet
      PROVE  /\ \E u \in Upload, g \in Handler : d.document[t] = <<u, g>> /\ staged'[u] = "gone"
             /\ d \notin inDoubt' => \A g \in Handler : UnderWay(g)' => d.document[t] \notin FilesOf(g)'
  <2>1. \E u \in Upload, g \in Handler : d.document[t] = <<u, g>> /\ staged'[u] = "gone"
    BY <1>0, <1>3, FilesStay DEF DocumentsOwned
  <2>2. ASSUME d \notin inDoubt', NEW g \in Handler, UnderWay(g)', ~Begins(h) \/ g # h
        PROVE  d.document[t] \notin FilesOf(g)'
    <3>1. d \notin inDoubt
      BY <1>3, <2>2, FleetGrows
    <3>2. creation'[h] = Enrolment!Idle => ~UnderWay(h)'
      BY DEF UnderWay, Enrolment!Idle
    <3>3. Untouched(g) \/ KeepsFiles(g)
      BY <1>3, <2>2, <3>2, ActorKeeps
    <3> QED  BY <1>0, <1>1, <1>3, <2>2, <3>1, <3>3 DEF DocumentsOwned
  <2>3. ASSUME Begins(h) PROVE d.document[t] \notin FilesOf(h)'
    <3>1. PICK id \in Identity, docs \in [DocType -> Upload] :
             /\ \A e \in DocType : staged[docs[e]] = "staged"
             /\ creation' = [creation EXCEPT ![h] =
                  [at |-> "moving", identity |-> id, document |-> docs, moved |-> {}]]
      BY <2>3 DEF Begins
    <3>2. creation'[h].document = docs
      BY <3>1 DEF FleetInv, Enrolment!TypeOK
    <3>3. \A k \in FilesOf(h)' : \E e \in DocType : k = <<docs[e], h>>
      BY <3>2 DEF FilesOf, Enrolment!KeyOf, Enrolment!DriverDocumentKey
    <3>4. PICK u \in Upload, g \in Handler : d.document[t] = <<u, g>> /\ staged[u] = "gone"
      BY <1>0, <1>3 DEF DocumentsOwned
    <3> QED  BY <3>1, <3>3, <3>4
  <2> QED  BY <2>1, <2>2, <2>3
<1>4. ASSUME NEW h \in Handler, By(h), \A g \in Handler \ {h} : Untouched(g), d \notin fleet
      PROVE  /\ \E u \in Upload, g \in Handler : d.document[t] = <<u, g>> /\ staged'[u] = "gone"
             /\ d \notin inDoubt' => \A g \in Handler : UnderWay(g)' => d.document[t] \notin FilesOf(g)'
  <2>1. Creates(h) /\ d = Enrolment!NewDriver(h) /\ UnderWay(h)
    BY <1>4, FleetGrows DEF Creates, UnderWay
  <2>2. d.document[t] = <<creation[h].document[t], h>> /\ creation[h].document[t] \in Upload
    BY <2>1, NewDriverTyped, CreationShape
  <2>3. staged'[creation[h].document[t]] = "gone"
    BY <1>0, <2>1 DEF Creates, RequestOK
  <2>4. ASSUME d \notin inDoubt', NEW g \in Handler, UnderWay(g)' PROVE d.document[t] \notin FilesOf(g)'
    <3>1. creation' = [creation EXCEPT ![h] = Enrolment!Idle]
      BY <2>1, <2>4 DEF Creates
    <3>2. creation'[h] = Enrolment!Idle
      BY <3>1 DEF FleetInv, Enrolment!TypeOK
    <3>3. g # h
      BY <2>4, <3>2 DEF UnderWay, Enrolment!Idle
    <3>4. UnderWay(g) /\ FilesOf(g)' = FilesOf(g)
      BY <1>1, <1>4, <2>4, <3>3
    <3> QED  BY <2>2, <3>3, <3>4, KeysDiffer
  <2> QED  BY <2>2, <2>3, <2>4
<1> QED  BY <1>2, <1>3, <1>4, StepIsByOne DEF By

LEMMA DocumentedKept == ASSUME FleetInv, FleetStep PROVE Enrolment!DriverIsDocumented'
<1> SUFFICES ASSUME NEW d \in fleet', d \notin inDoubt', NEW t \in DocType
             PROVE  d.document[t] \in promoted'
  BY DEF Enrolment!DriverIsDocumented
<1>0. /\ DocumentsOwned /\ Enrolment!DriverIsDocumented
      /\ \A h \in Handler : RequestOK(h)
  BY RequestsOK DEF FleetInv
<1>1. ASSUME d \in fleet, d \notin inDoubt PROVE d.document[t] \in promoted'
  <2>1. d.document[t] \in promoted
    BY <1>0, <1>1 DEF Enrolment!DriverIsDocumented
  <2>2. ASSUME NEW h \in Handler, Ends(h) PROVE d.document[t] \notin Enrolment!MovedKeys(h)
    <3>1. UnderWay(h) /\ Enrolment!MovedKeys(h) \subseteq FilesOf(h)
      BY <2>2, CreationShape DEF Ends, FilesOf
    <3> QED  BY <1>0, <1>1, <3>1 DEF DocumentsOwned
  <2> QED  BY <2>1, <2>2, FilesStay
<1>2. CASE Quiet
  BY <1>1, <1>2 DEF Quiet
<1>3. ASSUME NEW h \in Handler, By(h) PROVE d.document[t] \in promoted'
  <2>1. CASE d \in fleet
    BY <1>1, <1>3, <2>1, FleetGrows
  <2>2. CASE d \notin fleet
    <3>1. Creates(h) /\ d = Enrolment!NewDriver(h) /\ UnderWay(h)
      BY <1>3, <2>2, FleetGrows DEF Creates, UnderWay
    <3>2. d.document[t] = Enrolment!KeyOf(h, t)
      BY <3>1, NewDriverTyped
    <3> QED  BY <1>0, <3>1, <3>2 DEF RequestOK, Creates
  <2> QED  BY <2>1, <2>2
<1> QED  BY <1>2, <1>3 DEF FleetStep, By

LEMMA AccountedKept == ASSUME FleetInv, FleetStep PROVE Enrolment!FilesAccounted'
<1> SUFFICES ASSUME NEW k \in promoted', k \notin left'
             PROVE  \/ \E d \in fleet' : \E t \in DocType : d.document[t] = k
                    \/ \E h \in Handler : creation'[h] # Enrolment!Idle /\ \E t \in DocType : Enrolment!KeyOf(h, t)' = k
  BY DEF Enrolment!FilesAccounted, Enrolment!Idle
<1>0. /\ Enrolment!FilesAccounted
      /\ \A h \in Handler : RequestOK(h)
  BY RequestsOK DEF FleetInv
<1>1. k \notin left
  BY FilesStay
<1>2. CASE Quiet /\ \A g \in Handler : Untouched(g)
  BY <1>0, <1>1, <1>2 DEF Quiet, Untouched, Enrolment!FilesAccounted
<1>3. ASSUME NEW h \in Handler, By(h), \A g \in Handler \ {h} : Untouched(g)
      PROVE  \/ \E d \in fleet' : \E t \in DocType : d.document[t] = k
             \/ \E g \in Handler : creation'[g] # Enrolment!Idle /\ \E t \in DocType : Enrolment!KeyOf(g, t)' = k
  <2>1. ASSUME NEW t \in DocType, UnderWay(h), k = Enrolment!KeyOf(h, t)
        PROVE  \/ \E d \in fleet' : \E e \in DocType : d.document[e] = k
               \/ creation'[h] # Enrolment!Idle /\ Enrolment!KeyOf(h, t)' = k
    <3>1. CASE KeepsFiles(h)
      BY <2>1, <3>1 DEF KeepsFiles, UnderWay, Enrolment!Idle
    <3>2. CASE Creates(h)
      BY <2>1, <3>2, NewDriverTyped DEF Creates
    <3>3. CASE Ends(h)
      <4>1. Enrolment!MovedKeys(h) = { Enrolment!KeyOf(h, e) : e \in creation[h].moved }
        BY <2>1, CreationShape
      <4>2. k \in FilesOf(h)
        BY <2>1 DEF FilesOf
      <4>3. PICK kept \in SUBSET Enrolment!MovedKeys(h) :
               /\ promoted' = promoted \ (Enrolment!MovedKeys(h) \ kept)
               /\ left' = left \cup kept /\ creation[h].at = "undoing"
        BY <3>3, <4>2 DEF Ends
      <4>4. CASE t \in creation[h].moved
        BY <2>1, <4>1, <4>3, <4>4
      <4>5. CASE t \notin creation[h].moved
        BY <1>0, <1>1, <2>1, <4>3, <4>5 DEF RequestOK
      <4> QED  BY <4>4, <4>5
    <3>4. CASE Begins(h)
      BY <2>1, <3>4 DEF Begins, UnderWay
    <3> QED  BY <1>3, <3>1, <3>2, <3>3, <3>4, ActorKeeps
  <2>2. CASE k \notin promoted
    <3>1. PICK t \in DocType : Copies(h, t)
      BY <1>3, <2>2 DEF By, Begins, Moved, GoesBack, Locks, Creates, Ends, Removes
    <3> QED  BY <2>1, <2>2, <3>1 DEF Copies, UnderWay
  <2>3. CASE \E d \in fleet : \E t \in DocType : d.document[t] = k
    BY <1>3, <2>3, FleetGrows
  <2>4. ASSUME NEW g \in Handler, NEW t \in DocType, creation[g] # Enrolment!Idle, Enrolment!KeyOf(g, t) = k
        PROVE  \/ \E d \in fleet' : \E e \in DocType : d.document[e] = k
               \/ \E f \in Handler : creation'[f] # Enrolment!Idle /\ \E e \in DocType : Enrolment!KeyOf(f, e)' = k
    <3>1. UnderWay(g)
      BY <2>4, CreationShape
    <3>2. CASE g = h
      BY <2>1, <2>4, <3>1, <3>2
    <3>3. CASE g # h
      BY <1>3, <2>4, <3>3 DEF Untouched
    <3> QED  BY <3>2, <3>3
  <2> QED  BY <1>0, <1>1, <2>2, <2>3, <2>4 DEF Enrolment!FilesAccounted
<1> QED  BY <1>2, <1>3, StepIsByOne DEF By

LEMMA EnrolmentKeeps == FleetInv /\ [Enrolment!Next]_(Enrolment!fleetVars) => FleetInv'
<1> SUFFICES ASSUME FleetInv, [Enrolment!Next]_(Enrolment!fleetVars) PROVE FleetInv'
  OBVIOUS
<1>1. FleetStep
  BY EnrolmentSteps DEF FleetStep
<1> QED
  BY <1>1, FleetTyped, RequestsKeep, RoomKept, OwnedKept, DocumentedKept, AccountedKept DEF FleetInv

(* The fleet grows in one kind of step, and there is room for it.          *)
LEMMA EnrolmentHasRoom ==
  FleetInv /\ [Enrolment!Next]_(Enrolment!fleetVars) => (fleet' # fleet => Enrolment!Available # 0)
<1> SUFFICES ASSUME FleetInv, [Enrolment!Next]_(Enrolment!fleetVars), fleet' # fleet
             PROVE  Enrolment!Available # 0
  OBVIOUS
<1>1. FleetStep
  BY EnrolmentSteps DEF FleetStep
<1>2. PICK h \in Handler : Creates(h)
  BY <1>1 DEF FleetStep, Quiet, Begins, Moved, GoesBack, Locks, Ends, Copies, Removes
<1>3. ~Enrolment!Full
  BY <1>2 DEF Creates, FleetInv, RoomWhileLocked
<1>4. declared = None \/ declared \in Nat
  BY AccessAssumption DEF FleetInv, Enrolment!TypeOK
<1>5. Cardinality(fleet) \in Nat /\ Enrolment!Cardinality(fleet) = Cardinality(fleet)
  <2>1. Cardinality(fleet) \in Nat
    BY FS_CardinalityType DEF FleetInv
  <2> QED  BY <2>1 DEF Cardinality, Enrolment!Cardinality
<1> QED
  BY <1>3, <1>4, <1>5, PinAssumption DEF Enrolment!Available, Enrolment!Full, Enrolment!FleetQuota

(* What happens to the account of the driver is a step of his creation or  *)
(* leaves the fleet alone.                                                 *)
LEMMA AccessIsEnrolment == [AccessNext]_<<accessVars, fleetVars>> => [Enrolment!Next]_(Enrolment!fleetVars)
BY DEF AccessNext, EnrolStep, AccessStep, fleetVars, Enrolment!fleetVars, Enrolment!fileVars

(* The creation of drivers goes on as FleetEnrolment says, whatever the    *)
(* account of the first driver does meanwhile.                             *)
THEOREM AccessEnrols == AccessSpec => Enrolment!Spec
<1>1. AccessInit => Enrolment!Init
  BY DEF AccessInit
<1> QED  BY <1>1, AccessIsEnrolment, PTL DEF AccessSpec, Enrolment!Spec

(* What the creation of drivers keeps: the quota's lock covers its room,   *)
(* and the files in place belong to somebody.                              *)
THEOREM EnrolmentHolds == AccessSpec => []FleetInv
<1>1. Enrolment!Spec => []FleetInv
  BY FleetStart, EnrolmentKeeps, PTL DEF Enrolment!Spec
<1> QED  BY <1>1, AccessEnrols, PTL

(* See FilesMatchDrivers: no driver loses a file to the undoing of another *)
(* request, and no file is forgotten while its request runs.               *)
THEOREM DriversHaveTheirFiles == AccessSpec => []FilesMatchDrivers
<1>1. FleetInv => FilesMatchDrivers
  BY DEF FleetInv, FilesMatchDrivers
<1> QED  BY <1>1, EnrolmentHolds, PTL

(* See QuotaKept: nobody is created beyond the quota in force.             *)
THEOREM FleetWithinQuota == AccessSpec => QuotaKept
<1>1. FleetInv /\ [Enrolment!Next]_(Enrolment!fleetVars)
        => [fleet' # fleet => Enrolment!Available # 0]_(Enrolment!fleetVars)
  BY EnrolmentHasRoom
<1> QED  BY <1>1, AccessEnrols, EnrolmentHolds, PTL DEF QuotaKept, Enrolment!QuotaKept, Enrolment!Spec

-----------------------------------------------------------------------------
(* The PIN. As long as requests come one at a time, the one under way      *)
(* knows the count it read, sends the PIN in force, and marks one that was *)
(* sent.                                                                   *)

RequestsApart == \A g, h \in Handler : request[g] # Idle /\ request[h] # Idle => g = h

RequestsCurrent ==
  \A h \in Handler :
    /\ request[h].op = "login" => request[h].seen.failed = failed
    /\ request[h].op = "send" => request[h].pin = pin
    /\ request[h].op = "mark" => pin \in known

PinInv ==
  /\ TypeOK /\ FailuresAddUp /\ BlockMatchesCount /\ DeliveredIsCurrent
  /\ serial => RequestsApart /\ RequestsCurrent

LEMMA PinStarts == NewDriver /\ request = [h \in Handler |-> Idle] => PinInv
<1> SUFFICES ASSUME NewDriver, request = [h \in Handler |-> Idle] PROVE PinInv
  OBVIOUS
<1>1. TypeOK
  <2>1. TempTtl \in Nat /\ MaxTime + Block + TempTtl \in Nat /\ {MaxTime, MaxFailed} \subseteq Nat
    BY PinAssumption
  <2>2. TempTtl \in Deadline /\ 0 \in Moment /\ 0 \in 0..MaxFailed /\ TempTtl # None
    BY <2>1, PinAssumption DEF Deadline, Moment
  <2> QED  BY <2>2 DEF TypeOK, NewDriver
<1> USE PinAssumption DEF NewDriver
<1>2. FailuresAddUp /\ BlockMatchesCount /\ DeliveredIsCurrent
  BY DEF FailuresAddUp, BlockMatchesCount, DeliveredIsCurrent
<1>3. RequestsApart /\ RequestsCurrent
  BY DEF RequestsApart, RequestsCurrent, Idle
<1> QED  BY <1>1, <1>2, <1>3 DEF PinInv

RequestType ==
  {Idle} \cup [op : {"login"}, seen : Seen] \cup [op : {"send"}, pin : Pin] \cup [op : {"mark"}]

(* A statement of one request leaves the others alone.                     *)
LEMMA RequestMoves ==
  ASSUME PinInv, NEW h \in Handler, NEW r \in RequestType, request' = [request EXCEPT ![h] = r]
  PROVE  /\ request' \in [Handler -> RequestType]
         /\ request'[h] = r
         /\ \A g \in Handler \ {h} : request'[g] = request[g]
BY DEF PinInv, TypeOK, RequestType

(* If the request was alone it still is, as far as it goes on.             *)
LEMMA StaysApart ==
  ASSUME PinInv, NEW h \in Handler, request[h] # Idle \/ \A g \in Handler : request[g] = Idle, serial,
         \A g \in Handler \ {h} : request'[g] = request[g]
  PROVE  /\ \A g \in Handler \ {h} : request[g] = Idle /\ request'[g] = Idle
         /\ RequestsApart'
BY DEF PinInv, RequestsApart

LEMMA FailureCounted ==
  ASSUME PinInv, NEW f \in 0..MaxFailed, failed < MaxFailed, RegisterFailure(f)
  PROVE  /\ failed' \in 0..MaxFailed /\ wrong' \in 0..MaxFailed /\ failed' = wrong'
         /\ blockedUntil' \in Deadline \cup {None}
         /\ f = failed => (blockedUntil' # None <=> failed' >= MaxAttempts)
<1>1. /\ failed \in Nat /\ wrong = failed /\ now \in 0..MaxTime
  BY PinAssumption DEF PinInv, TypeOK, FailuresAddUp, Moment
<1>2. {Block, TempTtl, MaxTime, MaxFailed, MaxAttempts} \subseteq Nat
  BY PinAssumption
<1>3. now + Block \in Deadline /\ now + Block # None
  BY <1>1, <1>2, PinAssumption DEF Deadline
<1> QED  BY <1>1, <1>2, <1>3 DEF RegisterFailure, LockoutAfterFailure

LEMMA AttemptsReset ==
  ASSUME PinInv, ResetAttempts
  PROVE  /\ failed' \in 0..MaxFailed /\ wrong' \in 0..MaxFailed /\ failed' = wrong'
         /\ blockedUntil' = None /\ ~(failed' >= MaxAttempts)
BY PinAssumption DEF ResetAttempts

LEMMA ReadKeeps ==
  ASSUME PinInv, NEW h \in Handler, NEW entered \in Pin, ReadDriver(h, entered), Begun PROVE PinInv'
<1> DEFINE seen == [right |-> entered = pin, failed |-> failed,
                    admitted |-> delivered /\ enabled, until |-> tempUntil]
           r == [op |-> "login", seen |-> seen]
<1>1. seen \in Seen
  <2>1. failed \in 0..MaxFailed /\ tempUntil \in Deadline \cup {None}
    BY DEF PinInv, TypeOK
  <2>2. (entered = pin) \in BOOLEAN /\ (delivered /\ enabled) \in BOOLEAN
    OBVIOUS
  <2> QED  BY <2>1, <2>2 DEF Seen
<1>2. r \in RequestType /\ r.op = "login" /\ r.seen.failed = failed
  BY <1>1 DEF RequestType
<1> HIDE DEF seen, r
<1>3. request' = [request EXCEPT ![h] = r]
  BY DEF ReadDriver, r, seen
<1>4. /\ request' \in [Handler -> RequestType] /\ request'[h] = r
      /\ \A g \in Handler \ {h} : request'[g] = request[g]
  BY <1>2, <1>3, RequestMoves
<1>5. UNCHANGED <<pinVars, countVars, enabled, loggedIn, now, known>>
  BY DEF ReadDriver
<1>6. ASSUME serial' PROVE serial /\ \A g \in Handler : request[g] = Idle
  BY <1>6 DEF Begun
<1>7. serial' \in BOOLEAN
  BY DEF Begun
<1>8. ASSUME serial' PROVE RequestsApart' /\ RequestsCurrent'
  <2>1. RequestsApart' /\ \A g \in Handler \ {h} : request'[g] = Idle
    BY <1>4, <1>6, <1>8, StaysApart
  <2> QED  BY <1>2, <1>4, <1>5, <2>1 DEF RequestsCurrent, Idle, pinVars, countVars
<1>9. TypeOK' /\ FailuresAddUp'
  BY <1>4, <1>5, <1>7 DEF PinInv, TypeOK, FailuresAddUp, RequestType, pinVars, countVars
<1>10. BlockMatchesCount' /\ DeliveredIsCurrent'
  BY <1>5, <1>6 DEF PinInv, BlockMatchesCount, DeliveredIsCurrent, pinVars, countVars
<1> QED  BY <1>8, <1>9, <1>10 DEF PinInv

LEMMA WrongCurrentKeeps ==
  ASSUME PinInv, NEW entered \in Pin, NEW new \in Pin, WrongCurrentPin(entered, new), Begun PROVE PinInv'
<1>1. failed \in 0..MaxFailed /\ failed < MaxFailed /\ RegisterFailure(failed)
  BY DEF PinInv, TypeOK, WrongCurrentPin
<1>2. /\ failed' \in 0..MaxFailed /\ wrong' \in 0..MaxFailed /\ failed' = wrong'
      /\ blockedUntil' \in Deadline \cup {None}
      /\ blockedUntil' # None <=> failed' >= MaxAttempts
  BY <1>1, FailureCounted
<1>3. UNCHANGED <<pinVars, enabled, loggedIn, now, request, known>>
  BY DEF WrongCurrentPin
<1>4. ASSUME serial' PROVE serial /\ \A g \in Handler : request[g] = Idle
  BY <1>4 DEF Begun
<1>5. TypeOK' /\ FailuresAddUp'
  BY <1>2, <1>3 DEF PinInv, TypeOK, FailuresAddUp, pinVars, Begun
<1>6. serial' => RequestsApart' /\ RequestsCurrent'
  BY <1>3, <1>4 DEF RequestsApart, RequestsCurrent, Idle
<1>7. BlockMatchesCount' /\ DeliveredIsCurrent'
  BY <1>2, <1>3, <1>4 DEF PinInv, BlockMatchesCount, DeliveredIsCurrent, pinVars
<1> QED  BY <1>5, <1>6, <1>7 DEF PinInv

(* What only ends a request, or touches none.                              *)
LEMMA AnswerKeeps ==
  ASSUME PinInv, NEW h \in Handler, request[h] # Idle, Answered(h)
  PROVE  /\ request' \in [Handler -> RequestType]
         /\ request'[h] = Idle /\ \A g \in Handler \ {h} : request'[g] = request[g]
         /\ serial => RequestsApart' /\ \A g \in Handler : request'[g] = Idle
<1>1. /\ request' \in [Handler -> RequestType]
      /\ request'[h] = Idle /\ \A g \in Handler \ {h} : request'[g] = request[g]
  BY RequestMoves DEF Answered, RequestType
<1> QED  BY <1>1, StaysApart

LEMMA LoginFailsKeeps ==
  ASSUME PinInv, NEW h \in Handler, LoginFails(h), UNCHANGED serial PROVE PinInv'
<1>1. request[h] # Idle /\ Answered(h)
  BY DEF LoginFails, Idle
<1>2. request[h].seen.failed \in 0..MaxFailed
  BY DEF PinInv, TypeOK, LoginFails, Idle, Seen
<1>3. /\ failed' \in 0..MaxFailed /\ wrong' \in 0..MaxFailed /\ failed' = wrong'
      /\ blockedUntil' \in Deadline \cup {None}
      /\ serial => (blockedUntil' # None <=> failed' >= MaxAttempts)
  BY <1>2, FailureCounted DEF LoginFails, PinInv, RequestsCurrent
<1>4. UNCHANGED <<pinVars, enabled, loggedIn, now, known>>
  BY DEF LoginFails
<1>5. /\ request' \in [Handler -> RequestType]
      /\ serial => RequestsApart' /\ \A g \in Handler : request'[g] = Idle
  BY <1>1, AnswerKeeps
<1>6. TypeOK' /\ FailuresAddUp'
  BY <1>3, <1>4, <1>5 DEF PinInv, TypeOK, FailuresAddUp, pinVars, RequestType
<1>7. serial' => RequestsApart' /\ RequestsCurrent'
  BY <1>5 DEF RequestsCurrent, Idle
<1>8. BlockMatchesCount' /\ DeliveredIsCurrent'
  BY <1>3, <1>4 DEF PinInv, BlockMatchesCount, DeliveredIsCurrent, pinVars
<1> QED  BY <1>6, <1>7, <1>8 DEF PinInv

LEMMA LoginSucceedsKeeps ==
  ASSUME PinInv, NEW h \in Handler, LoginSucceeds(h), UNCHANGED serial PROVE PinInv'
<1>1. request[h] # Idle /\ Answered(h)
  BY DEF LoginSucceeds, Idle
<1>2. /\ failed' \in 0..MaxFailed /\ wrong' \in 0..MaxFailed /\ failed' = wrong'
      /\ blockedUntil' = None /\ ~(failed' >= MaxAttempts)
  BY AttemptsReset DEF LoginSucceeds
<1>3. UNCHANGED <<pinVars, enabled, now, known>> /\ loggedIn' = TRUE
  BY DEF LoginSucceeds
<1>4. /\ request' \in [Handler -> RequestType]
      /\ serial => RequestsApart' /\ \A g \in Handler : request'[g] = Idle
  BY <1>1, AnswerKeeps
<1>5. TypeOK' /\ FailuresAddUp'
  BY <1>2, <1>3, <1>4 DEF PinInv, TypeOK, FailuresAddUp, pinVars, RequestType
<1>6. serial' => RequestsApart' /\ RequestsCurrent'
  BY <1>4 DEF RequestsCurrent, Idle
<1>7. BlockMatchesCount' /\ DeliveredIsCurrent'
  BY <1>2, <1>3 DEF PinInv, BlockMatchesCount, DeliveredIsCurrent, pinVars
<1> QED  BY <1>5, <1>6, <1>7 DEF PinInv

(* The request fails, or the driver is suspended, or time passes: what is  *)
(* counted and sent stays.                                                 *)
LEMMA FailsKeeps ==
  ASSUME PinInv, NEW h \in Handler, Fails(h), UNCHANGED serial PROVE PinInv'
<1>1. request[h] # Idle /\ Answered(h)
  BY DEF Fails
<1>2. /\ request' \in [Handler -> RequestType]
      /\ serial => RequestsApart' /\ \A g \in Handler : request'[g] = Idle
  BY <1>1, AnswerKeeps
<1>3. UNCHANGED <<pinVars, countVars, enabled, loggedIn, now, known>>
  BY DEF Fails
<1>4. TypeOK' /\ FailuresAddUp' /\ BlockMatchesCount' /\ DeliveredIsCurrent'
  BY <1>2, <1>3 DEF PinInv, TypeOK, FailuresAddUp, BlockMatchesCount, DeliveredIsCurrent,
     pinVars, countVars, RequestType
<1>5. serial' => RequestsApart' /\ RequestsCurrent'
  BY <1>2 DEF RequestsCurrent, Idle
<1> QED  BY <1>4, <1>5 DEF PinInv

LEMMA EnvironmentKeeps ==
  ASSUME PinInv, Tick \/ Suspend, UNCHANGED serial PROVE PinInv'
<1>1. UNCHANGED <<pinVars, countVars, loggedIn, request, known>> /\ enabled' \in BOOLEAN
  BY DEF Tick, Suspend, PinInv, TypeOK
<1>2. now' \in Moment
  BY PinAssumption DEF Tick, Suspend, PinInv, TypeOK, Moment
<1>3. TypeOK' /\ FailuresAddUp' /\ BlockMatchesCount' /\ DeliveredIsCurrent'
  BY <1>1, <1>2 DEF PinInv, TypeOK, FailuresAddUp, BlockMatchesCount, DeliveredIsCurrent,
     pinVars, countVars
<1>4. serial' => RequestsApart' /\ RequestsCurrent'
  BY <1>1 DEF PinInv, RequestsApart, RequestsCurrent, pinVars, countVars
<1> QED  BY <1>3, <1>4 DEF PinInv

LEMMA ChangeKeeps ==
  ASSUME PinInv, NEW entered \in Pin, NEW new \in Pin, ChangePin(entered, new), Begun PROVE PinInv'
<1>1. /\ failed' \in 0..MaxFailed /\ wrong' \in 0..MaxFailed /\ failed' = wrong'
      /\ blockedUntil' = None /\ ~(failed' >= MaxAttempts)
  BY AttemptsReset DEF ChangePin, ApplyNewPin
<1>2. /\ pin' = new /\ mustChange' = FALSE /\ tempUntil' = None /\ changedAt' = now
      /\ known' = known \cup {new} /\ UNCHANGED <<delivered, enabled, loggedIn, now, request>>
  BY DEF ChangePin, ApplyNewPin
<1>3. ASSUME serial' PROVE serial /\ \A g \in Handler : request[g] = Idle
  BY <1>3 DEF Begun
<1>4. TypeOK' /\ FailuresAddUp'
  BY <1>1, <1>2 DEF PinInv, TypeOK, FailuresAddUp, Begun
<1>5. serial' => RequestsApart' /\ RequestsCurrent'
  BY <1>2, <1>3 DEF RequestsApart, RequestsCurrent, Idle
<1>6. BlockMatchesCount' /\ DeliveredIsCurrent'
  BY <1>1, <1>2 DEF BlockMatchesCount, DeliveredIsCurrent
<1> QED  BY <1>4, <1>5, <1>6 DEF PinInv

LEMMA ResendKeeps ==
  ASSUME PinInv, NEW h \in Handler, ResendPin(h), Begun PROVE PinInv'
<1>1. PICK new \in Pin : RotatePin(h, new)
  BY DEF ResendPin
<1> DEFINE r == [op |-> "send", pin |-> new]
<1>2. r \in RequestType /\ r.op = "send" /\ r.pin = new
  BY DEF RequestType
<1>3. request' = [request EXCEPT ![h] = r]
  BY <1>1 DEF RotatePin
<1> HIDE DEF r
<1>4. /\ request' \in [Handler -> RequestType] /\ request'[h] = r
      /\ \A g \in Handler \ {h} : request'[g] = request[g]
  BY <1>2, <1>3, RequestMoves
<1>5. /\ failed' \in 0..MaxFailed /\ wrong' \in 0..MaxFailed /\ failed' = wrong'
      /\ blockedUntil' = None /\ ~(failed' >= MaxAttempts)
  BY <1>1, AttemptsReset DEF RotatePin
<1>6. /\ pin' = new /\ mustChange' = TRUE /\ tempUntil' = now + TempTtl /\ delivered' = FALSE
      /\ UNCHANGED <<changedAt, enabled, loggedIn, now, known>>
  BY <1>1 DEF RotatePin, ResendPin
<1>7. tempUntil' \in Deadline /\ tempUntil' # None
  <2>1. now \in 0..MaxTime /\ {Block, TempTtl, MaxTime} \subseteq Nat /\ None \notin Nat
    BY PinAssumption DEF PinInv, TypeOK, Moment
  <2> QED  BY <1>6, <2>1 DEF Deadline
<1>8. ASSUME serial' PROVE serial /\ \A g \in Handler : request[g] = Idle
  BY <1>8 DEF Begun
<1>9. ASSUME serial' PROVE RequestsApart' /\ RequestsCurrent'
  <2>1. RequestsApart' /\ \A g \in Handler \ {h} : request'[g] = Idle
    BY <1>4, <1>8, <1>9, StaysApart
  <2> QED  BY <1>2, <1>4, <1>6, <2>1 DEF RequestsCurrent, Idle
<1>10. TypeOK'
  BY <1>4, <1>5, <1>6, <1>7 DEF PinInv, TypeOK, RequestType, Begun
<1>11. FailuresAddUp' /\ BlockMatchesCount' /\ DeliveredIsCurrent'
  BY <1>5, <1>6 DEF FailuresAddUp, BlockMatchesCount, DeliveredIsCurrent
<1> QED  BY <1>9, <1>10, <1>11 DEF PinInv

LEMMA SmsKeeps ==
  ASSUME PinInv, NEW h \in Handler, SmsSent(h), UNCHANGED serial PROVE PinInv'
<1> DEFINE r == [op |-> "mark"]
<1>1. r \in RequestType /\ r.op = "mark"
  BY DEF RequestType
<1>2. request' = [request EXCEPT ![h] = r] /\ request[h] # Idle
  BY DEF SmsSent, Idle
<1> HIDE DEF r
<1>3. /\ request' \in [Handler -> RequestType] /\ request'[h] = r
      /\ \A g \in Handler \ {h} : request'[g] = request[g]
  BY <1>1, <1>2, RequestMoves
<1>4. request[h].pin \in Pin
  BY DEF PinInv, TypeOK, SmsSent, Idle
<1>5. known' = known \cup {request[h].pin} /\ UNCHANGED <<pinVars, countVars, enabled, loggedIn, now>>
  BY DEF SmsSent
<1>6. TypeOK'
  BY <1>3, <1>4, <1>5 DEF PinInv, TypeOK, RequestType, pinVars, countVars
<1>7. FailuresAddUp' /\ BlockMatchesCount' /\ DeliveredIsCurrent'
  BY <1>5 DEF PinInv, FailuresAddUp, BlockMatchesCount, DeliveredIsCurrent, pinVars, countVars
<1>8. ASSUME serial PROVE RequestsApart' /\ RequestsCurrent'
  <2>1. RequestsApart' /\ \A g \in Handler \ {h} : request'[g] = Idle
    BY <1>2, <1>3, <1>8, StaysApart
  <2>2. request[h].pin = pin
    BY <1>8 DEF PinInv, RequestsCurrent, SmsSent
  <2> QED  BY <1>1, <1>3, <1>5, <2>1, <2>2 DEF RequestsCurrent, Idle, pinVars
<1> QED  BY <1>6, <1>7, <1>8 DEF PinInv

LEMMA MarkKeeps ==
  ASSUME PinInv, NEW h \in Handler, MarkPinDelivered(h), UNCHANGED serial PROVE PinInv'
<1>1. request[h] # Idle /\ Answered(h) /\ request[h].op = "mark"
  BY DEF MarkPinDelivered, Idle
<1>2. /\ request' \in [Handler -> RequestType]
      /\ serial => RequestsApart' /\ \A g \in Handler : request'[g] = Idle
  BY <1>1, AnswerKeeps
<1>3. /\ delivered' = TRUE
      /\ UNCHANGED <<pin, mustChange, tempUntil, changedAt, countVars, enabled, loggedIn, now, known>>
  BY DEF MarkPinDelivered
<1>4. TypeOK'
  BY <1>2, <1>3 DEF PinInv, TypeOK, countVars, RequestType
<1>5. FailuresAddUp' /\ BlockMatchesCount' /\ DeliveredIsCurrent'
  BY <1>1, <1>3 DEF PinInv, FailuresAddUp, BlockMatchesCount, DeliveredIsCurrent, RequestsCurrent, countVars
<1>6. serial' => RequestsApart' /\ RequestsCurrent'
  BY <1>2 DEF RequestsCurrent, Idle
<1> QED  BY <1>4, <1>5, <1>6 DEF PinInv

(* The request that created the driver sends him his first PIN.            *)
FirstSending ==
  /\ \E h \in Handler : request' = Sending(h)
  /\ UNCHANGED <<pinVars, countVars, enabled, loggedIn, now, known, serial>>

LEMMA FirstSendingKeeps == ASSUME PinInv, FirstSending PROVE PinInv'
<1>1. PICK h \in Handler : request' = Sending(h)
  BY DEF FirstSending
<1>2. /\ request' \in [Handler -> RequestType]
      /\ request'[h] = [op |-> "send", pin |-> pin] /\ \A g \in Handler \ {h} : request'[g] = Idle
  BY <1>1 DEF Sending, PinInv, TypeOK, RequestType
<1>3. UNCHANGED <<pinVars, countVars, enabled, loggedIn, now, known, serial>>
  BY DEF FirstSending
<1>4. TypeOK' /\ FailuresAddUp' /\ BlockMatchesCount' /\ DeliveredIsCurrent'
  BY <1>2, <1>3 DEF PinInv, TypeOK, FailuresAddUp, BlockMatchesCount, DeliveredIsCurrent,
     pinVars, countVars, RequestType
<1>5. RequestsApart' /\ RequestsCurrent'
  BY <1>2, <1>3 DEF RequestsApart, RequestsCurrent, Idle, pinVars
<1> QED  BY <1>4, <1>5 DEF PinInv

(* What happens to the account is a step on the PIN, or leaves it alone.   *)
LEMMA AccessIsPin == [AccessNext]_<<accessVars, fleetVars>> => [Next]_vars \/ FirstSending
<1> SUFFICES ASSUME [AccessNext]_<<accessVars, fleetVars>> PROVE [Next]_vars \/ FirstSending
  OBVIOUS
<1>1. CASE UNCHANGED <<accessVars, fleetVars>>
  BY <1>1 DEF accessVars
<1>2. CASE EnrolStep
  BY <1>2 DEF EnrolStep, FirstSending, vars
<1>3. ASSUME NEW h \in Handler, PinStep(h) PROVE [Next]_vars
  BY <1>3 DEF PinStep, PinStart, PinProceed, Begun, Login, Reset, SuspendDriver, Change, RepeatChange,
     Next, Start, Proceed
<1>4. CASE AccessStep
  BY <1>3, <1>4 DEF AccessStep, Next, Proceed
<1> QED  BY <1>1, <1>2, <1>4 DEF AccessNext

LEMMA PinKeeps == PinInv /\ ([Next]_vars \/ FirstSending) => PinInv'
<1> SUFFICES ASSUME PinInv, [Next]_vars \/ FirstSending PROVE PinInv'
  OBVIOUS
<1>1. CASE UNCHANGED vars
  BY <1>1 DEF vars, pinVars, countVars, PinInv, TypeOK, FailuresAddUp, BlockMatchesCount, DeliveredIsCurrent,
     RequestsApart, RequestsCurrent
<1>2. CASE Start /\ serial' = (serial /\ \A h \in Handler : request[h] = Idle)
  BY <1>2, ReadKeeps, ResendKeeps, ChangeKeeps, WrongCurrentKeeps DEF Start, Begun
<1>3. CASE Proceed /\ UNCHANGED serial
  BY <1>3, EnvironmentKeeps, LoginFailsKeeps, LoginSucceedsKeeps, SmsKeeps, MarkKeeps, FailsKeeps DEF Proceed
<1> QED  BY <1>1, <1>2, <1>3, FirstSendingKeeps DEF Next

(* What the PIN of the driver keeps, and what the request under way knows  *)
(* of it as long as requests come one at a time.                           *)
THEOREM PinHolds == AccessSpec => []PinInv
<1>1. AccessInit => PinInv
  BY PinStarts DEF AccessInit
<1> QED  BY <1>1, AccessIsPin, PinKeeps, PTL DEF AccessSpec

(* See FailuresCount: wrong PINs at the login and at the change are        *)
(* counted once each, and block at the limit.                              *)
THEOREM FailuresAreCounted == AccessSpec => []FailuresCount
<1>1. PinInv => FailuresCount
  BY DEF PinInv, FailuresCount
<1> QED  BY <1>1, PinHolds, PTL

(* See DeliveredIsCurrent: the mark of delivery neither outlives a reset   *)
(* nor precedes the SMS.                                                   *)
THEOREM DeliveredPinIsCurrent == AccessSpec => []DeliveredIsCurrent
<1>1. PinInv => DeliveredIsCurrent
  BY DEF PinInv
<1> QED  BY <1>1, PinHolds, PTL

-----------------------------------------------------------------------------
(* The sessions. A token that is being replaced is used up, by one refresh *)
(* only, and has no successor yet; what a revocation met is used up too.   *)

UsedUp == {"revoked", "purged"}

RowsFit ==
  /\ \A t \in Tokens!Token : /\ row[t] = "none" => origin[t] = 0
                             /\ origin[t] # 0 => row[origin[t]] \in UsedUp
  /\ \A t, u \in Tokens!Token : origin[t] = origin[u] /\ t # u => origin[t] = 0
  /\ \A t \in ended : row[t] \in UsedUp
  /\ cut => ~enabled

CallFits(h) ==
  /\ call[h].op = "create" =>
       /\ row[call[h].token] \in UsedUp
       /\ \A u \in Tokens!Token : origin[u] # call[h].token
       /\ call[h].token \in ended => call[h].token \in underWay
       /\ \A g \in Handler : call[g].op = "create" /\ call[g].token = call[h].token => g = h
  /\ call[h].op = "check" => row[call[h].token] # "none"
  /\ call[h].op = "revoke" => (call[h].next = "cut" => ~enabled)

TokenInv ==
  /\ Tokens!TypeOK /\ RowsFit
  /\ \A h \in Handler : CallFits(h)
  /\ Tokens!OnlySwappedOutlive /\ Tokens!SuspendedKeepsNoRefresh

LEMMA TokensStart == Tokens!Init => TokenInv
<1> SUFFICES ASSUME Tokens!Init PROVE TokenInv
  OBVIOUS
<1>1. Tokens!TypeOK
  BY DEF Tokens!Init, Tokens!TypeOK, Tokens!Call, Tokens!Created, Tokens!Absent
<1>2. RowsFit /\ \A h \in Handler : CallFits(h)
  BY DEF Tokens!Init, RowsFit, CallFits, Tokens!Token
<1>3. Tokens!OnlySwappedOutlive /\ Tokens!SuspendedKeepsNoRefresh
  BY DEF Tokens!Init, Tokens!OnlySwappedOutlive, Tokens!SuspendedKeepsNoRefresh
<1> QED  BY <1>1, <1>2, <1>3 DEF TokenInv

LEMMA LeastOf ==
  ASSUME NEW S \in SUBSET Nat, S # {}
  PROVE  \E n \in S : \A m \in S : n <= m
<1> DEFINE Less == { ss \in Nat \X Nat : ss[1] < ss[2] }
<1>1. IsWellFoundedOn(Less, Nat)
  BY NatLessThanWellFounded DEF OpToRel
<1>2. PICK n \in S : \A m \in S : ~ (<<m, n>> \in Less)
  BY <1>1, WFMin
<1>3. \A m \in S : ~ (m < n)
  BY <1>2
<1> QED  BY <1>3

(* The database gives a new token an identity of its own.                  *)
LEMMA NextTokenIsNew ==
  ASSUME NEW u \in Tokens!Token, row[u] = "none"
  PROVE  Tokens!NextToken \in Tokens!Token /\ row[Tokens!NextToken] = "none"
<1> DEFINE S == { t \in Tokens!Token : row[t] = "none" }
<1>1. S \in SUBSET Nat /\ S # {}
  BY AccessAssumption DEF Tokens!Token
<1>2. PICK t \in S : \A s \in S : t <= s
  <2> HIDE DEF S
  <2> QED  BY <1>1, LeastOf
<1>3. \A v \in 1..(t - 1) : row[v] # "none"
  <2>1. ASSUME NEW v \in 1..(t - 1), row[v] = "none" PROVE FALSE
    <3>1. t \in Nat /\ v \in Nat /\ v < t /\ v \in Tokens!Token
      BY <1>1, AccessAssumption DEF Tokens!Token
    <3> QED  BY <1>2, <2>1, <3>1
  <2> QED  BY <2>1
<1> QED  BY <1>2, <1>3 DEF Tokens!NextToken

-----------------------------------------------------------------------------
(* The kinds of steps on the sessions.                                     *)

(* A call begins, goes on without a new token, or ends.                    *)
Calls(h) ==
  /\ \E c \in Tokens!Call :
       /\ c.op \notin {"create", "check"}
       /\ c.op = "revoke" => (c.next = "cut" => ~enabled')
       /\ call' = [call EXCEPT ![h] = c]
  /\ enabled' \in BOOLEAN /\ (enabled' => enabled)
  /\ UNCHANGED <<row, origin, held, ended, underWay, cut>>

Issues(h) ==
  /\ \E u \in Tokens!Token :
       /\ row[u] = "none" /\ row' = [row EXCEPT ![u] = "live"] /\ origin' = [origin EXCEPT ![u] = 0]
       /\ held' = held \cup {u}
  /\ call' = [call EXCEPT ![h] = [op |-> "idle"]]
  /\ UNCHANGED <<enabled, ended, underWay, cut>>

Swaps(h) ==
  /\ \E t \in Tokens!Token :
       /\ row[t] \in {"live", "expired"}
       /\ row' = [row EXCEPT ![t] = "revoked"]
       /\ call' = [call EXCEPT ![h] = [op |-> "create", token |-> t]]
  /\ UNCHANGED <<origin, held, enabled, ended, underWay, cut>>

Succeeds(h) ==
  /\ call[h].op = "create"
  /\ \E u \in Tokens!Token :
       /\ row[u] = "none" /\ row' = [row EXCEPT ![u] = "live"]
       /\ origin' = [origin EXCEPT ![u] = call[h].token]
       /\ call' = [call EXCEPT ![h] = [op |-> "check", token |-> u]]
  /\ UNCHANGED <<held, enabled, ended, underWay, cut>>

Answers(h) ==
  /\ call[h].op = "check" /\ enabled
  /\ call' = [call EXCEPT ![h] = [op |-> "idle"]]
  /\ held' = held \cup {call[h].token}
  /\ UNCHANGED <<row, origin, enabled, ended, underWay, cut>>

(* Sessions end by themselves, or rows are purged.                         *)
Fades ==
  /\ row' \in [Tokens!Token -> {"live", "expired", "revoked", "none", "purged"}]
  /\ \A t \in Tokens!Token :
       row'[t] # row[t] => /\ row[t] # "none" /\ row'[t] \notin {"none", "live"}
                           /\ row[t] \in UsedUp => row'[t] \in UsedUp
  /\ UNCHANGED <<origin, held, enabled, call, ended, underWay, cut>>

TokenKind ==
  \/ UNCHANGED <<tokenVars, enabled>> \/ Fades
  \/ \E h \in Handler :
       Calls(h) \/ Issues(h) \/ Swaps(h) \/ Succeeds(h) \/ Answers(h) \/ Tokens!RevokeAllForUser(h)

LEMMA BeginCalls ==
  ASSUME TokenInv, NEW h \in Handler, NEW c \in Tokens!Call, c.op \notin {"create", "check"},
         c.op = "revoke" => (c.next = "cut" => ~enabled'),
         Tokens!Begin(h, c), enabled' \in BOOLEAN, enabled' => enabled
  PROVE  Calls(h)
BY DEF Calls, Tokens!Begin, Tokens!Continue, Tokens!rowVars, Tokens!histVars

(* Steps that only begin a call.                                           *)
LEMMA BeginningsCall ==
  ASSUME TokenInv, NEW h \in Handler
  PROVE  /\ Login(h) \/ (Tokens!ChangePin(h) /\ UNCHANGED enabled) \/ Reset(h) \/ SuspendDriver(h) => Calls(h)
         /\ \A t \in Tokens!Token : Tokens!FindToken(h, t) => Calls(h)
<1>1. enabled \in BOOLEAN
  BY DEF TokenInv, Tokens!TypeOK
<1>2. /\ [op |-> "issue"] \in Tokens!Call
      /\ \A n \in {"idle", "issue", "cut"} : [op |-> "revoke", next |-> n] \in Tokens!Call
      /\ \A t \in Tokens!Token : [op |-> "swap", token |-> t] \in Tokens!Call
  BY DEF Tokens!Call
<1>3. CASE Login(h)
  BY <1>1, <1>2, <1>3, BeginCalls DEF Login, LoginSucceeds
<1>4. CASE Tokens!ChangePin(h) /\ UNCHANGED enabled
  BY <1>1, <1>2, <1>4, BeginCalls DEF Tokens!ChangePin
<1>5. CASE Reset(h)
  BY <1>1, <1>2, <1>5, BeginCalls DEF Reset, Tokens!ResendPin
<1>6. CASE SuspendDriver(h)
  BY <1>1, <1>2, <1>6, BeginCalls DEF SuspendDriver, Tokens!Suspend
<1>7. ASSUME NEW t \in Tokens!Token, Tokens!FindToken(h, t) PROVE Calls(h)
  <2>1. UNCHANGED enabled
    BY <1>7 DEF Tokens!FindToken
  <2>2. \/ Tokens!Begin(h, [op |-> "swap", token |-> t])
        \/ Tokens!Begin(h, [op |-> "revoke", next |-> "idle"])
    BY <1>7 DEF Tokens!FindToken
  <2> QED  BY <1>1, <1>2, <2>1, <2>2, BeginCalls
<1> QED  BY <1>3, <1>4, <1>5, <1>6, <1>7

LEMMA SessionKinds == ASSUME TokenInv, SessionStep, UNCHANGED enabled PROVE TokenKind
<1> USE DEF Tokens!rowVars, Tokens!histVars, Tokens!Continue, Tokens!Answer
<1>1. /\ row \in [Tokens!Token -> {"live", "expired", "revoked", "none", "purged"}]
      /\ enabled \in BOOLEAN /\ call \in [Handler -> Tokens!Call]
  BY DEF TokenInv, Tokens!TypeOK, Tokens!Absent
<1>2. ASSUME NEW h \in Handler, Tokens!IssueToken(h) PROVE Issues(h)
  BY <1>2, NextTokenIsNew DEF Tokens!IssueToken, Tokens!CreateToken, Issues
<1>3. ASSUME NEW h \in Handler, Tokens!SwapToken(h) PROVE Swaps(h) \/ Calls(h)
  <2>1. call[h].op = "swap" => call[h].token \in Tokens!Token
    BY <1>1 DEF Tokens!Call
  <2>2. CASE row[call[h].token] \in {"live", "expired"}
    BY <1>3, <2>1, <2>2 DEF Tokens!SwapToken, Swaps
  <2>3. CASE row[call[h].token] \notin {"live", "expired"}
    <3>1. [op |-> "revoke", next |-> "idle"] \in Tokens!Call
      BY DEF Tokens!Call
    <3> QED  BY <1>1, <1>3, <2>3, <3>1 DEF Tokens!SwapToken, Tokens!RevokeThen, Calls
  <2> QED  BY <2>2, <2>3
<1>4. ASSUME NEW h \in Handler, Tokens!CreateNext(h) PROVE Succeeds(h)
  BY <1>4, NextTokenIsNew DEF Tokens!CreateNext, Tokens!CreateToken, Succeeds
<1>5. ASSUME NEW h \in Handler, Tokens!CheckUser(h) PROVE Answers(h) \/ Calls(h)
  <2>1. [op |-> "revoke", next |-> "idle"] \in Tokens!Call
    BY DEF Tokens!Call
  <2> QED  BY <1>1, <1>5, <2>1 DEF Tokens!CheckUser, Tokens!RevokeThen, Answers, Calls
<1>6. ASSUME NEW h \in Handler, Tokens!Fails(h) PROVE Calls(h)
  <2> DEFINE c == [op |-> "idle"]
  <2>1. c \in Tokens!Call /\ c.op = "idle"
    BY DEF Tokens!Call
  <2>2. call' = [call EXCEPT ![h] = c] /\ UNCHANGED <<row, origin, held, enabled, ended, underWay, cut>>
    BY <1>6 DEF Tokens!Fails
  <2>3. (c.op \notin {"create", "check"}) /\ (c.op = "revoke" => (c.next = "cut" => ~enabled'))
    BY <2>1
  <2>4. enabled' \in BOOLEAN /\ (enabled' => enabled)
    BY <1>1, <2>2
  <2> HIDE DEF c
  <2> QED  BY <2>1, <2>2, <2>3, <2>4 DEF Calls
<1>7. ASSUME NEW h \in Handler, TokenStep(h) PROVE TokenKind
  BY <1>2, <1>3, <1>4, <1>5, <1>6, <1>7, BeginningsCall DEF TokenStep, TokenKind
<1>8. ASSUME NEW t \in Tokens!Token, Tokens!Logout(t) \/ Tokens!Expire(t) PROVE Fades
  BY <1>1, <1>8 DEF Tokens!Logout, Tokens!Expire, Fades, UsedUp
<1>9. Tokens!Cleanup => Fades
  BY <1>1 DEF Tokens!Cleanup, Fades, UsedUp
<1> QED  BY <1>7, <1>8, <1>9 DEF SessionStep, TokenKind

LEMMA AccessTokenKinds ==
  ASSUME TokenInv, [AccessNext]_<<accessVars, fleetVars>> PROVE TokenKind
<1>1. CASE UNCHANGED <<accessVars, fleetVars>> \/ EnrolStep
  BY <1>1 DEF accessVars, vars, EnrolStep, TokenKind
<1>2. ASSUME NEW h \in Handler, PinStep(h) PROVE TokenKind
  <2>1. CASE Login(h) \/ Reset(h) \/ SuspendDriver(h)
    <3>1. Calls(h)
      BY <2>1, BeginningsCall
    <3> QED  BY <3>1 DEF TokenKind
  <2>2. ASSUME NEW entered \in Pin, NEW new \in Pin, Change(h, entered, new) \/ RepeatChange(h, entered, new)
        PROVE  TokenKind
    <3>1. CASE Change(h, entered, new)
      BY <3>1, BeginningsCall DEF Change, ChangePin, TokenKind
    <3>2. CASE RepeatChange(h, entered, new)
      BY <3>2, BeginningsCall DEF RepeatChange, vars, TokenKind
    <3> QED  BY <2>2, <3>1, <3>2
  <2>3. CASE PinStart(h) /\ UNCHANGED tokenVars
    BY <2>3 DEF PinStart, ReadDriver, WrongCurrentPin, TokenKind
  <2>4. CASE PinProceed(h) /\ UNCHANGED tokenVars
    BY <2>4 DEF PinProceed, LoginFails, SmsSent, MarkPinDelivered, Fails, TokenKind
  <2> QED  BY <1>2, <2>1, <2>2, <2>3, <2>4 DEF PinStep
<1>3. CASE Tick /\ UNCHANGED tokenVars
  BY <1>3 DEF Tick, TokenKind
<1>4. CASE SessionStep /\ UNCHANGED vars
  BY <1>4, SessionKinds DEF vars
<1> QED  BY <1>1, <1>2, <1>3, <1>4 DEF AccessNext, AccessStep

-----------------------------------------------------------------------------
(* Each kind of step keeps the sessions in order.                          *)

LEMMA CallMoves ==
  ASSUME TokenInv, NEW h \in Handler, NEW c \in Tokens!Call, call' = [call EXCEPT ![h] = c]
  PROVE  /\ call' \in [Handler -> Tokens!Call]
         /\ call'[h] = c
         /\ \A g \in Handler \ {h} : call'[g] = call[g]
BY DEF TokenInv, Tokens!TypeOK

LEMMA TokenTypes ==
  ASSUME TokenInv
  PROVE  /\ row \in [Tokens!Token -> {"live", "expired", "revoked", "none", "purged"}]
         /\ origin \in [Tokens!Token -> Tokens!Token \cup {0}]
         /\ held \subseteq Tokens!Token /\ \A t \in held : row[t] # "none"
         /\ ended \subseteq Tokens!Token /\ \A t \in ended : row[t] # "none"
         /\ underWay \subseteq ended /\ enabled \in BOOLEAN /\ cut \in BOOLEAN
         /\ 0 \notin Tokens!Token
         /\ \A h \in Handler : call[h].op \in {"swap", "create", "check"} => call[h].token \in Tokens!Token
<1>1. Tokens!TypeOK
  BY DEF TokenInv
<1>2. \A h \in Handler : call[h] \in Tokens!Call
  BY <1>1 DEF Tokens!TypeOK
<1> QED  BY <1>1, <1>2 DEF Tokens!TypeOK, Tokens!Absent, Tokens!Created, Tokens!Call, Tokens!Token

LEMMA CallsKeep == ASSUME TokenInv, NEW h \in Handler, Calls(h) PROVE TokenInv'
<1>1. PICK c \in Tokens!Call :
         /\ c.op \notin {"create", "check"}
         /\ c.op = "revoke" => (c.next = "cut" => ~enabled')
         /\ call' = [call EXCEPT ![h] = c]
  BY DEF Calls
<1>2. call' \in [Handler -> Tokens!Call] /\ call'[h] = c /\ \A g \in Handler \ {h} : call'[g] = call[g]
  BY <1>1, CallMoves
<1>3. UNCHANGED <<row, origin, held, ended, underWay, cut>> /\ enabled' \in BOOLEAN /\ (enabled' => enabled)
  BY DEF Calls
<1>4. Tokens!TypeOK'
  BY <1>2, <1>3 DEF TokenInv, Tokens!TypeOK, Tokens!Created
<1>5. RowsFit'
  BY <1>3 DEF TokenInv, RowsFit
<1>6. CallFits(h)'
  BY <1>1, <1>2 DEF CallFits
<1>7. ASSUME NEW g \in Handler \ {h} PROVE CallFits(g)'
  BY <1>1, <1>2, <1>3 DEF TokenInv, CallFits
<1>8. Tokens!OnlySwappedOutlive' /\ Tokens!SuspendedKeepsNoRefresh'
  BY <1>3 DEF TokenInv, Tokens!OnlySwappedOutlive, Tokens!SuspendedKeepsNoRefresh, Tokens!Live
<1> QED  BY <1>4, <1>5, <1>6, <1>7, <1>8 DEF TokenInv

LEMMA FadesKeep == ASSUME TokenInv, Fades PROVE TokenInv'
<1>1. UNCHANGED <<origin, held, enabled, call, ended, underWay, cut>>
  BY DEF Fades
<1>2. \A t \in Tokens!Token :
         /\ row'[t] = "none" <=> row[t] = "none"
         /\ row[t] \in UsedUp => row'[t] \in UsedUp
         /\ row'[t] = "live" => row[t] = "live"
  BY DEF Fades
<1>3. Tokens!TypeOK'
  BY <1>1, <1>2 DEF Fades, TokenInv, Tokens!TypeOK, Tokens!Created, Tokens!Absent
<1>4. RowsFit'
  BY <1>1, <1>2, TokenTypes DEF TokenInv, RowsFit
<1>5. ASSUME NEW h \in Handler PROVE CallFits(h)'
  BY <1>1, <1>2, TokenTypes DEF TokenInv, CallFits
<1>6. Tokens!OnlySwappedOutlive' /\ Tokens!SuspendedKeepsNoRefresh'
  BY <1>1, <1>2, TokenTypes DEF TokenInv, Tokens!OnlySwappedOutlive, Tokens!SuspendedKeepsNoRefresh, Tokens!Live
<1> QED  BY <1>3, <1>4, <1>5, <1>6 DEF TokenInv

LEMMA AnswersKeep == ASSUME TokenInv, NEW h \in Handler, Answers(h) PROVE TokenInv'
<1>1. call' \in [Handler -> Tokens!Call] /\ call'[h] = [op |-> "idle"] /\ \A g \in Handler \ {h} : call'[g] = call[g]
  BY CallMoves DEF Answers, Tokens!Call
<1>2. /\ UNCHANGED <<row, origin, enabled, ended, underWay, cut>> /\ enabled
      /\ held' = held \cup {call[h].token} /\ call[h].token \in Tokens!Token /\ row[call[h].token] # "none"
  BY TokenTypes DEF Answers, TokenInv, CallFits
<1>3. Tokens!TypeOK'
  BY <1>1, <1>2 DEF TokenInv, Tokens!TypeOK, Tokens!Created
<1>4. RowsFit'
  BY <1>2 DEF TokenInv, RowsFit
<1>5. ASSUME NEW g \in Handler PROVE CallFits(g)'
  <2>1. CallFits(h)'
    BY <1>1 DEF CallFits
  <2>2. ASSUME g # h PROVE CallFits(g)'
    BY <1>1, <1>2, <2>2 DEF TokenInv, CallFits
  <2> QED  BY <2>1, <2>2
<1>6. ~cut
  BY <1>2 DEF TokenInv, RowsFit
<1>7. Tokens!OnlySwappedOutlive' /\ Tokens!SuspendedKeepsNoRefresh'
  BY <1>2, <1>6 DEF TokenInv, Tokens!OnlySwappedOutlive, Tokens!SuspendedKeepsNoRefresh, Tokens!Live
<1> QED  BY <1>3, <1>4, <1>5, <1>7 DEF TokenInv

LEMMA IssuesKeep == ASSUME TokenInv, NEW h \in Handler, Issues(h) PROVE TokenInv'
<1>1. PICK u \in Tokens!Token :
         /\ row[u] = "none" /\ row' = [row EXCEPT ![u] = "live"] /\ origin' = [origin EXCEPT ![u] = 0]
         /\ held' = held \cup {u}
  BY DEF Issues
<1>2. call' \in [Handler -> Tokens!Call] /\ call'[h] = [op |-> "idle"] /\ \A g \in Handler \ {h} : call'[g] = call[g]
  BY CallMoves DEF Issues, Tokens!Call
<1>3. /\ row'[u] = "live" /\ \A t \in Tokens!Token \ {u} : row'[t] = row[t]
      /\ origin[u] = 0 /\ \A t \in Tokens!Token : origin'[t] = origin[t]
  BY <1>1, TokenTypes DEF TokenInv, RowsFit
<1>4. UNCHANGED <<enabled, ended, underWay, cut>>
  BY DEF Issues
<1>5. Tokens!TypeOK'
  BY <1>1, <1>2, <1>3, <1>4 DEF TokenInv, Tokens!TypeOK, Tokens!Created
<1>6. RowsFit'
  <2>1. RowsFit
    BY DEF TokenInv
  <2>2. \A t \in Tokens!Token : origin[t] # 0 => origin[t] \in Tokens!Token /\ origin[t] # u
    BY <1>1, <2>1, TokenTypes DEF RowsFit, UsedUp
  <2>3. \A t \in Tokens!Token : /\ row'[t] = "none" => origin'[t] = 0
                                /\ origin'[t] # 0 => row'[origin'[t]] \in UsedUp
    BY <1>3, <2>1, <2>2 DEF RowsFit
  <2>4. \A t, v \in Tokens!Token : origin'[t] = origin'[v] /\ t # v => origin'[t] = 0
    BY <1>3, <2>1 DEF RowsFit
  <2>5. \A t \in ended : row'[t] \in UsedUp
    BY <1>1, <1>3, <2>1, TokenTypes DEF RowsFit
  <2> QED  BY <1>4, <2>1, <2>3, <2>4, <2>5 DEF RowsFit
<1>7. ASSUME NEW g \in Handler PROVE CallFits(g)'
  <2>1. CallFits(h)'
    BY <1>2 DEF CallFits
  <2>2. ASSUME g # h PROVE CallFits(g)'
    <3>1. CallFits(g) /\ call'[g] = call[g]
      BY <1>2, <2>2 DEF TokenInv
    <3>2. call'[h].op # "create"
      BY <1>2
    <3> QED  BY <1>2, <1>1, <1>3, <1>4, <2>2, <3>1, <3>2, TokenTypes DEF CallFits, UsedUp
  <2> QED  BY <2>1, <2>2
<1>8. Tokens!OnlySwappedOutlive' /\ Tokens!SuspendedKeepsNoRefresh'
  BY <1>1, <1>3, <1>4, TokenTypes
     DEF TokenInv, Tokens!OnlySwappedOutlive, Tokens!SuspendedKeepsNoRefresh, Tokens!Live
<1> QED  BY <1>5, <1>6, <1>7, <1>8 DEF TokenInv

LEMMA SwapsKeep == ASSUME TokenInv, NEW h \in Handler, Swaps(h) PROVE TokenInv'
<1>1. PICK t \in Tokens!Token :
         /\ row[t] \in {"live", "expired"}
         /\ row' = [row EXCEPT ![t] = "revoked"]
         /\ call' = [call EXCEPT ![h] = [op |-> "create", token |-> t]]
  BY DEF Swaps
<1>2. /\ call' \in [Handler -> Tokens!Call] /\ call'[h] = [op |-> "create", token |-> t]
      /\ \A g \in Handler \ {h} : call'[g] = call[g]
  BY <1>1, CallMoves DEF Tokens!Call
<1>3. row'[t] = "revoked" /\ \A u \in Tokens!Token \ {t} : row'[u] = row[u]
  BY <1>1, TokenTypes
<1>4. UNCHANGED <<origin, held, enabled, ended, underWay, cut>>
  BY DEF Swaps
<1>5. /\ \A u \in Tokens!Token : origin[u] # t
      /\ t \notin ended /\ \A g \in Handler : call[g].op = "create" => call[g].token # t
  BY <1>1, TokenTypes DEF TokenInv, RowsFit, CallFits, UsedUp
<1>6. Tokens!TypeOK'
  BY <1>1, <1>2, <1>3, <1>4 DEF TokenInv, Tokens!TypeOK, Tokens!Created
<1>7. RowsFit'
  BY <1>3, <1>4, TokenTypes DEF TokenInv, RowsFit, UsedUp
<1>8. ASSUME NEW g \in Handler PROVE CallFits(g)'
  <2>1. CallFits(h)'
    BY <1>2, <1>3, <1>4, <1>5 DEF CallFits, UsedUp
  <2>2. ASSUME g # h PROVE CallFits(g)'
    <3>1. CallFits(g) /\ call'[g] = call[g]
      BY <1>2, <2>2 DEF TokenInv
    <3> QED  BY <1>2, <1>3, <1>4, <1>5, <2>2, <3>1, TokenTypes DEF CallFits, UsedUp
  <2> QED  BY <2>1, <2>2
<1>9. Tokens!OnlySwappedOutlive' /\ Tokens!SuspendedKeepsNoRefresh'
  BY <1>3, <1>4, TokenTypes
     DEF TokenInv, Tokens!OnlySwappedOutlive, Tokens!SuspendedKeepsNoRefresh, Tokens!Live
<1> QED  BY <1>6, <1>7, <1>8, <1>9 DEF TokenInv

LEMMA SucceedsKeep == ASSUME TokenInv, NEW h \in Handler, Succeeds(h) PROVE TokenInv'
<1> DEFINE t == call[h].token
<1>1. PICK u \in Tokens!Token :
         /\ row[u] = "none" /\ row' = [row EXCEPT ![u] = "live"]
         /\ origin' = [origin EXCEPT ![u] = t]
         /\ call' = [call EXCEPT ![h] = [op |-> "check", token |-> u]]
  BY DEF Succeeds
<1>2. /\ call' \in [Handler -> Tokens!Call] /\ call'[h] = [op |-> "check", token |-> u]
      /\ \A g \in Handler \ {h} : call'[g] = call[g]
  BY <1>1, CallMoves DEF Tokens!Call
<1>3. /\ call[h].op = "create" /\ UNCHANGED <<held, enabled, ended, underWay, cut>>
      /\ t \in Tokens!Token /\ row[t] \in UsedUp /\ t # u
  BY <1>1, TokenTypes DEF Succeeds, TokenInv, CallFits, UsedUp
<1>4. /\ row'[u] = "live" /\ \A v \in Tokens!Token \ {u} : row'[v] = row[v]
      /\ origin'[u] = t /\ \A v \in Tokens!Token \ {u} : origin'[v] = origin[v]
  BY <1>1, TokenTypes
<1>5. /\ \A v \in Tokens!Token : origin[v] # t
      /\ \A g \in Handler \ {h} : call[g].op = "create" => call[g].token # t
      /\ t \in ended => t \in underWay
  BY <1>3 DEF TokenInv, CallFits
<1>6. Tokens!TypeOK'
  BY <1>1, <1>2, <1>3, <1>4 DEF TokenInv, Tokens!TypeOK, Tokens!Created
<1> HIDE DEF t
<1>7. RowsFit'
  <2>1. RowsFit
    BY DEF TokenInv
  <2>2. \A v \in Tokens!Token : origin[v] # 0 => origin[v] \in Tokens!Token /\ origin[v] # u
    BY <1>1, <2>1, TokenTypes DEF RowsFit, UsedUp
  <2>3. \A v \in Tokens!Token : /\ row'[v] = "none" => origin'[v] = 0
                                /\ origin'[v] # 0 => row'[origin'[v]] \in UsedUp
    BY <1>3, <1>4, <2>1, <2>2 DEF RowsFit
  <2>4. \A v, w \in Tokens!Token : origin'[v] = origin'[w] /\ v # w => origin'[v] = 0
    BY <1>4, <1>5, <2>1 DEF RowsFit
  <2>5. \A v \in ended : row'[v] \in UsedUp
    BY <1>1, <1>4, <2>1, TokenTypes DEF RowsFit
  <2> QED  BY <1>3, <2>1, <2>3, <2>4, <2>5 DEF RowsFit
<1>8. ASSUME NEW g \in Handler PROVE CallFits(g)'
  <2>1. CallFits(h)'
    BY <1>2, <1>4 DEF CallFits
  <2>2. ASSUME g # h PROVE CallFits(g)'
    <3>1. CallFits(g) /\ call'[g] = call[g]
      BY <1>2, <2>2 DEF TokenInv
    <3> QED  BY <1>1, <1>2, <1>3, <1>4, <1>5, <2>2, <3>1, TokenTypes DEF CallFits, UsedUp
  <2> QED  BY <2>1, <2>2
<1>9. Tokens!OnlySwappedOutlive' /\ Tokens!SuspendedKeepsNoRefresh'
  BY <1>1, <1>3, <1>4, <1>5, TokenTypes
     DEF TokenInv, Tokens!OnlySwappedOutlive, Tokens!SuspendedKeepsNoRefresh, Tokens!Live
<1> QED  BY <1>6, <1>7, <1>8, <1>9 DEF TokenInv

LEMMA RevocationKeeps ==
  ASSUME TokenInv, NEW h \in Handler, Tokens!RevokeAllForUser(h) PROVE TokenInv'
<1>1. /\ call[h].op = "revoke" /\ row' = Tokens!Revoked /\ ended' = Tokens!Created
      /\ underWay' = { t \in Tokens!Token : \E g \in Handler : call[g] = [op |-> "create", token |-> t] }
      /\ cut' = (cut \/ call[h].next = "cut") /\ UNCHANGED <<origin, held, enabled>>
  BY DEF Tokens!RevokeAllForUser
<1>2. PICK op \in {"idle", "issue"} : call' = [call EXCEPT ![h] = [op |-> op]]
  BY DEF Tokens!RevokeAllForUser, Tokens!Continue
<1>3. /\ call' \in [Handler -> Tokens!Call] /\ call'[h] = [op |-> op]
      /\ \A g \in Handler \ {h} : call'[g] = call[g]
  BY <1>2, CallMoves DEF Tokens!Call
<1>4. \A t \in Tokens!Token :
         /\ row[t] = "none" <=> row'[t] = "none"
         /\ row[t] # "none" => row'[t] \in UsedUp
         /\ row'[t] # "live"
  BY <1>1, TokenTypes DEF Tokens!Revoked, UsedUp
<1>5. row' \in [Tokens!Token -> {"live", "expired", "revoked", "none", "purged"}]
  BY <1>1, TokenTypes DEF Tokens!Revoked
<1>6. \A g \in Handler : call[g].op = "create" =>
         call[g].token \in Tokens!Token /\ call[g] = [op |-> "create", token |-> call[g].token]
           /\ row[call[g].token] \in UsedUp
  <2>1. \A g \in Handler : call[g] \in Tokens!Call /\ CallFits(g)
    BY DEF TokenInv, Tokens!TypeOK
  <2> QED  BY <2>1 DEF Tokens!Call, CallFits
<1>7. Tokens!TypeOK'
  <2>1. underWay' \subseteq ended'
    BY <1>1, <1>6 DEF Tokens!Created, UsedUp
  <2>2. held' \subseteq Tokens!Created' /\ ended' \subseteq Tokens!Created'
    BY <1>1, <1>4, TokenTypes DEF Tokens!Created
  <2>3. cut' \in BOOLEAN /\ enabled' \in BOOLEAN
    BY <1>1, TokenTypes
  <2>4. origin' \in [Tokens!Token -> Tokens!Token \cup {0}]
    BY <1>1, TokenTypes
  <2> QED  BY <1>3, <1>5, <2>1, <2>2, <2>3, <2>4 DEF Tokens!TypeOK, Tokens!Absent
<1>8. RowsFit'
  <2>1. cut' => ~enabled'
    BY <1>1 DEF TokenInv, RowsFit, CallFits
  <2>2. \A t \in ended' : row'[t] \in UsedUp
    BY <1>1, <1>4 DEF Tokens!Created
  <2> QED  BY <1>1, <1>4, <2>1, <2>2, TokenTypes DEF TokenInv, RowsFit, UsedUp
<1>9. ASSUME NEW g \in Handler PROVE CallFits(g)'
  <2>1. CallFits(h)'
    BY <1>3 DEF CallFits
  <2>2. ASSUME g # h PROVE CallFits(g)'
    <3>1. CallFits(g) /\ call'[g] = call[g]
      BY <1>3, <2>2 DEF TokenInv
    <3> QED  BY <1>1, <1>3, <1>4, <1>6, <2>2, <3>1, TokenTypes DEF CallFits, UsedUp
  <2> QED  BY <2>1, <2>2
<1>10. Tokens!OnlySwappedOutlive' /\ Tokens!SuspendedKeepsNoRefresh'
  BY <1>1, <1>4, TokenTypes
     DEF Tokens!OnlySwappedOutlive, Tokens!SuspendedKeepsNoRefresh, Tokens!Live
<1> QED  BY <1>7, <1>8, <1>9, <1>10 DEF TokenInv

LEMMA TokensKeep == TokenInv /\ [AccessNext]_<<accessVars, fleetVars>> => TokenInv'
<1> SUFFICES ASSUME TokenInv, [AccessNext]_<<accessVars, fleetVars>> PROVE TokenInv'
  OBVIOUS
<1>1. TokenKind
  BY AccessTokenKinds
<1>2. CASE UNCHANGED <<tokenVars, enabled>>
  BY <1>2 DEF tokenVars, TokenInv, Tokens!TypeOK, RowsFit, CallFits, Tokens!OnlySwappedOutlive,
     Tokens!SuspendedKeepsNoRefresh, Tokens!Live, Tokens!Created
<1> QED
  BY <1>1, <1>2, FadesKeep, CallsKeep, IssuesKeep, SwapsKeep, SucceedsKeep, AnswersKeep, RevocationKeeps
     DEF TokenKind

(* What the sessions keep: a token is used up before it has a successor,   *)
(* and the refresh that is to create one is alone with its token.          *)
THEOREM SessionsHold == AccessSpec => []TokenInv
<1>1. AccessInit => TokenInv
  BY TokensStart DEF AccessInit
<1> QED  BY <1>1, TokensKeep, PTL DEF AccessSpec

(* See TokensEnd: a token is replaced at most once, and what a revocation  *)
(* misses is only what a refresh was replacing; a suspension not even that. *)
THEOREM SessionsEnd == AccessSpec => []TokensEnd
<1>1. TokenInv => TokensEnd
  BY TokenTypes DEF TokenInv, TokensEnd, Tokens!OneSuccessor, RowsFit, Tokens!Created, UsedUp
<1> QED  BY <1>1, SessionsHold, PTL

====
