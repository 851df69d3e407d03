--------------------------- MODULE MCAffiliation ---------------------------
(***************************************************************************)
(* Two companies of one town with the same services, listed in a different *)
(* order; or a third company that applies with its documents.              *)
(***************************************************************************)
EXTENDS CompanyNotices, TLC

CONSTANTS c1, c2, c3, town

MCTownOf == [c \in Company |-> town]

MCDeclared ==
  [c \in Company |-> IF c = c1 THEN <<2, 1>> ELSE IF c = c2 THEN <<1, 2>> ELSE <<1>>]

MCSymmetry ==
  Permutations(Txn) \cup Permutations(Upload) \cup Permutations(Handler) \cup Permutations(Contact)

Edits(x) == txn[x].company = None /\ txn[x].at # "idle"

EditsOnly(keys) == \A x \in Txn : Edits(x) /\ txn[x].todo # <<>> => Wanted(x) \in keys

Provisioned(cs) ==
  /\ \A x \in Txn : txn[x].company \in cs \cup {None}
  /\ \A c \in Company \ cs : company[c].status = "none"

(* Clerks and scripts do nothing, and no e-mail goes out.                  *)
Quiet ==
  /\ \A k \in Clerk : desk[k] = IdleDesk
  /\ sent = {} /\ failed = {}
  /\ \A t \in Town : ~covered[t]
  /\ issued = Cardinality({ p \in Contact : account[p] # None })

UnusedUpload == \E f \in Upload : staged[f] = "new"

Alone ==
  /\ Provisioned({c3})
  /\ \A h \in Handler : request[h].company \in {None, c3}
  /\ EditsOnly({}) /\ now = 0
  /\ (\A x \in Txn : txn[x].at = "idle") \/ (\A h \in Handler : request[h].at # "moving")
  /\ \A k \in ToSet(Plan(c3)) : Len(history[k]) = Len(history[<<"fare", town, 1>>])

(* c1 and c2 are provisioned, while the platform edits a service they share*)
(* and the commission of c1; or c3 applies, is rejected, applies again; or *)
(* it is approved at once while the platform edits its commission. No file *)
(* moves while it is approved.                                             *)
Affiliating ==
  /\ Quiet /\ UnusedUpload
  /\ \/ /\ \A f \in Upload : staged[f] = "new"
        /\ Provisioned({c1, c2})
        /\ EditsOnly({<<"fare", town, 1>>, <<"params", town, 1>>, Commission(c1)})
     \/ Alone
     \/ /\ Provisioned({c3})
        /\ EditsOnly({Commission(c3)})
        /\ \A h \in Handler : request[h].at = "idle"
        /\ \A f \in Upload : staged[f] # "staged"
        /\ Cardinality(promoted) = 1 /\ company[c3].status # "none"
        /\ review[c3] \in {<<>>, <<"approved">>} /\ linked = {}

(* Nothing is purged or fails, and nobody replaces a document; one         *)
(* approval at a time.                                                     *)
Smoothly ==
  /\ Alone
  /\ \A f \in Upload : staged[f] = "gone" => \E h \in Handler : CompanyDocumentKey(h, f) \in promoted
  /\ \A h \in Handler : request[h].at = "moving" => request[h].contact # None
  /\ Cardinality({ x \in Txn : txn[x].at # "idle" }) <= 1

(* The credentials of c3 are issued again, when two applications overlapped*)
(* and one of them may have set it back; or a clerk looks at it; or the    *)
(* e-mails go, and scripts run, once it was decided.                       *)
AtRest == \A x \in Txn : txn[x].at = "idle"

Ready == \A x \in Txn : txn[x].at \in {"idle", "ready"}

Overlapping ==
  /\ \A h \in Handler : request[h].at \in {"idle", "moving", "submitting"}
  /\ Cardinality({ h \in Handler : request[h].at = "moving" }) <= 1
  /\ AtRest \/ \A h \in Handler : request[h].at # "moving"
  /\ \A h, g \in Handler : h # g /\ request[h].contact # None => request[h].contact # request[g].contact
  /\ company[c3].contact \in { request[h].contact : h \in Handler } => company[c3].registered > 1

Telling ==
  /\ Smoothly
  /\ \/ /\ sent = {} /\ failed = {} /\ handed = {} /\ linked = {} /\ \A t \in Town : ~covered[t]
        /\ review[c3] \in {<<"rejected">>, <<"rejected", "approved">>} /\ Overlapping
        /\ \A k \in Clerk : desk[k].at = "idle" \/ (desk[k].at = "resending" /\ AtRest)
        /\ issued <= 2 /\ now = 0
        /\ Cardinality({ h \in Handler : request[h].at = "submitting" }) < 2 \/ AtRest
     \/ /\ sent = {} /\ failed = {} /\ handed = {} /\ linked = {} /\ UnusedUpload
        /\ review[c3] \in {<<>>, <<"rejected">>, <<"approved">>}
        /\ \A f \in Upload : staged[f] # "staged"
        /\ \A h \in Handler : request[h].at \in {"idle", "submitting"} /\ request[h].found = "none"
        /\ \A k \in Clerk : desk[k].at = "idle" \/ (desk[k].at # "resending" /\ Ready)
        /\ review[c3] = <<"approved">> \/ ~covered[town]
     \/ /\ AtRest /\ Len(review[c3]) = 1 /\ UnusedUpload
        /\ \A f \in Upload : staged[f] # "staged"
        /\ \A h \in Handler : request[h].at = "idle"
        /\ \A k \in Clerk : desk[k].at \in {"idle", "resending"}
        /\ Cardinality(outbox) <= 2 /\ Cardinality(sent \cup failed) <= 2

MCScope == Affiliating \/ Telling

=============================================================================
