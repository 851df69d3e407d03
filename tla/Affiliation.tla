---------------------------- MODULE Affiliation ----------------------------
(***************************************************************************)
(* A company applies with its documents, the platform approves or rejects  *)
(* it or asks for documents again, and a rejected company may apply again. *)
(* A handler reads what it decides on without a lock: the status of the    *)
(* company before the files are moved, or in the transaction but before    *)
(* its writes. Only approval and rejection test the status in the update.  *)
(*                                                                         *)
(* An approval is a provisioning of ServiceVersions that holds the row of  *)
(* the company, and those of its documents, from its begin to its end. A   *)
(* company is known by its tax id. Uploads and requests are identities     *)
(* that run out; MaxReviews bounds the decisions on a company.             *)
(***************************************************************************)
EXTENDS ServiceVersions

CONSTANTS
  DocType,       \* CompanyDocumentType: every type, each of them required
  Contact,       \* e-mail and phone of whoever signs for a company
  Upload,        \* staged files
  Handler,       \* requests that may overlap
  MaxReviews

ASSUME AffiliationAssumption == MaxReviews \in Nat /\ None \notin Contact \cup Upload

VARIABLES
  company,    \* tenancy.company
  document,   \* tenancy.company_document
  review,     \* tenancy.company_review of each company, in order
  account,    \* the company that the user account of a contact administers
  staged,     \* what became of each upload
  promoted,   \* files under companies/
  linked,     \* companies that were sent a link to replace documents
  request

affiliationVars == <<company, document, review, account, staged, promoted, linked, request>>

vars == <<versionVars, affiliationVars>>

tables == <<company, document, review, account>>
files == <<staged, promoted>>

(* The key of a promoted file has an identifier made for the request.      *)
(* Mutant: it is made of the upload.                                       *)
KeyOfUpload(h, f) == <<f>>

CompanyDocumentKey(h, f) == <<f, h>>

FileKey == { CompanyDocumentKey(h, f) : h \in Handler, f \in Upload }

(* registered: how often it has applied. asOf, since: how many decisions   *)
(* on the company whoever wrote the row had seen, and there were.          *)
CompanyRow == [status : {"none", "pending", "active", "rejected"}, registered : Nat,
               contact : Contact \cup {None}]

DocumentRow == [key : FileKey, state : {"pending", "verified", "rejected"},
                asOf : Nat, since : Nat]

Request == [at : {"idle", "moving", "submitting", "replacing", "upserting", "requesting"},
            company : Company \cup {None},
            contact : Contact \cup {None},
            found : {"none", "rejected"},                \* status read by a submission
            files : [DocType -> Upload \cup {None}],
            moved : SUBSET DocType,
            types : SUBSET DocType,
            asOf : Nat]

NoFiles == [d \in DocType |-> None]

IdleRequest == [at |-> "idle", company |-> None, contact |-> None, found |-> "none",
                files |-> NoFiles, moved |-> {}, types |-> {}, asOf |-> 0]

RowsTypeOK ==
  /\ company \in [Company -> CompanyRow]
  /\ document \in [Company -> [DocType -> DocumentRow \cup {None}]]
  /\ review \in [Company -> Seq({"approved", "rejected", "documents_requested"})]
  /\ account \in [Contact -> Company \cup {None}]
  /\ staged \in [Upload -> {"new", "staged", "gone"}]
  /\ promoted \subseteq FileKey
  /\ linked \subseteq Company
  /\ request \in [Handler -> Request]

AffiliationTypeOK == VersionsTypeOK /\ RowsTypeOK

Init ==
  /\ VersionsInit
  /\ company = [c \in Company |-> [status |-> "none", registered |-> 0, contact |-> None]]
  /\ document = [c \in Company |-> [d \in DocType |-> None]]
  /\ review = [c \in Company |-> <<>>]
  /\ account = [p \in Contact |-> None]
  /\ staged = [f \in Upload |-> "new"]
  /\ promoted = {} /\ linked = {}
  /\ request = [h \in Handler |-> IdleRequest]

Decisions(c) == Cardinality({ i \in DOMAIN review[c] : review[c][i] # "documents_requested" })

(* Only a provisioning keeps the row of a company over several steps.      *)
RowFree(c) == \A x \in Txn : txn[x].company # c

Reviewed(c, decision) ==
  /\ Len(review[c]) < MaxReviews
  /\ review' = [review EXCEPT ![c] = Append(@, decision)]

Finish(h) == request' = [request EXCEPT ![h] = IdleRequest]

-----------------------------------------------------------------------------

(* Uploads and their purge.                                                *)
Stage(f) ==
  /\ staged[f] = "new"
  /\ staged' = [staged EXCEPT ![f] = "staged"]
  /\ UNCHANGED <<versionVars, tables, promoted, linked, request>>

PurgeStaging(f) ==
  /\ staged[f] = "staged"
  /\ staged' = [staged EXCEPT ![f] = "gone"]
  /\ UNCHANGED <<versionVars, tables, promoted, linked, request>>

(* A submission finds no account of its contact, no company of its tax id  *)
(* or a rejected one, and all its uploads.                                 *)
BeginSubmission(h, c, p, fs) ==
  /\ request[h].at = "idle"
  /\ account[p] = None
  /\ company[c].status \in {"none", "rejected"}
  /\ \A d \in DocType : staged[fs[d]] = "staged"
  /\ request' = [request EXCEPT ![h] =
       [IdleRequest EXCEPT !.at = "moving", !.company = c, !.contact = p,
                           !.found = company[c].status, !.files = fs, !.asOf = Decisions(c)]]
  /\ UNCHANGED <<versionVars, tables, files, linked>>

(* A replacement presents a link and finds its upload. Links expire, which *)
(* refuses more.                                                           *)
BeginReplacement(h, c, d, f) ==
  /\ request[h].at = "idle"
  /\ c \in linked
  /\ staged[f] = "staged"
  /\ request' = [request EXCEPT ![h] =
       [IdleRequest EXCEPT !.at = "moving", !.company = c, !.types = {d},
                           !.files = [NoFiles EXCEPT ![d] = f]]]
  /\ UNCHANGED <<versionVars, tables, files, linked>>

ToMove(h) == { d \in DocType : request[h].files[d] # None } \ request[h].moved

(* A move copies the file to its new key and then removes it, so two       *)
(* requests may both copy one upload.                                      *)
CopyDocument(h, d) ==
  /\ request[h].at = "moving" /\ d \in ToMove(h)
  /\ staged[request[h].files[d]] = "staged"
  /\ promoted' = promoted \cup {CompanyDocumentKey(h, request[h].files[d])}
  /\ UNCHANGED <<versionVars, tables, staged, linked, request>>

RemoveStaged(h, d) ==
  /\ request[h].at = "moving" /\ d \in ToMove(h)
  /\ CompanyDocumentKey(h, request[h].files[d]) \in promoted
  /\ staged' = [staged EXCEPT ![request[h].files[d]] = "gone"]
  /\ request' = [request EXCEPT ![h].moved = @ \cup {d}]
  /\ UNCHANGED <<versionVars, tables, promoted, linked>>

(* When a move or the transaction fails, what was moved is removed, unless *)
(* that fails too. A file whose move failed half-way is left.              *)
RollbackPromoted(h) ==
  /\ request[h].at \in {"moving", "submitting", "replacing", "upserting"}
  /\ \E kept \in {{}, request[h].moved} :
       promoted' = promoted \ { CompanyDocumentKey(h, request[h].files[d]) :
                                  d \in request[h].moved \ kept }
  /\ Finish(h)
  /\ UNCHANGED <<versionVars, tables, staged, linked>>

MovesDone(h) ==
  /\ request[h].at = "moving" /\ ToMove(h) = {}
  /\ request' = [request EXCEPT ![h].at = IF request[h].contact = None THEN "replacing"
                                                                       ELSE "submitting"]
  /\ UNCHANGED <<versionVars, tables, files, linked>>

DocumentsOf(h) ==
  [d \in DocType |-> [key |-> CompanyDocumentKey(h, request[h].files[d]), state |-> "pending",
                      asOf |-> request[h].asOf, since |-> Decisions(request[h].company)]]

(* The tax id is unique, so a company that was none must still be none. A  *)
(* company that was rejected is updated by its id, whatever it is by now.  *)
(* Mutant: tax ids are not unique.                                         *)
TaxIdUnchecked(h) == TRUE

TaxIdFree(h) == request[h].found = "none" => company[request[h].company].status = "none"

UpsertPendingCompany(h) ==
  LET c == request[h].company
  IN  /\ request[h].at = "submitting"
      /\ RowFree(c)
      /\ TaxIdFree(h)
      /\ company' = [company EXCEPT ![c] = [status |-> "pending", registered |-> @.registered + 1,
                                            contact |-> request[h].contact]]
      /\ document' = [document EXCEPT ![c] = DocumentsOf(h)]
      /\ Finish(h)
      /\ UNCHANGED <<versionVars, review, account, files, linked>>

(* A replacement reads the status, and then writes the document. Every type*)
(* is required of an application and nobody else makes a company pending,  *)
(* so the row of the type is there, is updated, and waits for an approval. *)
(* Mutant: it takes any company.                                           *)
AnyCompany(c) == company[c].status # "none"

InReview(c) == company[c].status = "pending"

FindPendingCompany(h) ==
  LET c == request[h].company
  IN  /\ request[h].at = "replacing"
      /\ InReview(c)
      /\ request' = [request EXCEPT ![h].at = "upserting", ![h].asOf = Decisions(c)]
      /\ UNCHANGED <<versionVars, tables, files, linked>>

ReplaceSingleDocument(h) ==
  LET c == request[h].company
  IN  /\ request[h].at = "upserting"
      /\ RowFree(c)
      /\ document' = [document EXCEPT ![c] =
           [d \in DocType |-> IF d \in request[h].types
                              THEN [key |-> CompanyDocumentKey(h, request[h].files[d]),
                                    state |-> "pending",
                                    asOf |-> request[h].asOf, since |-> Decisions(c)]
                              ELSE @[d]]]
      /\ Finish(h)
      /\ UNCHANGED <<versionVars, company, review, account, files, linked>>

-----------------------------------------------------------------------------

(* The platform rejects a pending company in one update.                   *)
Rejectable(c) == company[c].status = "pending"

RejectCompany(c) ==
  /\ Rejectable(c) /\ RowFree(c)
  /\ company' = [company EXCEPT ![c].status = "rejected"]
  /\ Reviewed(c, "rejected")
  /\ UNCHANGED <<versionVars, document, account, files, linked, request>>

(* It asks for documents of a company that it reads as pending, and sends  *)
(* a link.                                                                 *)
BeginRequestDocuments(h, c, types) ==
  /\ request[h].at = "idle"
  /\ company[c].status = "pending"
  /\ request' = [request EXCEPT ![h] =
       [IdleRequest EXCEPT !.at = "requesting", !.company = c, !.contact = company[c].contact,
                           !.types = types, !.asOf = Decisions(c)]]
  /\ UNCHANGED <<versionVars, tables, files, linked>>

RequestDocuments(h) ==
  LET c == request[h].company
  IN  /\ request[h].at = "requesting"
      /\ RowFree(c)
      /\ document' = [document EXCEPT ![c] =
           [d \in DocType |-> IF d \in request[h].types /\ @[d] # None
                              THEN [@[d] EXCEPT !.state = "rejected", !.asOf = request[h].asOf,
                                                !.since = Decisions(c)]
                              ELSE @[d]]]
      /\ Reviewed(c, "documents_requested")
      /\ linked' = linked \cup {c}
      /\ Finish(h)
      /\ UNCHANGED <<versionVars, company, account, files>>

(* An approval activates a pending company, verifies its documents, sees   *)
(* to its fares, parameters and commission, creates the account of its     *)
(* contact and writes the review. Others see it when it commits.           *)
BeginApproval(x, c) ==
  /\ company[c].status = "pending"
  /\ RowFree(c)
  /\ BeginProvisioning(x, c)
  /\ UNCHANGED affiliationVars

Verified(row) == IF row = None THEN None ELSE [row EXCEPT !.state = "verified"]

(* The account of a contact is unique; a second one aborts the approval.   *)
(* Mutant: the second takes the account over.                              *)
TakeAccount(c, p) == account' = [account EXCEPT ![p] = c]

FinishProvisioning(c, p) == account[p] = None /\ account' = [account EXCEPT ![p] = c]

CommitApproval(x, c) ==
  /\ txn[x].company = c /\ company[c].status = "pending"
  /\ Commit(x)
  /\ FinishProvisioning(c, company[c].contact)
  /\ company' = [company EXCEPT ![c].status = "active"]
  /\ document' = [document EXCEPT ![c] = [d \in DocType |-> Verified(@[d])]]
  /\ Reviewed(c, "approved")
  /\ UNCHANGED <<files, linked, request>>

(* A script provisions a company without an application. Its uncommitted   *)
(* row keeps the tax id.                                                   *)
BeginProvisionNew(x, c) ==
  /\ company[c].status = "none"
  /\ RowFree(c)
  /\ BeginProvisioning(x, c)
  /\ UNCHANGED affiliationVars

CommitProvisionNew(x, c, p) ==
  /\ txn[x].company = c /\ company[c].status = "none"
  /\ Commit(x)
  /\ FinishProvisioning(c, p)
  /\ company' = [company EXCEPT ![c] = [status |-> "active", registered |-> 1, contact |-> None]]
  /\ UNCHANGED <<document, review, files, linked, request>>

(* Statements, failures and edits of the configuration. The commission of  *)
(* a company is edited once there is the company.                          *)
Configure ==
  /\ \/ \E x \in Txn : \/ Statement(x)
                       \/ Abort(x)
                       \/ txn[x].company = None /\ Commit(x)
     \/ \E x \in Txn, k \in Key, v \in 0..MaxVersions :
          /\ \A c \in Company : k = Commission(c) => company[c].status # "none"
          /\ BeginEdit(x, k, v)
     \/ Tick
  /\ UNCHANGED affiliationVars

Next ==
  \/ \E f \in Upload : Stage(f) \/ PurgeStaging(f)
  \/ \E h \in Handler, c \in Company, p \in Contact, fs \in Injection(DocType, Upload) :
       BeginSubmission(h, c, p, fs)
  \/ \E h \in Handler, c \in Company, d \in DocType, f \in Upload : BeginReplacement(h, c, d, f)
  \/ \E h \in Handler, d \in DocType : CopyDocument(h, d) \/ RemoveStaged(h, d)
  \/ \E h \in Handler : \/ RollbackPromoted(h) \/ MovesDone(h)
                        \/ UpsertPendingCompany(h)
                        \/ FindPendingCompany(h) \/ ReplaceSingleDocument(h)
                        \/ RequestDocuments(h)
  \/ \E h \in Handler, c \in Company, types \in (SUBSET DocType) \ {{}} :
       BeginRequestDocuments(h, c, types)
  \/ \E c \in Company : RejectCompany(c)
  \/ \E x \in Txn, c \in Company :
       \/ BeginApproval(x, c) \/ CommitApproval(x, c)
       \/ BeginProvisionNew(x, c)
       \/ \E p \in Contact : CommitProvisionNew(x, c, p)
  \/ Configure

Spec == Init /\ [][Next]_vars

-----------------------------------------------------------------------------

Active(c) == company[c].status = "active"

(* An active company has an account to log in with, an open commission,    *)
(* and its town has a fare and parameters for each of its services, though *)
(* approvals of companies of one town race for the same fares and a second *)
(* company may apply with the contact of the first.                        *)
ActiveIsProvisioned ==
  \A c \in Company : Active(c) =>
    /\ \E p \in Contact : account[p] = c
    /\ Current(Commission(c)) # 0
    /\ \A s \in ToSet(Declared[c]), kind \in {"fare", "params"} :
         Current(<<kind, TownOf[c], s>>) # 0

(* An application is decided once, whatever approvals and rejections       *)
(* overlap.                                                                *)
DecidedOnce == \A c \in Company : Decisions(c) <= company[c].registered

(* A document of an active company that is not verified was written, or    *)
(* asked for again, after the approval, by someone who had read the company*)
(* as pending before it.                                                   *)
ActiveIsVerified ==
  \A c \in Company, d \in DocType :
    Active(c) /\ document[c][d] # None /\ document[c][d].state # "verified"
      => document[c][d].asOf < Decisions(c) /\ document[c][d].since = Decisions(c)

(* Every document has its file, whatever purges, repeated submissions of   *)
(* one upload and rollbacks remove.                                        *)
RowHasFile ==
  \A c \in Company, d \in DocType : document[c][d] # None => document[c][d].key \in promoted

(* Only one thing sets an active company back: an application of it that   *)
(* found it rejected before it applied again and was approved.             *)
SetBackOnlyByStale ==
  [][\A c \in Company : Active(c) /\ company'[c].status # "active" =>
       /\ company'[c].status = "pending"
       /\ \E h \in Handler : /\ request[h].at = "submitting" /\ request[h].company = c
                             /\ request[h].found = "rejected"
                             /\ request[h].asOf < Decisions(c)]_vars

=============================================================================
