--------------------------- MODULE CompanyNotices ---------------------------
(***************************************************************************)
(* What a company and the platform are told of an affiliation. A decision  *)
(* commits, and only then is its e-mail handed to the provider, once. The  *)
(* platform may send it again: it reads the last decision, then whom to    *)
(* tell, and an approval is told again with a new password. On its console *)
(* a clerk lists companies, or opens one in several reads, and downloads   *)
(* documents by the links that were shown.                                 *)
(*                                                                         *)
(* A password is the number of its issue. MaxPasswords bounds them.        *)
(***************************************************************************)
EXTENDS Affiliation

CONSTANTS
  Clerk,
  MaxPasswords

VARIABLES
  covered,     \* whether trips are served in each town
  lastReview,  \* the last decision on each company, the re-issues included
  contactAdmin,\* the first account of each company
  password,    \* the issue in force of each contact's account, 0 before there is one
  issued,      \* how many were
  handed,      \* those that whoever ran a script was shown
  outbox,      \* e-mails of what was committed and not handed to the provider
  sent, failed,
  desk         \* what each clerk is doing

noticeVars == <<covered, lastReview, contactAdmin, password, issued, handed, outbox, sent,
                failed, desk>>

noticedVars == <<vars, noticeVars>>

passwords == <<contactAdmin, password, issued, handed>>
mails == <<outbox, sent, failed>>

CompanyDecision == {"approved", "rejected", "documents_requested", "credentials_reissued"}

ASSUME NoticesAssumption ==
  /\ MaxPasswords \in Nat
  /\ None \notin DocumentRow /\ None \notin CompanyDecision

EmailMessage == [to : Contact, company : Company, decision : CompanyDecision,
                 password : 0..MaxPasswords]

(* What is shown of a company: the row, the town's coverage with it; its   *)
(* decisions, documents and configuration, of a later read; and since when *)
(* it waits for coverage, of the last. The links are to the documents of   *)
(* one application.                                                        *)
CompanyView == [status : {"none", "pending", "active", "rejected"}, applied : BOOLEAN,
                covered : BOOLEAN, decisions : SUBSET CompanyDecision, configured : BOOLEAN,
                links : SUBSET DocType, application : Nat, dated : BOOLEAN]

NoView == [status |-> "none", applied |-> FALSE, covered |-> FALSE, decisions |-> {},
           configured |-> FALSE, links |-> {}, application |-> 0, dated |-> FALSE]

Desk == [at : {"idle", "viewing", "viewed", "fetching", "listing", "listed", "resending"},
         company : Company \cup {None},
         reads : 0..3,                            \* reads done for the view
         view : [Company -> CompanyView],
         last : CompanyDecision \cup {None},      \* read by a resending
         key : FileKey \cup {None}]               \* found by a download

IdleDesk == [at |-> "idle", company |-> None, reads |-> 0,
             view |-> [c \in Company |-> NoView], last |-> None, key |-> None]

NoticesTypeOK ==
  /\ AffiliationTypeOK
  /\ covered \in [Town -> BOOLEAN]
  /\ lastReview \in [Company -> CompanyDecision \cup {None}]
  /\ contactAdmin \in [Company -> Contact \cup {None}]
  /\ password \in [Contact -> 0..MaxPasswords]
  /\ issued \in 0..MaxPasswords /\ handed \subseteq 1..MaxPasswords
  /\ outbox \cup sent \cup failed \subseteq EmailMessage
  /\ desk \in [Clerk -> Desk]

NoticesInit ==
  /\ Init
  /\ covered = [t \in Town |-> FALSE]
  /\ lastReview = [c \in Company |-> None]
  /\ contactAdmin = [c \in Company |-> None]
  /\ password = [p \in Contact |-> 0]
  /\ issued = 0 /\ handed = {}
  /\ outbox = {} /\ sent = {} /\ failed = {}
  /\ desk = [k \in Clerk |-> IdleDesk]

Email(to, c, decision, number) ==
  outbox' = outbox \cup {[to |-> to, company |-> c, decision |-> decision, password |-> number]}

LastReview(c, decision) == lastReview' = [lastReview EXCEPT ![c] = decision]

(* A new password for the account of a contact.                            *)
NewPassword(p) ==
  /\ issued < MaxPasswords
  /\ issued' = issued + 1
  /\ password' = [password EXCEPT ![p] = issued + 1]

Admits(c, p) ==
  contactAdmin' = [contactAdmin EXCEPT ![c] = IF @ = None THEN p ELSE @]

-----------------------------------------------------------------------------

(* The decisions, each with its e-mail.                                    *)
Approve(x, c) ==
  LET p == company[c].contact
  IN  /\ CommitApproval(x, c)
      /\ NewPassword(p) /\ Admits(c, p) /\ LastReview(c, "approved")
      /\ Email(p, c, "approved", issued + 1)
      /\ UNCHANGED <<covered, handed, sent, failed, desk>>

(* The operator of the script chose the password.                          *)
ProvisionNew(x, c, p) ==
  /\ CommitProvisionNew(x, c, p)
  /\ NewPassword(p) /\ Admits(c, p) /\ handed' = handed \cup {issued + 1}
  /\ UNCHANGED <<covered, lastReview, mails, desk>>

Reject(c) ==
  /\ RejectCompany(c)
  /\ LastReview(c, "rejected")
  /\ Email(company[c].contact, c, "rejected", 0)
  /\ UNCHANGED <<covered, passwords, sent, failed, desk>>

(* To the contact that was read with the status.                           *)
AskForDocuments(h) ==
  LET c == request[h].company
  IN  /\ RequestDocuments(h)
      /\ LastReview(c, "documents_requested")
      /\ Email(request[h].contact, c, "documents_requested", 0)
      /\ UNCHANGED <<covered, passwords, sent, failed, desk>>

(* The provider takes the e-mail or fails, or the process ends before.     *)
Send(m) ==
  \/ sent' = sent \cup {m} /\ UNCHANGED failed
  \/ failed' = failed \cup {m} /\ UNCHANGED sent

SendSafely(m) ==
  /\ m \in outbox
  /\ outbox' = outbox \ {m}
  /\ Send(m)
  /\ UNCHANGED <<vars, covered, lastReview, passwords, desk>>

-----------------------------------------------------------------------------

GetLastReview(k, c) ==
  /\ desk[k].at = "idle" /\ lastReview[c] # None
  /\ desk' = [desk EXCEPT ![k] =
       [IdleDesk EXCEPT !.at = "resending", !.company = c, !.last = lastReview[c]]]
  /\ UNCHANGED <<vars, covered, lastReview, passwords, mails>>

NewLink(c) == linked' = linked \cup {c}

(* The e-mail goes to whoever is the contact now, with a new link.         *)
ResendNotification(k) ==
  LET c == desk[k].company
  IN  /\ desk[k].at = "resending" /\ desk[k].last \in {"documents_requested", "rejected"}
      /\ Email(company[c].contact, c, desk[k].last, 0)
      /\ IF desk[k].last = "rejected" THEN UNCHANGED linked ELSE NewLink(c)
      /\ desk' = [desk EXCEPT ![k] = IdleDesk]
      /\ UNCHANGED <<versionVars, tables, files, request, covered, lastReview, passwords,
                     sent, failed>>

(* Whom the new password is sent to.                                       *)
(* Mutant: the contact of the company.                                     *)
ContactOf(c) == company[c].contact

AdminOf(c) == contactAdmin[c]

ReissueCredentials(k) ==
  LET c == desk[k].company
  IN  /\ desk[k].at = "resending" /\ desk[k].last \in {"approved", "credentials_reissued"}
      /\ contactAdmin[c] # None
      /\ NewPassword(contactAdmin[c]) /\ LastReview(c, "credentials_reissued")
      /\ Email(AdminOf(c), c, "credentials_reissued", issued + 1)
      /\ desk' = [desk EXCEPT ![k] = IdleDesk]
      /\ UNCHANGED <<vars, covered, contactAdmin, handed, sent, failed>>

(* A script gives an account a new password and shows it.                  *)
RotateStaffPassword(p) ==
  /\ account[p] # None
  /\ NewPassword(p) /\ handed' = handed \cup {issued + 1}
  /\ UNCHANGED <<vars, covered, lastReview, contactAdmin, mails, desk>>

(* A script gives a town its coverage, or takes it.                        *)
ChangeCoverage(t) ==
  /\ covered' = [covered EXCEPT ![t] = ~@]
  /\ UNCHANGED <<vars, lastReview, passwords, mails, desk>>

-----------------------------------------------------------------------------

RowOf(c) ==
  [NoView EXCEPT !.status = company[c].status, !.applied = company[c].contact # None,
                 !.covered = covered[TownOf[c]]]

GetDetail(view, c) ==
  [view EXCEPT !.status = RowOf(c).status, !.applied = RowOf(c).applied,
               !.covered = RowOf(c).covered]

ListReviews(c) == ToSet(review[c])

ListDocuments(c) == { d \in DocType : document[c][d] # None }

(* The documents get new identities when a company applies again.          *)
Signed(view, c) ==
  [view EXCEPT !.links = ListDocuments(c), !.application = company[c].registered]

WithDetails(view, c) ==
  [Signed(view, c) EXCEPT !.decisions = ListReviews(c),
                          !.configured = \A key \in Needed(c) : Current(key) # 0]

Awaits(view) == view.status = "active" /\ ~view.covered

WithApproval(view, c) == [view EXCEPT !.dated = Awaits(view) /\ "approved" \in ListReviews(c)]

(* The reads of a detail, in order.                                        *)
(* Mutant: the row is read last but one.                                   *)
DetailsFirst(k) == <<"details", "row", "approval">>

RowFirst(k) == <<"row", "details", "approval">>

OpenDetail(k, c) ==
  /\ desk[k].at = "idle" /\ company[c].status # "none"
  /\ desk' = [desk EXCEPT ![k] = [IdleDesk EXCEPT !.at = "viewing", !.company = c]]
  /\ UNCHANGED <<vars, covered, lastReview, passwords, mails>>

ReadDetail(k) ==
  LET c == desk[k].company
      view == desk[k].view[c]
      what == RowFirst(k)[desk[k].reads + 1]
  IN  /\ desk[k].at = "viewing"
      /\ desk' = [desk EXCEPT
           ![k].reads = @ + 1,
           ![k].view[c] = CASE what = "row" -> GetDetail(view, c)
                            [] what = "details" -> WithDetails(view, c)
                            [] what = "approval" -> WithApproval(view, c),
           ![k].at = IF desk[k].reads = 2 THEN "viewed" ELSE "viewing"]
      /\ UNCHANGED <<vars, covered, lastReview, passwords, mails>>

(* A link that was shown, unless it expired, which refuses more; the       *)
(* document it names, if the company has not applied again; its file.      *)
Verifies(view, d) == d \in view.links

FindDocumentForDownload(view, c) == company[c].registered = view.application

Download(k, d) ==
  LET c == desk[k].company
      view == desk[k].view[c]
  IN  /\ desk[k].at = "viewed" /\ Verifies(view, d)
      /\ FindDocumentForDownload(view, c)
      /\ desk' = [desk EXCEPT ![k].at = "fetching", ![k].key = document[c][d].key]
      /\ UNCHANGED <<vars, covered, lastReview, passwords, mails>>

(* The companies of a status, in one read, and then since when each waits. *)
ListCompanies(status) ==
  [c \in Company |-> IF company[c].status \in status THEN RowOf(c) ELSE NoView]

List(k, status) ==
  /\ desk[k].at = "idle"
  /\ desk' = [desk EXCEPT ![k] = [IdleDesk EXCEPT !.at = "listing", !.view = ListCompanies(status)]]
  /\ UNCHANGED <<vars, covered, lastReview, passwords, mails>>

FindApprovalDates(k) ==
  /\ desk[k].at = "listing"
  /\ desk' = [desk EXCEPT ![k].at = "listed",
                          ![k].view = [c \in Company |-> WithApproval(@[c], c)]]
  /\ UNCHANGED <<vars, covered, lastReview, passwords, mails>>

LeaveDesk(k) ==
  /\ desk[k].at \in {"viewed", "fetching", "listed"}
  /\ desk' = [desk EXCEPT ![k] = IdleDesk]
  /\ UNCHANGED <<vars, covered, lastReview, passwords, mails>>

PlatformCompanyStatusFilter ==
  { {"pending"}, {"active"}, {"rejected"}, {"pending", "active", "rejected"} }

Console(k) ==
  \/ \E c \in Company : GetLastReview(k, c) \/ OpenDetail(k, c)
  \/ ResendNotification(k) \/ ReissueCredentials(k)
  \/ ReadDetail(k)
  \/ \E d \in DocType : Download(k, d)
  \/ \E status \in PlatformCompanyStatusFilter : List(k, status)
  \/ FindApprovalDates(k) \/ LeaveDesk(k)

(* The steps of an affiliation of which nobody is told.                    *)
Silently ==
  \/ \E f \in Upload : Stage(f) \/ PurgeStaging(f)
  \/ \E h \in Handler, c \in Company, p \in Contact, fs \in Injection(DocType, Upload) :
       BeginSubmission(h, c, p, fs)
  \/ \E h \in Handler, c \in Company, d \in DocType, f \in Upload : BeginReplacement(h, c, d, f)
  \/ \E h \in Handler, d \in DocType : CopyDocument(h, d) \/ RemoveStaged(h, d)
  \/ \E h \in Handler : \/ RollbackPromoted(h) \/ MovesDone(h)
                        \/ UpsertPendingCompany(h)
                        \/ FindPendingCompany(h) \/ ReplaceSingleDocument(h)
  \/ \E h \in Handler, c \in Company, types \in (SUBSET DocType) \ {{}} :
       BeginRequestDocuments(h, c, types)
  \/ \E x \in Txn, c \in Company : BeginApproval(x, c) \/ BeginProvisionNew(x, c)
  \/ Configure

Deciding ==
  \/ \E x \in Txn, c \in Company : Approve(x, c)
  \/ \E x \in Txn, c \in Company, p \in Contact : ProvisionNew(x, c, p)
  \/ \E c \in Company : Reject(c)
  \/ \E h \in Handler : AskForDocuments(h)

Apart ==
  \/ \E m \in outbox : SendSafely(m)
  \/ \E p \in Contact : RotateStaffPassword(p)
  \/ \E t \in Town : ChangeCoverage(t)
  \/ \E k \in Clerk : Console(k)

NoticesNext ==
  \/ Silently /\ UNCHANGED noticeVars
  \/ Deciding
  \/ Apart

NoticesSpec == NoticesInit /\ [][NoticesNext]_noticedVars

-----------------------------------------------------------------------------

(* The password in force of an account is one that its owner, or whoever   *)
(* ran a script, was given the chance to know: an e-mail with it goes, went*)
(* or failed to go to that very account, though a company's contact may be *)
(* another by the time its credentials are issued again                    *)
(* (reissueCredentials, approve).                                          *)
PasswordReaches ==
  \A p \in Contact : account[p] # None =>
    \/ password[p] \in handed
    \/ \E m \in outbox \cup sent \cup failed : m.to = p /\ m.password = password[p]

(* A view that does not contradict itself.                                 *)
Sound(view) ==
  /\ view.status = "rejected" => "rejected" \in view.decisions
  /\ view.status = "active" =>
       view.configured /\ (view.applied => "approved" \in view.decisions)

(* Whatever is decided between the reads of a view, it does not contradict *)
(* itself: a rejected company is shown with a rejection, an active one with*)
(* its configuration and, unless a script made it, its approval, and since *)
(* when it waits for coverage. And a document that is found has its file   *)
(* (detail, list, download).                                               *)
ViewIsConsistent ==
  \A k \in Clerk :
    /\ desk[k].at \in {"viewed", "fetching"} => Sound(desk[k].view[desk[k].company])
    /\ desk[k].at \in {"viewed", "listed"} =>
         \A c \in Company : LET view == desk[k].view[c]
                            IN  Awaits(view) /\ view.applied => view.dated
    /\ desk[k].at = "fetching" => desk[k].key \in promoted

=============================================================================
