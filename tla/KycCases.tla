------------------------------- MODULE KycCases -------------------------------
(***************************************************************************)
(* A customer's KYC case beside the reactivation case it belongs to, as     *)
(* vi_domain_service.py commands them: preparation, checklist, review,      *)
(* manager approval with its hand-off, and moves of the reactivation case.  *)
(*                                                                         *)
(* A user loads the two cases, commands something of them, and the handler  *)
(* checks the command, its row_version first, against what its transaction  *)
(* reads; it writes, when it commits, the columns it changed.  No row is    *)
(* locked when it is read and no UPDATE looks at row_version (no            *)
(* version_id_col, no FOR UPDATE): two requests that read before either     *)
(* commits are both let through.                                            *)
(***************************************************************************)
EXTENDS Integers, Sequences

CONSTANTS
  Users,
  Requests,     \* requests made at once
  Checks,       \* holder, Delhi presence, active number
  Purposes,     \* aadhaar and pan
  Documents,    \* the customer's documents
  Stages,       \* the stages of a reactivation case
  Closed,       \* REACTIVATION_TERMINAL_STAGES
  None,
  MaxVersion,   \* bound on the KYC case's row version
  OneBehind,    \* whether a transaction is overtaken by one commit at most
  MaxLost       \* bound on the commits that write over newer rows

ASSUME Bounds ==
  /\ MaxVersion \in Nat /\ MaxLost \in Nat /\ OneBehind \in BOOLEAN
  /\ {"documents_received", "kyc_verification"} \subseteq Stages \ Closed /\ Closed \subseteq Stages
  /\ None \notin Users \cup Documents

VARIABLES
  kyc,       \* [status, version, by, checks]
  checklist, \* checklist[p]: the document referenced for a purpose, or None
  stage,     \* the reactivation case's stage
  document,  \* document[d]: "submitted" or "verified"
  decisions, \* the rows of kyc_decisions, in order
  request,   \* request[r]: [phase, by, does, read], what it read and let through
  lost       \* commits that wrote to cases that had changed since they were read

rows == <<kyc, checklist, stage, decisions>>
vars == <<kyc, checklist, stage, document, decisions, request, lost>>

Open == {"pending", "documents_pending", "under_review"}
Decided == {"approved", "rejected"}
Decision == {"approved", "rejected", "needs_information"}

(* KYC_PREPARATION_TRANSITIONS, and staying as it is.                        *)
Prepared(s) ==
  {s} \cup CASE s = "pending" -> {"documents_pending", "under_review"}
             [] s = "documents_pending" -> {"pending", "under_review"}
             [] s = "under_review" -> {"documents_pending"}
             [] OTHER -> {}

NoKyc == [status |-> "none", version |-> 0, by |-> None, checks |-> {}]
KycType ==
  [status : Open \cup Decided, version : 0..MaxVersion, by : Users, checks : SUBSET Checks]
    \cup {NoKyc}
ChecklistType == [Purposes -> Documents \cup {None}]
DecisionType == [type : {"review", "manager_approval"}, decision : Decision, by : Users]

Command ==
  [verb : {"create"}] \cup [verb : {"update"}, status : Open, checks : SUBSET Checks]
    \cup [verb : {"refer"}, purpose : Purposes, document : Documents]
    \cup [verb : {"unrefer"}, purpose : Purposes]
    \cup [verb : {"review", "approve"}, decision : Decision]
    \cup [verb : {"move"}, to : Stages]

(* What one transaction reads: REPEATABLE READ, so the rows of one moment.   *)
Rows == [kyc |-> kyc, checklist |-> checklist, stage |-> stage]
RowsType == [kyc : KycType, checklist : ChecklistType, stage : Stages]

NoRequest == [phase |-> "none"]
RequestType ==
  {NoRequest} \cup
    [phase : {"checked"}, by : Users \cup {None}, does : Command, read : RowsType]

TypeOK ==
  /\ kyc \in KycType /\ checklist \in ChecklistType /\ stage \in Stages
  /\ document \in [Documents -> {"submitted", "verified"}]
  /\ decisions \in Seq(DecisionType)
  /\ request \in [Requests -> RequestType]
  /\ lost \in 0..MaxLost

Init ==
  /\ kyc = NoKyc /\ checklist = [p \in Purposes |-> None]
  /\ stage = "documents_received"
  /\ document = [d \in Documents |-> "submitted"]
  /\ decisions = <<>>
  /\ request = [r \in Requests |-> NoRequest]
  /\ lost = 0

-----------------------------------------------------------------------------
(* What a command is checked against: its user and the rows it reads.        *)

(* Mutant: a purpose with no document is not missed. *)
Complete_Referenced ==
  /\ kyc.checks = Checks
  /\ \A p \in Purposes : checklist[p] # None => document[checklist[p]] = "verified"

(* _validate_kyc_approval                                                    *)
Complete ==
  /\ kyc.checks = Checks
  /\ \A p \in Purposes : checklist[p] # None /\ document[checklist[p]] = "verified"

(* Mutant: the requester is only kept from reviewing. *)
MayApprove_Requester(u) ==
  LET last == decisions[Len(decisions)]
  IN  /\ decisions # <<>> /\ last.type = "review" /\ last.decision = "approved"
      /\ u # last.by

(* The last review approved it and no manager has decided since, so of the   *)
(* two kinds of decision the last one is an approved review; requester,      *)
(* reviewer and manager are three users.                                     *)
MayApprove(u) ==
  LET last == decisions[Len(decisions)]
  IN  /\ decisions # <<>> /\ last.type = "review" /\ last.decision = "approved"
      /\ u \notin {kyc.by, last.by}

MayReview(u) == kyc.status \in {"under_review", "documents_pending"} /\ u # kyc.by

(* Mutant: a decided case still takes its checklist. *)
Accepts_DecidedChecklist(u, c) ==
  CASE c.verb = "create" -> kyc = NoKyc /\ stage \in {"documents_received", "kyc_verification"}
    [] c.verb = "update" -> kyc.status \in Open /\ c.status \in Prepared(kyc.status)
    [] c.verb = "refer" -> kyc # NoKyc
    [] c.verb = "unrefer" -> kyc # NoKyc /\ checklist[c.purpose] # None
    [] c.verb = "review" -> kyc.status \in Open /\ MayReview(u) /\ (c.decision = "approved" => Complete)
    [] c.verb = "approve" ->
         /\ kyc.status \in Open /\ MayApprove(u)
         /\ c.decision = "approved" =>
              Complete /\ stage \in {"documents_received", "kyc_verification"}
    [] c.verb = "move" -> stage \notin Closed /\ c.to # stage

Accepts(u, c) ==
  CASE c.verb = "create" -> kyc = NoKyc /\ stage \in {"documents_received", "kyc_verification"}
    [] c.verb = "update" -> kyc.status \in Open /\ c.status \in Prepared(kyc.status)
    [] c.verb = "refer" -> kyc.status \in Open
    [] c.verb = "unrefer" -> kyc.status \in Open /\ checklist[c.purpose] # None
    [] c.verb = "review" -> kyc.status \in Open /\ MayReview(u) /\ (c.decision = "approved" => Complete)
    [] c.verb = "approve" ->
         /\ kyc.status \in Open /\ MayApprove(u)
         /\ c.decision = "approved" =>
              Complete /\ stage \in {"documents_received", "kyc_verification"}
    [] c.verb = "move" -> stage \notin Closed /\ c.to # stage

(* The commands whose user a row of the model keeps.                         *)
Signed == {"create", "review", "approve"}

-----------------------------------------------------------------------------
(* The handler reads the rows and lets a command through.  One it refuses    *)
(* writes nothing, and so does one made of a page that is out of date, which *)
(* _check_version turns away: what is let through carries the version read.  *)
Check(r) ==
  /\ request[r] = NoRequest
  /\ \E u \in Users, c \in Command :
       /\ Accepts(u, c)
       /\ request' = [request EXCEPT ![r] =
            [phase |-> "checked", by |-> IF c.verb \in Signed THEN u ELSE None,
             does |-> c, read |-> Rows]]
  /\ UNCHANGED <<rows, document, lost>>

(* The request or its connection is lost before the commit.                  *)
Abandon(r) ==
  /\ request[r].phase = "checked"
  /\ request' = [request EXCEPT ![r] = NoRequest]
  /\ UNCHANGED <<rows, document, lost>>

Commits(r, verb) == request[r].phase = "checked" /\ request[r].does.verb = verb

(* Bound, where OneBehind sets it: a transaction is overtaken by one commit   *)
(* before it ends.                                                           *)
OvertakenOnce(r) ==
  OneBehind => \A q \in Requests \ {r} : request[q] # NoRequest => request[q].read = Rows

Ends(r) ==
  /\ OvertakenOnce(r)
  /\ request' = [request EXCEPT ![r] = NoRequest]
  /\ lost' = IF rows' # rows /\ Rows # request[r].read THEN lost + 1 ELSE lost
  /\ lost' <= MaxLost
  /\ UNCHANGED document

(* An UPDATE carries the columns that differ from what was read.             *)
Changed(was, is, now) == IF is = was THEN now ELSE is

WriteKyc(t, status, checks) ==
  /\ t.kyc.version < MaxVersion
  /\ kyc' = [kyc EXCEPT
       !.status = Changed(t.kyc.status, status, @),
       !.checks = {x \in Checks :
         Changed(x \in t.kyc.checks, x \in checks, x \in kyc.checks)},
       !.version = t.kyc.version + 1]

(* One case per customer and one KYC case per case are unique keys: the      *)
(* second insert fails.                                                      *)
Create(r) ==
  /\ Commits(r, "create")
  /\ kyc' = IF kyc = NoKyc
            THEN [status |-> "pending", version |-> 0, by |-> request[r].by, checks |-> {}]
            ELSE kyc
  /\ UNCHANGED <<checklist, stage, decisions>>
  /\ Ends(r)

Update(r) ==
  /\ Commits(r, "update")
  /\ WriteKyc(request[r].read, request[r].does.status, request[r].does.checks)
  /\ UNCHANGED <<checklist, stage, decisions>>
  /\ Ends(r)

(* An insert that finds the purpose taken, or an update that finds its row   *)
(* gone, fails with the whole transaction.                                   *)
Refer(r) ==
  LET t == request[r].read
      p == request[r].does.purpose
  IN  /\ Commits(r, "refer")
      /\ IF (t.checklist[p] = None) = (checklist[p] = None)
         THEN /\ WriteKyc(t, t.kyc.status, t.kyc.checks)
              /\ checklist' = [checklist EXCEPT ![p] =
                   Changed(t.checklist[p], request[r].does.document, @)]
         ELSE UNCHANGED <<kyc, checklist>>
      /\ UNCHANGED <<stage, decisions>>
      /\ Ends(r)

Unrefer(r) ==
  /\ Commits(r, "unrefer")
  /\ WriteKyc(request[r].read, request[r].read.kyc.status, request[r].read.kyc.checks)
  /\ checklist' = [checklist EXCEPT ![request[r].does.purpose] = None]
  /\ UNCHANGED <<stage, decisions>>
  /\ Ends(r)

Decides(r, type) ==
  decisions' = Append(decisions, [type |-> type, decision |-> request[r].does.decision,
                                  by |-> request[r].by])

(* decide_kyc as a review: an approval leaves the status to the manager.     *)
Review(r) ==
  LET t == request[r].read
  IN  /\ Commits(r, "review")
      /\ WriteKyc(t, CASE request[r].does.decision = "approved" -> t.kyc.status
                       [] request[r].does.decision = "rejected" -> "rejected"
                       [] OTHER -> "documents_pending", t.kyc.checks)
      /\ Decides(r, "review")
      /\ UNCHANGED <<checklist, stage>>
      /\ Ends(r)

(* decide_kyc as a manager's decision, and its hand-off: the stage is moved  *)
(* as _append_reactivation_transition moves it.                              *)
Approve(r) ==
  LET t == request[r].read
  IN  /\ Commits(r, "approve")
      /\ WriteKyc(t, CASE request[r].does.decision = "approved" -> "approved"
                       [] request[r].does.decision = "rejected" -> "rejected"
                       [] OTHER -> "documents_pending", t.kyc.checks)
      /\ Decides(r, "manager_approval")
      /\ stage' = IF request[r].does.decision = "approved"
                  THEN Changed(t.stage, "kyc_verification", stage) ELSE stage
      /\ UNCHANGED checklist
      /\ Ends(r)

(* transition_reactivation: no gate is asked, any open stage leads anywhere. *)
Move(r) ==
  /\ Commits(r, "move")
  /\ stage' = request[r].does.to
  /\ UNCHANGED <<kyc, checklist, decisions>>
  /\ Ends(r)

(* contact_document_service: a document is verified, and a new version of it *)
(* is submitted again.  Neither touches the KYC case.                        *)
Verify(d) ==
  /\ document[d] = "submitted"
  /\ document' = [document EXCEPT ![d] = "verified"]
  /\ UNCHANGED <<rows, request, lost>>

AddVersion(d) ==
  /\ document[d] = "verified"
  /\ document' = [document EXCEPT ![d] = "submitted"]
  /\ UNCHANGED <<rows, request, lost>>

Commit(r) ==
  Create(r) \/ Update(r) \/ Refer(r) \/ Unrefer(r) \/ Review(r) \/ Approve(r) \/ Move(r)

Next ==
  \/ \E r \in Requests : Check(r) \/ Abandon(r) \/ Commit(r)
  \/ \E d \in Documents : Verify(d) \/ AddVersion(d)

Spec == Init /\ [][Next]_vars

-----------------------------------------------------------------------------
IsApproval(i) == decisions[i].type = "manager_approval" /\ decisions[i].decision = "approved"

(* A review by neither the requester nor u approved the case, among the      *)
(* first n decisions.                                                        *)
Reviewed(n, u) ==
  \E j \in 1..n : /\ decisions[j].type = "review" /\ decisions[j].decision = "approved"
                 /\ decisions[j].by \notin {kyc.by, u}

(* No decision is the requester's, and a manager's approval follows an       *)
(* approved review by a third user, whatever ran at the same time            *)
(* ("The requester, reviewer, and manager approver must be different users"). *)
FourEyes ==
  \A i \in DOMAIN decisions :
    decisions[i].by # kyc.by /\ (IsApproval(i) => Reviewed(i - 1, decisions[i].by))

(* What carries it: the same is true of a decision let through and not yet   *)
(* written.                                                                  *)
DecisionsInFlight ==
  \A r \in Requests :
    /\ Commits(r, "review") => request[r].by # kyc.by
    /\ Commits(r, "approve") =>
         request[r].by # kyc.by /\ Reviewed(Len(decisions), request[r].by)

(* A request about a KYC case has read one, which stays; those a row keeps   *)
(* are signed.                                                               *)
RequestsAreOfTheCase ==
  \A r \in Requests : request[r] # NoRequest =>
    /\ request[r].does.verb \in Signed => request[r].by \in Users
    /\ request[r].does.verb \notin {"create", "move"} =>
         kyc # NoKyc /\ request[r].read.kyc # NoKyc

Separated ==
  /\ TypeOK /\ FourEyes /\ DecisionsInFlight /\ RequestsAreOfTheCase
  /\ decisions # <<>> => kyc # NoKyc

(* "Mutable commands require the current row_version ... and return 409 on   *)
(* stale input" (docs/design/27): once decided, a case stays as it is, its   *)
(* checklist included, as long as no commit wrote over rows newer than those *)
(* it had read.  The version is compared in memory and no lock is taken, so  *)
(* without the proviso the property fails.                                   *)
DecidedStays ==
  [][kyc.status \in Decided /\ lost' = 0 =>
       kyc'.status = kyc.status /\ checklist' = checklist]_vars

(* So far no approval was repeated or undone, and it was made of a complete  *)
(* case.                                                                     *)
ApprovalIsBacked ==
  lost = 0 => (kyc.status = "approved" =>
    /\ IsApproval(Len(decisions))
    /\ \A i \in 1..Len(decisions) - 1 : ~IsApproval(i)
    /\ kyc.checks = Checks /\ \A p \in Purposes : checklist[p] # None)

(* What carries those: a request was let through on what it read, and of a    *)
(* case that is not approved no approval is on record.                       *)
LetThrough ==
  \A r \in Requests : request[r] # NoRequest =>
    LET t == request[r].read
        c == request[r].does
    IN  /\ c.verb = "create" => t.kyc = NoKyc
        /\ c.verb \notin {"create", "move"} => t.kyc.status \in Open
        /\ c.verb = "approve" /\ c.decision = "approved" =>
             t.kyc.checks = Checks /\ \A p \in Purposes : t.checklist[p] # None

NotYetApproved ==
  lost = 0 /\ kyc.status # "approved" => \A i \in DOMAIN decisions : ~IsApproval(i)

IInv == Separated /\ LetThrough /\ NotYetApproved /\ ApprovalIsBacked
=============================================================================
