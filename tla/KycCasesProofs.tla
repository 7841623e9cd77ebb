---------------------------- MODULE KycCasesProofs ----------------------------
(***************************************************************************)
(* Theorems about KycCases for every set of users and requests.             *)
(*                                                                         *)
(* FourEyes is not inductive: a decision is let through in one step and     *)
(* written in another, so the same must be true of the decisions in flight  *)
(* (DecisionsInFlight), and a case must keep its requester from the moment  *)
(* a request has read it (RequestsAreOfTheCase).                            *)
(*                                                                         *)
(* ApprovalIsBacked and DecidedStays rest on what a request was let through *)
(* on (LetThrough): unless it writes over newer rows, that is what it       *)
(* writes to, so it finds an open case and an approval a complete one.      *)
(***************************************************************************)
EXTENDS KycCases, TLAPS

USE DEF Open, Decided, Decision, Signed

(* What a request in flight is made of. *)
LEMMA RequestTyped ==
  ASSUME TypeOK, NEW r \in Requests, request[r] # NoRequest
  PROVE  /\ request[r].phase = "checked" /\ request[r].by \in Users \cup {None}
         /\ request[r].does \in Command /\ request[r].read \in RowsType
  BY DEF TypeOK, RequestType

(* What a case is, apart from none. *)
LEMMA KycTyped ==
  ASSUME NEW k \in KycType, k # NoKyc
  PROVE  k \in [status : Open \cup Decided, version : 0..MaxVersion, by : Users, checks : SUBSET Checks]
  BY DEF KycType

(* A write keeps the case a case, and its requester. *)
LEMMA WriteKycKeeps ==
  ASSUME TypeOK, kyc # NoKyc, NEW t \in RowsType, t.kyc # NoKyc,
         NEW status \in Open \cup Decided, NEW checks, WriteKyc(t, status, checks)
  PROVE  kyc' \in KycType /\ kyc' # NoKyc /\ kyc'.by = kyc.by
  <1> DEFINE Marks == {x \in Checks : Changed(x \in t.kyc.checks, x \in checks, x \in kyc.checks)}
  <1>1. kyc \in [status : Open \cup Decided, version : 0..MaxVersion, by : Users, checks : SUBSET Checks]
    BY KycTyped DEF TypeOK
  <1>2. t.kyc.version + 1 \in 0..MaxVersion
    <2>1. t.kyc.version \in 0..MaxVersion
      BY KycTyped DEF RowsType
    <2> QED BY <2>1, Bounds DEF WriteKyc
  <1>3. Changed(t.kyc.status, status, kyc.status) \in Open \cup Decided
    BY <1>1 DEF Changed
  <1>4. kyc' = [kyc EXCEPT !.status = Changed(t.kyc.status, status, kyc.status),
                           !.checks = Marks, !.version = t.kyc.version + 1]
    BY DEF WriteKyc
  <1>5. Marks \subseteq Checks
    OBVIOUS
  <1> HIDE DEF Marks
  <1>6. kyc' \in [status : Open \cup Decided, version : 0..MaxVersion, by : Users, checks : SUBSET Checks]
    BY <1>1, <1>2, <1>3, <1>4, <1>5
  <1>7. kyc'.by = kyc.by /\ kyc'.status # "none"
    BY <1>1, <1>3, <1>4
  <1> QED BY <1>6, <1>7 DEF KycType, NoKyc

(* Reviewed and FourEyes, of a list of decisions and a requester. *)
Review3(ds, b, n, u) ==
  \E j \in 1..n : /\ ds[j].type = "review" /\ ds[j].decision = "approved"
                 /\ ds[j].by \notin {b, u}

Eyes(ds, b) ==
  \A i \in 1..Len(ds) :
    /\ ds[i].by # b
    /\ ds[i].type = "manager_approval" /\ ds[i].decision = "approved" =>
         Review3(ds, b, i - 1, ds[i].by)

LEMMA EyesAreFour ==
  decisions \in Seq(DecisionType) => (FourEyes <=> Eyes(decisions, kyc.by))
  BY DEF FourEyes, Eyes, Reviewed, Review3, IsApproval

(* The requests in flight that decide, of the same. *)
FlightOf(ds, b, rq) ==
  \A q \in Requests : rq[q].phase = "checked" =>
    /\ rq[q].does.verb = "review" => rq[q].by # b
    /\ rq[q].does.verb = "approve" => rq[q].by # b /\ Review3(ds, b, Len(ds), rq[q].by)

LEMMA FlightIsOf == DecisionsInFlight <=> FlightOf(decisions, kyc.by, request)
  <1>1. \A q \in Requests : Reviewed(Len(decisions), request[q].by) <=>
                             Review3(decisions, kyc.by, Len(decisions), request[q].by)
    BY DEF Reviewed, Review3
  <1> QED BY <1>1 DEF DecisionsInFlight, FlightOf, Commits

(* One more decision takes no review away. *)
LEMMA Review3Kept ==
  ASSUME NEW ds \in Seq(DecisionType), NEW d \in DecisionType, NEW b, NEW u, NEW n \in 0..Len(ds),
         Review3(ds, b, n, u)
  PROVE  /\ Review3(Append(ds, d), b, n, u)
         /\ Review3(Append(ds, d), b, Len(ds) + 1, u)
  <1>1. PICK j \in 1..n : ds[j].type = "review" /\ ds[j].decision = "approved" /\ ds[j].by \notin {b, u}
    BY DEF Review3
  <1>2. j \in 1..Len(ds) /\ j \in 1..Len(ds) + 1 /\ Append(ds, d)[j] = ds[j]
    <2>1. Len(ds) \in Nat /\ j \in 1..Len(ds) /\ j \in 1..Len(ds) + 1
      OBVIOUS
    <2> QED BY <2>1
  <1> QED BY <1>1, <1>2 DEF Review3

(* A step that decides nothing and asks nothing new. *)
LEMMA NothingDecided ==
  ASSUME Separated, decisions' = decisions,
         kyc # NoKyc => kyc' # NoKyc /\ kyc'.by = kyc.by,
         \A q \in Requests : request'[q] = request[q] \/ request'[q] = NoRequest
  PROVE  /\ FourEyes' /\ DecisionsInFlight' /\ RequestsAreOfTheCase'
         /\ decisions' # <<>> => kyc' # NoKyc
  <1>1. FourEyes'
    <2>1. Eyes(decisions, kyc.by)
      BY EyesAreFour DEF Separated, TypeOK
    <2>2. Eyes(decisions, kyc'.by)
      <3>1. CASE decisions = <<>>
        BY <3>1 DEF Eyes
      <3>2. CASE decisions # <<>>
        BY <2>1, <3>2 DEF Separated
      <3> QED BY <3>1, <3>2
    <2>3. decisions \in Seq(DecisionType)
      BY DEF Separated, TypeOK
    <2> QED BY <2>2, <2>3 DEF FourEyes, Eyes, Reviewed, Review3, IsApproval
  <1>2. DecisionsInFlight'
    <2>1. FlightOf(decisions, kyc.by, request)
      BY FlightIsOf DEF Separated
    <2>2. FlightOf(decisions, kyc'.by, request')
      <3> SUFFICES ASSUME NEW q \in Requests, request'[q].phase = "checked",
                          request'[q].does.verb \in {"review", "approve"}
                   PROVE  /\ request'[q].does.verb = "review" => request'[q].by # kyc'.by
                          /\ request'[q].does.verb = "approve" =>
                               /\ request'[q].by # kyc'.by
                               /\ Review3(decisions, kyc'.by, Len(decisions), request'[q].by)
        BY DEF FlightOf
      <3>1. request'[q] = request[q] /\ request[q] # NoRequest
        BY DEF NoRequest
      <3>2. kyc'.by = kyc.by
        BY <3>1 DEF Separated, RequestsAreOfTheCase
      <3> QED BY <2>1, <3>1, <3>2 DEF FlightOf
    <2> QED BY <2>2 DEF FlightOf, DecisionsInFlight, Commits, Reviewed, Review3
  <1>3. RequestsAreOfTheCase'
    BY DEF Separated, RequestsAreOfTheCase
  <1> QED BY <1>1, <1>2, <1>3 DEF Separated

(* A step that writes one decision, let through before. *)
LEMMA OneDecided ==
  ASSUME Separated, NEW d \in DecisionType, decisions' = Append(decisions, d), kyc # NoKyc,
         d.by # kyc.by,
         d.type = "manager_approval" => Review3(decisions, kyc.by, Len(decisions), d.by),
         kyc' # NoKyc, kyc'.by = kyc.by,
         \A q \in Requests : request'[q] = request[q] \/ request'[q] = NoRequest
  PROVE  FourEyes' /\ DecisionsInFlight' /\ RequestsAreOfTheCase'
  <1>0. /\ decisions \in Seq(DecisionType) /\ Len(decisions) \in Nat
        /\ decisions' \in Seq(DecisionType)
        /\ Len(decisions') = Len(decisions) + 1 /\ decisions'[Len(decisions) + 1] = d
        /\ \A i \in 1..Len(decisions) : decisions'[i] = decisions[i]
    BY DEF Separated, TypeOK
  <1>1. FourEyes'
    <2>1. Eyes(decisions, kyc.by)
      BY <1>0, EyesAreFour DEF Separated
    <2>2. Eyes(decisions', kyc.by)
      <3> SUFFICES ASSUME NEW i \in 1..Len(decisions) + 1
                   PROVE  /\ decisions'[i].by # kyc.by
                          /\ decisions'[i].type = "manager_approval" /\ decisions'[i].decision = "approved" =>
                               Review3(decisions', kyc.by, i - 1, decisions'[i].by)
        BY <1>0 DEF Eyes
      <3>1. CASE i \in 1..Len(decisions)
        <4>1. decisions'[i] = decisions[i] /\ i - 1 \in 0..Len(decisions)
          BY <1>0, <3>1
        <4> QED BY <1>0, <2>1, <3>1, <4>1, Review3Kept DEF Eyes
      <3>2. CASE i = Len(decisions) + 1
        <4>1. decisions'[i] = d /\ i - 1 = Len(decisions) /\ Len(decisions) \in 0..Len(decisions)
          BY <1>0, <3>2
        <4> QED BY <1>0, <4>1, Review3Kept
      <3> QED BY <1>0, <3>1, <3>2
    <2> QED BY <1>0, <2>2 DEF FourEyes, Eyes, Reviewed, Review3, IsApproval
  <1>2. DecisionsInFlight'
    <2>1. FlightOf(decisions, kyc.by, request)
      BY FlightIsOf DEF Separated
    <2>2. FlightOf(decisions', kyc.by, request')
      <3> SUFFICES ASSUME NEW q \in Requests, request'[q].phase = "checked"
                   PROVE  /\ request'[q].does.verb = "review" => request'[q].by # kyc.by
                          /\ request'[q].does.verb = "approve" =>
                               /\ request'[q].by # kyc.by
                               /\ Review3(decisions', kyc.by, Len(decisions'), request'[q].by)
        BY DEF FlightOf
      <3>1. request'[q] = request[q]
        BY DEF NoRequest
      <3>2. Len(decisions) \in 0..Len(decisions)
        BY <1>0
      <3>3. request[q].does.verb = "approve" =>
              Review3(decisions', kyc.by, Len(decisions) + 1, request[q].by)
        BY <1>0, <2>1, <3>1, <3>2, Review3Kept DEF FlightOf
      <3> QED BY <1>0, <2>1, <3>1, <3>3 DEF FlightOf
    <2> QED BY <2>2 DEF FlightOf, DecisionsInFlight, Commits, Reviewed, Review3
  <1>3. RequestsAreOfTheCase'
    BY DEF Separated, RequestsAreOfTheCase
  <1> QED BY <1>1, <1>2, <1>3

LEMMA InitSeparated == Init => Separated
  <1> SUFFICES ASSUME Init PROVE Separated
    OBVIOUS
  <1>1. TypeOK
    <2>1. stage \in Stages /\ lost \in 0..MaxLost /\ decisions \in Seq(DecisionType)
      BY Bounds DEF Init
    <2>2. kyc \in KycType /\ checklist \in ChecklistType /\ request \in [Requests -> RequestType]
      BY DEF Init, KycType, ChecklistType, RequestType
    <2> QED BY <2>1, <2>2 DEF Init, TypeOK
  <1>2. decisions = <<>> /\ \A r \in Requests : request[r] = NoRequest
    BY DEF Init
  <1>3. FourEyes
    BY <1>2 DEF FourEyes
  <1>4. DecisionsInFlight /\ RequestsAreOfTheCase
    BY <1>2 DEF DecisionsInFlight, RequestsAreOfTheCase, Commits, NoRequest
  <1> QED BY <1>1, <1>2, <1>3, <1>4 DEF Separated

(* Letting a command through: what an approval was checked against is still  *)
(* all there is.                                                             *)
LEMMA CheckSeparated ==
  ASSUME Separated, NEW r \in Requests, Check(r)
  PROVE  Separated'
  <1>1. PICK u \in Users, c \in Command :
          /\ Accepts(u, c)
          /\ request' = [request EXCEPT ![r] =
               [phase |-> "checked", by |-> IF c.verb \in Signed THEN u ELSE None,
                does |-> c, read |-> Rows]]
    BY DEF Check
  <1>2. UNCHANGED <<kyc, checklist, stage, decisions, document, lost>>
    BY DEF Check, rows
  <1>3. request'[r] = [phase |-> "checked", by |-> IF c.verb \in Signed THEN u ELSE None,
                       does |-> c, read |-> Rows]
        /\ \A q \in Requests \ {r} : request'[q] = request[q]
    BY <1>1 DEF Separated, TypeOK
  <1>4. TypeOK'
    <2>1. Rows \in RowsType
      BY DEF Rows, RowsType, Separated, TypeOK
    <2>2. request' \in [Requests -> RequestType]
      BY <1>1, <2>1 DEF RequestType, Separated, TypeOK
    <2> QED BY <1>2, <2>2 DEF Separated, TypeOK
  <1>5. c.verb \in {"review", "approve", "update", "refer", "unrefer"} => kyc # NoKyc
    <2>1. NoKyc.status \notin Open
      BY DEF NoKyc
    <2>2. CASE c.verb = "review"
      BY <1>1, <2>1, <2>2 DEF Accepts
    <2>3. CASE c.verb = "approve"
      BY <1>1, <2>1, <2>3 DEF Accepts
    <2>4. CASE c.verb = "update"
      BY <1>1, <2>1, <2>4 DEF Accepts
    <2>5. CASE c.verb = "refer"
      BY <1>1, <2>1, <2>5 DEF Accepts
    <2>6. CASE c.verb = "unrefer"
      BY <1>1, <2>1, <2>6 DEF Accepts
    <2> QED BY <2>2, <2>3, <2>4, <2>5, <2>6
  <1>6. c.verb \in {"create", "update", "refer", "unrefer", "review", "approve", "move"}
    BY DEF Command
  <1>7. c.verb = "review" => u # kyc.by
    BY <1>1 DEF Accepts, MayReview
  <1>8. c.verb = "approve" => u # kyc.by /\ Reviewed(Len(decisions), u)
    <2> SUFFICES ASSUME c.verb = "approve" PROVE u # kyc.by /\ Reviewed(Len(decisions), u)
      OBVIOUS
    <2> DEFINE last == decisions[Len(decisions)]
    <2>1. /\ decisions # <<>> /\ last.type = "review" /\ last.decision = "approved"
          /\ u \notin {kyc.by, last.by}
      BY <1>1 DEF Accepts, MayApprove
    <2>2. Len(decisions) \in 1..Len(decisions) /\ Len(decisions) \in DOMAIN decisions
      BY <2>1 DEF Separated, TypeOK
    <2>3. last.by # kyc.by
      BY <2>2 DEF Separated, FourEyes
    <2> QED BY <2>1, <2>2, <2>3 DEF Reviewed
  <1>9. DecisionsInFlight'
    <2>1. FlightOf(decisions, kyc.by, request)
      BY FlightIsOf DEF Separated
    <2>2. c.verb = "approve" => Review3(decisions, kyc.by, Len(decisions), u)
      BY <1>8 DEF Reviewed, Review3
    <2>3. FlightOf(decisions, kyc.by, request')
      BY <1>3, <1>7, <1>8, <2>1, <2>2 DEF FlightOf
    <2> QED BY <1>2, <2>3 DEF FlightOf, DecisionsInFlight, Commits, Reviewed, Review3
  <1>10. RequestsAreOfTheCase'
    BY <1>2, <1>3, <1>5, <1>6 DEF Separated, RequestsAreOfTheCase, Rows
  <1>11. FourEyes'
    BY <1>2 DEF Separated, FourEyes, IsApproval, Reviewed
  <1> QED BY <1>2, <1>4, <1>9, <1>10, <1>11 DEF Separated

(* The end of a request: it is gone, and what it counts stays in its range. *)
LEMMA EndsTyped ==
  ASSUME TypeOK, NEW r \in Requests, Ends(r)
  PROVE  /\ request' \in [Requests -> RequestType]
         /\ \A q \in Requests : request'[q] = request[q] \/ request'[q] = NoRequest
         /\ lost' \in 0..MaxLost
         /\ document' = document
  <1>1. request' = [request EXCEPT ![r] = NoRequest] /\ document' = document
    BY DEF Ends
  <1>2. lost' \in Nat /\ lost' <= MaxLost
    BY Bounds DEF Ends, TypeOK
  <1> QED BY <1>1, <1>2, Bounds DEF TypeOK, RequestType

(* The requests that write to a case they have read. *)
LEMMA OfTheCase ==
  ASSUME Separated, NEW r \in Requests, NEW v \in {"update", "refer", "unrefer", "review", "approve"},
         Commits(r, v)
  PROVE  /\ kyc # NoKyc /\ request[r].read.kyc # NoKyc /\ request[r].read \in RowsType
         /\ request[r].does \in Command /\ request[r].does.verb = v
         /\ v \in {"review", "approve"} => request[r].by \in Users
         /\ request[r].read.kyc.status \in Open \cup Decided
  <1>1. request[r] # NoRequest /\ request[r].does.verb = v
    BY DEF Commits, NoRequest
  <1>2. /\ kyc # NoKyc /\ request[r].read.kyc # NoKyc
        /\ v \in {"review", "approve"} => request[r].by \in Users
    BY <1>1 DEF Separated, RequestsAreOfTheCase
  <1>3. request[r].read \in RowsType /\ request[r].does \in Command
    BY <1>1, RequestTyped DEF Separated
  <1>4. request[r].read.kyc.status \in Open \cup Decided
    BY <1>2, <1>3, KycTyped DEF RowsType
  <1> QED BY <1>1, <1>2, <1>3, <1>4

LEMMA CreateSeparated ==
  ASSUME Separated, NEW r \in Requests, Create(r)
  PROVE  Separated'
  <1>1. request[r].by \in Users
    BY DEF Create, Commits, Separated, RequestsAreOfTheCase, NoRequest
  <1>2. kyc' \in KycType /\ (kyc # NoKyc => kyc' = kyc)
    BY <1>1, Bounds DEF Create, KycType, Separated, TypeOK
  <1>3. UNCHANGED <<checklist, stage, decisions>> /\ Ends(r)
    BY DEF Create
  <1>4. TypeOK'
    BY <1>2, <1>3, EndsTyped DEF Separated, TypeOK
  <1> QED BY <1>2, <1>3, <1>4, EndsTyped, NothingDecided DEF Separated

LEMMA UpdateSeparated ==
  ASSUME Separated, NEW r \in Requests, Update(r)
  PROVE  Separated'
  <1> DEFINE t == request[r].read
             c == request[r].does
  <1>1. /\ Commits(r, "update") /\ WriteKyc(t, c.status, c.checks)
        /\ UNCHANGED <<checklist, stage, decisions>> /\ Ends(r)
    BY DEF Update
  <1>2. kyc # NoKyc /\ t.kyc # NoKyc /\ t \in RowsType /\ c \in Command /\ c.verb = "update"
    BY <1>1, OfTheCase
  <1>3. c.status \in Open \cup Decided
    BY <1>2 DEF Command
  <1>4. kyc' \in KycType /\ kyc' # NoKyc /\ kyc'.by = kyc.by
    BY <1>1, <1>2, <1>3, WriteKycKeeps DEF Separated
  <1>5. TypeOK'
    BY <1>1, <1>4, EndsTyped DEF Separated, TypeOK
  <1> QED BY <1>1, <1>4, <1>5, EndsTyped, NothingDecided DEF Separated

LEMMA ReferSeparated ==
  ASSUME Separated, NEW r \in Requests, Refer(r)
  PROVE  Separated'
  <1> DEFINE t == request[r].read
             c == request[r].does
  <1>1. Commits(r, "refer") /\ UNCHANGED <<stage, decisions>> /\ Ends(r)
    BY DEF Refer
  <1>2. /\ kyc # NoKyc /\ t.kyc # NoKyc /\ t \in RowsType /\ t.kyc.status \in Open \cup Decided
        /\ c \in Command /\ c.verb = "refer"
    BY <1>1, OfTheCase
  <1>3. c.document \in Documents
    BY <1>2 DEF Command
  <1>4. \/ /\ WriteKyc(t, t.kyc.status, t.kyc.checks)
           /\ checklist' = [checklist EXCEPT ![c.purpose] =
                 Changed(t.checklist[c.purpose], c.document, checklist[c.purpose])]
        \/ UNCHANGED <<kyc, checklist>>
    BY DEF Refer
  <1>5. kyc' \in KycType /\ kyc' # NoKyc /\ kyc'.by = kyc.by
    BY <1>2, <1>4, WriteKycKeeps DEF Separated, TypeOK
  <1>6. checklist' \in ChecklistType
    BY <1>2, <1>3, <1>4 DEF Separated, TypeOK, ChecklistType, Changed
  <1>7. TypeOK'
    BY <1>1, <1>5, <1>6, EndsTyped DEF Separated, TypeOK
  <1> QED BY <1>1, <1>5, <1>7, EndsTyped, NothingDecided DEF Separated

LEMMA UnreferSeparated ==
  ASSUME Separated, NEW r \in Requests, Unrefer(r)
  PROVE  Separated'
  <1> DEFINE t == request[r].read
  <1>1. /\ Commits(r, "unrefer") /\ WriteKyc(t, t.kyc.status, t.kyc.checks)
        /\ checklist' = [checklist EXCEPT ![request[r].does.purpose] = None]
        /\ UNCHANGED <<stage, decisions>> /\ Ends(r)
    BY DEF Unrefer
  <1>2. kyc # NoKyc /\ t.kyc # NoKyc /\ t \in RowsType /\ t.kyc.status \in Open \cup Decided
    BY <1>1, OfTheCase
  <1>3. kyc' \in KycType /\ kyc' # NoKyc /\ kyc'.by = kyc.by
    BY <1>1, <1>2, WriteKycKeeps DEF Separated
  <1>4. checklist' \in ChecklistType
    BY <1>1 DEF Separated, TypeOK, ChecklistType
  <1>5. TypeOK'
    BY <1>1, <1>3, <1>4, EndsTyped DEF Separated, TypeOK
  <1> QED BY <1>1, <1>3, <1>5, EndsTyped, NothingDecided DEF Separated

(* A review or an approval that commits. *)
LEMMA DecideSeparated ==
  ASSUME Separated, NEW r \in Requests,
         NEW v \in {"review", "approve"}, NEW type \in {"review", "manager_approval"},
         (v = "approve") <=> (type = "manager_approval"),
         Commits(r, v), NEW status \in Open \cup Decided,
         WriteKyc(request[r].read, status, request[r].read.kyc.checks),
         Decides(r, type), stage' \in Stages, UNCHANGED checklist, Ends(r)
  PROVE  Separated'
  <1> DEFINE t == request[r].read
             d == [type |-> type, decision |-> request[r].does.decision, by |-> request[r].by]
  <1>1. /\ kyc # NoKyc /\ t.kyc # NoKyc /\ t \in RowsType /\ request[r].by \in Users
        /\ request[r].does \in Command /\ request[r].does.verb = v
    BY OfTheCase
  <1>2. d \in DecisionType
    <2>1. request[r].does.decision \in Decision
      BY <1>1 DEF Command
    <2> QED BY <1>1, <2>1 DEF DecisionType
  <1>3. kyc' \in KycType /\ kyc' # NoKyc /\ kyc'.by = kyc.by
    BY <1>1, WriteKycKeeps DEF Separated
  <1>4. decisions' = Append(decisions, d)
    BY DEF Decides
  <1>5. TypeOK'
    <2>1. decisions' \in Seq(DecisionType)
      BY <1>2, <1>4 DEF Separated, TypeOK
    <2> QED BY <1>3, <2>1, EndsTyped DEF Separated, TypeOK
  <1>6. /\ d.by # kyc.by
        /\ d.type = "manager_approval" => Review3(decisions, kyc.by, Len(decisions), d.by)
    BY FlightIsOf DEF Separated, FlightOf, Commits
  <1> HIDE DEF d
  <1>7. FourEyes' /\ DecisionsInFlight' /\ RequestsAreOfTheCase'
    BY <1>1, <1>2, <1>3, <1>4, <1>6, EndsTyped, OneDecided DEF Separated
  <1> QED BY <1>3, <1>5, <1>7 DEF Separated

LEMMA ReviewSeparated ==
  ASSUME Separated, NEW r \in Requests, Review(r)
  PROVE  Separated'
  <1> DEFINE t == request[r].read
             status == CASE request[r].does.decision = "approved" -> t.kyc.status
                         [] request[r].does.decision = "rejected" -> "rejected"
                         [] OTHER -> "documents_pending"
  <1>1. /\ Commits(r, "review") /\ WriteKyc(t, status, t.kyc.checks) /\ Decides(r, "review")
        /\ UNCHANGED <<checklist, stage>> /\ Ends(r)
    BY DEF Review
  <1>2. t.kyc.status \in Open \cup Decided
    BY <1>1, OfTheCase
  <1>3. status \in Open \cup Decided
    BY <1>2
  <1> HIDE DEF status
  <1>4. stage' \in Stages
    BY <1>1 DEF Separated, TypeOK
  <1> QED BY <1>1, <1>3, <1>4, DecideSeparated

LEMMA ApproveSeparated ==
  ASSUME Separated, NEW r \in Requests, Approve(r)
  PROVE  Separated'
  <1> DEFINE t == request[r].read
             status == CASE request[r].does.decision = "approved" -> "approved"
                         [] request[r].does.decision = "rejected" -> "rejected"
                         [] OTHER -> "documents_pending"
  <1>1. /\ Commits(r, "approve") /\ WriteKyc(t, status, t.kyc.checks)
        /\ Decides(r, "manager_approval") /\ UNCHANGED checklist /\ Ends(r)
    BY DEF Approve
  <1>2. status \in Open \cup Decided
    OBVIOUS
  <1> HIDE DEF status
  <1>3. stage' \in Stages
    BY Bounds DEF Approve, Changed, Separated, TypeOK
  <1> QED BY <1>1, <1>2, <1>3, DecideSeparated

LEMMA MoveSeparated ==
  ASSUME Separated, NEW r \in Requests, Move(r)
  PROVE  Separated'
  <1>1. /\ Commits(r, "move") /\ stage' = request[r].does.to
        /\ UNCHANGED <<kyc, checklist, decisions>> /\ Ends(r)
    BY DEF Move
  <1>2. stage' \in Stages
    <2>1. request[r] # NoRequest /\ request[r].does.verb = "move"
      BY <1>1 DEF Commits, NoRequest
    <2>2. request[r].does \in Command
      BY <2>1, RequestTyped DEF Separated
    <2> QED BY <1>1, <2>1, <2>2 DEF Command
  <1>3. TypeOK'
    BY <1>1, <1>2, EndsTyped DEF Separated, TypeOK
  <1> QED BY <1>1, <1>3, EndsTyped, NothingDecided DEF Separated

(* The steps that touch neither the case nor its decisions. *)
LEMMA OthersSeparated ==
  ASSUME Separated,
         \/ \E r \in Requests : Abandon(r)
         \/ \E d \in Documents : Verify(d) \/ AddVersion(d)
         \/ UNCHANGED vars
  PROVE  Separated'
  <1>1. UNCHANGED <<kyc, checklist, stage, decisions, lost>>
    BY DEF Abandon, Verify, AddVersion, rows, vars
  <1>2. /\ request' \in [Requests -> RequestType]
        /\ \A q \in Requests : request'[q] = request[q] \/ request'[q] = NoRequest
    BY DEF Abandon, Verify, AddVersion, vars, Separated, TypeOK, RequestType
  <1>3. document' \in [Documents -> {"submitted", "verified"}]
    BY DEF Abandon, Verify, AddVersion, vars, Separated, TypeOK
  <1>4. TypeOK'
    BY <1>1, <1>2, <1>3 DEF Separated, TypeOK
  <1> QED BY <1>1, <1>2, <1>4, NothingDecided DEF Separated

LEMMA NextSeparated == Separated /\ [Next]_vars => Separated'
  <1> SUFFICES ASSUME Separated, [Next]_vars PROVE Separated'
    OBVIOUS
  <1>1. ASSUME NEW r \in Requests, Check(r) PROVE Separated'
    BY <1>1, CheckSeparated
  <1>2. ASSUME NEW r \in Requests, Commit(r) PROVE Separated'
    BY <1>2, CreateSeparated, UpdateSeparated, ReferSeparated, UnreferSeparated, ReviewSeparated, ApproveSeparated, MoveSeparated DEF Commit
  <1>3. CASE \/ \E r \in Requests : Abandon(r)
             \/ \E d \in Documents : Verify(d) \/ AddVersion(d)
             \/ UNCHANGED vars
    BY <1>3, OthersSeparated
  <1> QED BY <1>1, <1>2, <1>3 DEF Next

-----------------------------------------------------------------------------
(* A request keeps what it was let through on.                               *)
LEMMA NextLetThrough == TypeOK /\ LetThrough /\ [Next]_vars => LetThrough'
  <1> SUFFICES ASSUME TypeOK, LetThrough, [Next]_vars PROVE LetThrough'
    OBVIOUS
  <1>1. ASSUME NEW r \in Requests, Check(r) PROVE LetThrough'
    <2>1. PICK u \in Users, c \in Command :
            /\ Accepts(u, c)
            /\ request' = [request EXCEPT ![r] =
                 [phase |-> "checked", by |-> IF c.verb \in Signed THEN u ELSE None,
                  does |-> c, read |-> Rows]]
      BY <1>1 DEF Check
    <2>2. c.verb \in {"create", "update", "refer", "unrefer", "review", "approve", "move"}
      BY DEF Command
    <2>3. c.verb = "create" => kyc = NoKyc
      BY <2>1 DEF Accepts
    <2>4. c.verb \notin {"create", "move"} => kyc.status \in Open
      BY <2>1, <2>2 DEF Accepts
    <2>5. c.verb = "approve" /\ c.decision = "approved" =>
            kyc.checks = Checks /\ \A p \in Purposes : checklist[p] # None
      BY <2>1 DEF Accepts, Complete
    <2>6. request'[r].does = c /\ request'[r].read.kyc = kyc /\ request'[r].read.checklist = checklist
          /\ \A q \in Requests \ {r} : request'[q] = request[q]
      BY <2>1 DEF TypeOK, Rows
    <2> QED BY <2>3, <2>4, <2>5, <2>6 DEF LetThrough
  <1>2. CASE \A q \in Requests : request'[q] = request[q] \/ request'[q] = NoRequest
    BY <1>2 DEF LetThrough
  <1>3. ASSUME NEW r \in Requests, Ends(r) PROVE LetThrough'
    BY <1>2, <1>3, EndsTyped
  <1>4. CASE \/ \E r \in Requests : Abandon(r)
             \/ \E d \in Documents : Verify(d) \/ AddVersion(d)
             \/ UNCHANGED vars
    BY <1>2, <1>4 DEF Abandon, Verify, AddVersion, vars, TypeOK
  <1> QED BY <1>1, <1>3, <1>4
          DEF Next, Commit, Create, Update, Refer, Unrefer, Review, Approve, Move

(* A commit that wrote over nothing wrote to what it had read.               *)
LEMMA WroteToWhatItRead ==
  ASSUME TypeOK, NEW r \in Requests, Ends(r), lost' = 0
  PROVE  /\ lost = 0
         /\ \/ UNCHANGED <<kyc, checklist, stage, decisions>>
            \/ kyc = request[r].read.kyc /\ checklist = request[r].read.checklist
  BY DEF TypeOK, Ends, rows, Rows

(* The requests that commit are in flight.                                   *)
LEMMA Committing ==
  ASSUME LetThrough, NEW r \in Requests, NEW v, Commits(r, v)
  PROVE  LET t == request[r].read
         IN  /\ request[r] # NoRequest /\ request[r].does.verb = v
             /\ v = "create" => t.kyc = NoKyc
             /\ v \notin {"create", "move"} => t.kyc.status \in Open
             /\ v = "approve" /\ request[r].does.decision = "approved" =>
                  t.kyc.checks = Checks /\ \A p \in Purposes : t.checklist[p] # None
  BY DEF Commits, LetThrough, NoRequest

(* So it wrote nothing to a case that was decided.                           *)
LEMMA DecidedKept ==
  ASSUME TypeOK, LetThrough, [Next]_vars, kyc.status \in Decided, lost' = 0
  PROVE  lost = 0 /\ UNCHANGED <<kyc, checklist, decisions>>
  <1>1. ASSUME NEW r \in Requests, NEW v \in {"create", "update", "refer", "unrefer", "review", "approve"},
               Commits(r, v), Ends(r)
        PROVE  lost = 0 /\ UNCHANGED <<kyc, checklist, decisions>>
    <2>1. request[r].read.kyc.status \notin Decided
      BY <1>1, Committing DEF NoKyc
    <2> QED BY <1>1, <2>1, WroteToWhatItRead
  <1>2. ASSUME NEW r \in Requests, Move(r)
        PROVE  lost = 0 /\ UNCHANGED <<kyc, checklist, decisions>>
    BY <1>2, WroteToWhatItRead DEF Move
  <1>3. ASSUME NEW r \in Requests, Commit(r)
        PROVE  lost = 0 /\ UNCHANGED <<kyc, checklist, decisions>>
    BY <1>1, <1>2, <1>3 DEF Commit, Create, Update, Refer, Unrefer, Review, Approve
  <1>4. CASE \/ \E r \in Requests : Check(r) \/ Abandon(r)
             \/ \E d \in Documents : Verify(d) \/ AddVersion(d)
             \/ UNCHANGED vars
    BY <1>4 DEF Check, Abandon, Verify, AddVersion, rows, vars
  <1> QED BY <1>3, <1>4 DEF Next

(* The status a write leaves is the one written or the one found.            *)
LEMMA StatusWritten ==
  ASSUME TypeOK, NEW t, NEW status, NEW checks, WriteKyc(t, status, checks), kyc # NoKyc
  PROVE  kyc'.status = Changed(t.kyc.status, status, kyc.status)
  <1>1. kyc \in [status : Open \cup Decided, version : 0..MaxVersion, by : Users, checks : SUBSET Checks]
    BY KycTyped DEF TypeOK
  <1> QED BY <1>1 DEF WriteKyc

(* A manager's approval that wrote over nothing.                             *)
LEMMA Approved ==
  ASSUME Separated, LetThrough, NEW r \in Requests, Approve(r), lost' = 0,
         request[r].does.decision = "approved"
  PROVE  /\ kyc'.status = "approved" /\ kyc'.checks = Checks
         /\ checklist' = checklist /\ \A p \in Purposes : checklist[p] # None
         /\ kyc.status \in Open
  <1> DEFINE t == request[r].read
  <1>1. /\ Commits(r, "approve") /\ WriteKyc(t, "approved", t.kyc.checks)
        /\ Decides(r, "manager_approval") /\ UNCHANGED checklist /\ Ends(r)
    BY DEF Approve
  <1>2. /\ t.kyc.status \in Open /\ t.kyc.checks = Checks
        /\ \A p \in Purposes : t.checklist[p] # None
    BY <1>1, Committing
  <1>3. decisions' # decisions
    BY <1>1 DEF Decides, Separated, TypeOK
  <1>4. kyc = t.kyc /\ checklist = t.checklist
    BY <1>1, <1>3, WroteToWhatItRead DEF Separated
  <1>5. kyc \in [status : Open \cup Decided, version : 0..MaxVersion, by : Users, checks : SUBSET Checks]
    BY <1>2, <1>4, KycTyped DEF Separated, TypeOK, NoKyc
  <1>6. kyc'.status = "approved"
    BY <1>1, <1>2, <1>4, <1>5 DEF WriteKyc, Changed
  <1>7. kyc'.checks = {x \in Checks : Changed(x \in t.kyc.checks, x \in t.kyc.checks, x \in kyc.checks)}
    BY <1>1, <1>5 DEF WriteKyc
  <1>8. kyc'.checks = Checks
    BY <1>2, <1>4, <1>7 DEF Changed
  <1> QED BY <1>1, <1>2, <1>4, <1>6, <1>8

(* Every other step of a case that is not approved leaves it so.             *)
LEMMA StaysUnapproved ==
  ASSUME Separated, LetThrough, [Next]_vars, kyc.status # "approved",
         ~ \E r \in Requests : Approve(r) /\ request[r].does.decision = "approved"
  PROVE  /\ kyc'.status # "approved"
         /\ \/ decisions' = decisions
            \/ \E d \in DecisionType :
                 /\ decisions' = Append(decisions, d)
                 /\ ~ (d.type = "manager_approval" /\ d.decision = "approved")
  <1> USE DEF Separated
  <1>1. ASSUME NEW r \in Requests, Create(r)
        PROVE  kyc'.status # "approved" /\ decisions' = decisions
    BY <1>1 DEF Create
  <1>2. ASSUME NEW r \in Requests, Update(r)
        PROVE  kyc'.status # "approved" /\ decisions' = decisions
    <2>1. /\ Commits(r, "update") /\ decisions' = decisions
          /\ WriteKyc(request[r].read, request[r].does.status, request[r].does.checks)
      BY <1>2 DEF Update
    <2>2. kyc # NoKyc /\ request[r].does \in Command /\ request[r].does.verb = "update"
      BY <2>1, OfTheCase
    <2>3. request[r].does.status \in Open
      BY <2>2 DEF Command
    <2> QED BY <2>1, <2>2, <2>3, StatusWritten DEF Changed
  <1>3. ASSUME NEW r \in Requests, Refer(r)
        PROVE  kyc'.status # "approved" /\ decisions' = decisions
    <2>1. /\ Commits(r, "refer") /\ decisions' = decisions
          /\ \/ WriteKyc(request[r].read, request[r].read.kyc.status, request[r].read.kyc.checks)
             \/ UNCHANGED kyc
      BY <1>3 DEF Refer
    <2>2. kyc # NoKyc
      BY <2>1, OfTheCase
    <2> QED BY <2>1, <2>2, StatusWritten DEF Changed
  <1>4. ASSUME NEW r \in Requests, Unrefer(r)
        PROVE  kyc'.status # "approved" /\ decisions' = decisions
    <2>1. /\ Commits(r, "unrefer") /\ decisions' = decisions
          /\ WriteKyc(request[r].read, request[r].read.kyc.status, request[r].read.kyc.checks)
      BY <1>4 DEF Unrefer
    <2>2. kyc # NoKyc
      BY <2>1, OfTheCase
    <2> QED BY <2>1, <2>2, StatusWritten DEF Changed
  <1>5. ASSUME NEW r \in Requests, NEW v \in {"review", "approve"}, NEW type,
               Commits(r, v), Decides(r, type), NEW status \in Open \cup {"rejected"},
               WriteKyc(request[r].read, status, request[r].read.kyc.checks),
               type \in {"review", "manager_approval"},
               type = "manager_approval" => request[r].does.decision # "approved"
        PROVE  /\ kyc'.status # "approved"
               /\ \E d \in DecisionType :
                    /\ decisions' = Append(decisions, d)
                    /\ ~ (d.type = "manager_approval" /\ d.decision = "approved")
    <2>1. kyc # NoKyc /\ request[r].by \in Users /\ request[r].does \in Command /\ request[r].does.verb = v
      BY <1>5, OfTheCase
    <2>2. request[r].does.decision \in Decision
      BY <1>5, <2>1 DEF Command
    <2>3. kyc'.status # "approved"
      BY <1>5, <2>1, StatusWritten DEF Changed
    <2> DEFINE d == [type |-> type, decision |-> request[r].does.decision, by |-> request[r].by]
    <2>4. d \in DecisionType /\ d.type = type /\ d.decision = request[r].does.decision
      BY <1>5, <2>1, <2>2 DEF DecisionType
    <2>5. decisions' = Append(decisions, d)
      BY <1>5 DEF Decides
    <2> HIDE DEF d
    <2> QED BY <1>5, <2>3, <2>4, <2>5
  <1>6. ASSUME NEW r \in Requests, Review(r)
        PROVE  /\ kyc'.status # "approved"
               /\ \E d \in DecisionType :
                    /\ decisions' = Append(decisions, d)
                    /\ ~ (d.type = "manager_approval" /\ d.decision = "approved")
    <2> DEFINE t == request[r].read
               status == CASE request[r].does.decision = "approved" -> t.kyc.status
                           [] request[r].does.decision = "rejected" -> "rejected"
                           [] OTHER -> "documents_pending"
    <2>1. /\ Commits(r, "review") /\ WriteKyc(t, status, t.kyc.checks) /\ Decides(r, "review")
      BY <1>6 DEF Review
    <2>2. t.kyc.status \in Open
      BY <2>1, Committing
    <2>3. status \in Open \cup {"rejected"}
      BY <2>2
    <2> HIDE DEF status
    <2> QED BY <1>5, <2>1, <2>3
  <1>7. ASSUME NEW r \in Requests, Approve(r)
        PROVE  /\ kyc'.status # "approved"
               /\ \E d \in DecisionType :
                    /\ decisions' = Append(decisions, d)
                    /\ ~ (d.type = "manager_approval" /\ d.decision = "approved")
    <2> DEFINE t == request[r].read
               status == CASE request[r].does.decision = "approved" -> "approved"
                           [] request[r].does.decision = "rejected" -> "rejected"
                           [] OTHER -> "documents_pending"
    <2>1. /\ Commits(r, "approve") /\ WriteKyc(t, status, t.kyc.checks)
          /\ Decides(r, "manager_approval") /\ request[r].does.decision # "approved"
      BY <1>7 DEF Approve
    <2>2. status \in Open \cup {"rejected"}
      BY <2>1
    <2> HIDE DEF status
    <2> QED BY <1>5, <2>1, <2>2
  <1>8. ASSUME NEW r \in Requests, Move(r)
        PROVE  kyc'.status # "approved" /\ decisions' = decisions
    BY <1>8 DEF Move
  <1>9. CASE \/ \E r \in Requests : Check(r) \/ Abandon(r)
             \/ \E d \in Documents : Verify(d) \/ AddVersion(d)
             \/ UNCHANGED vars
    BY <1>9 DEF Check, Abandon, Verify, AddVersion, rows, vars
  <1> QED BY <1>1, <1>2, <1>3, <1>4, <1>6, <1>7, <1>8, <1>9 DEF Next, Commit

LEMMA NextBacked == IInv /\ [Next]_vars => NotYetApproved' /\ ApprovalIsBacked'
  <1> SUFFICES ASSUME IInv, [Next]_vars, lost' = 0
               PROVE  /\ kyc'.status # "approved" => \A i \in DOMAIN decisions' : ~IsApproval(i)'
                      /\ kyc'.status = "approved" =>
                           /\ IsApproval(Len(decisions))'
                           /\ \A i \in 1..Len(decisions') - 1 : ~IsApproval(i)'
                           /\ kyc'.checks = Checks /\ \A p \in Purposes : checklist'[p] # None
    BY DEF NotYetApproved, ApprovalIsBacked
  <1>1. Separated /\ LetThrough /\ TypeOK /\ decisions \in Seq(DecisionType)
    BY DEF IInv, Separated, TypeOK
  <1>2. lost = 0
    <2>1. ASSUME NEW r \in Requests, Ends(r) PROVE lost = 0
      BY <1>1, <2>1, WroteToWhatItRead
    <2>2. CASE \/ \E r \in Requests : Check(r) \/ Abandon(r)
               \/ \E d \in Documents : Verify(d) \/ AddVersion(d)
               \/ UNCHANGED vars
      BY <2>2 DEF Check, Abandon, Verify, AddVersion, vars
    <2> QED BY <2>1, <2>2 DEF Next, Commit, Create, Update, Refer, Unrefer, Review, Approve, Move
  <1>3. CASE kyc.status \in Decided
    <2>1. UNCHANGED <<kyc, checklist, decisions>>
      BY <1>1, <1>3, DecidedKept
    <2> QED BY <1>2, <2>1 DEF IInv, NotYetApproved, ApprovalIsBacked, IsApproval
  <1>4. CASE kyc.status \notin Decided
    <2>1. \A i \in DOMAIN decisions : ~ IsApproval(i)
      BY <1>2, <1>4 DEF IInv, NotYetApproved
    <2>2. CASE \E r \in Requests : Approve(r) /\ request[r].does.decision = "approved"
      <3>1. PICK r \in Requests : Approve(r) /\ request[r].does.decision = "approved"
        BY <2>2
      <3> DEFINE d == [type |-> "manager_approval", decision |-> "approved", by |-> request[r].by]
      <3>2. decisions' = Append(decisions, d)
        BY <3>1 DEF Approve, Decides
      <3>3. d.type = "manager_approval" /\ d.decision = "approved"
        OBVIOUS
      <3> HIDE DEF d
      <3>4. /\ Len(decisions') = Len(decisions) + 1 /\ decisions'[Len(decisions) + 1] = d
            /\ \A i \in 1..Len(decisions) : decisions'[i] = decisions[i] /\ i \in DOMAIN decisions
            /\ Len(decisions) \in Nat
        BY <1>1, <3>2
      <3>5. IsApproval(Len(decisions))' /\ \A i \in 1..Len(decisions') - 1 : ~IsApproval(i)'
        BY <2>1, <3>3, <3>4 DEF IsApproval
      <3> QED BY <1>1, <3>1, <3>5, Approved
    <2>3. CASE ~ \E r \in Requests : Approve(r) /\ request[r].does.decision = "approved"
      <3>1. /\ kyc'.status # "approved"
            /\ \/ decisions' = decisions
               \/ \E d \in DecisionType :
                    /\ decisions' = Append(decisions, d)
                    /\ ~ (d.type = "manager_approval" /\ d.decision = "approved")
        BY <1>1, <1>4, <2>3, StaysUnapproved
      <3>2. \A i \in DOMAIN decisions' : ~IsApproval(i)'
        <4>1. CASE decisions' = decisions
          BY <2>1, <4>1 DEF IsApproval
        <4>2. ASSUME NEW d \in DecisionType, decisions' = Append(decisions, d),
                     ~ (d.type = "manager_approval" /\ d.decision = "approved")
              PROVE  \A i \in DOMAIN decisions' : ~IsApproval(i)'
          <5>1. /\ DOMAIN decisions' = 1..Len(decisions) + 1 /\ decisions'[Len(decisions) + 1] = d
                /\ \A i \in 1..Len(decisions) : decisions'[i] = decisions[i] /\ i \in DOMAIN decisions
                /\ Len(decisions) \in Nat
            BY <1>1, <4>2
          <5> QED BY <2>1, <4>2, <5>1 DEF IsApproval
        <4> QED BY <3>1, <4>1, <4>2
      <3> QED BY <3>1, <3>2
    <2> QED BY <2>2, <2>3
  <1> QED BY <1>3, <1>4

-----------------------------------------------------------------------------
(* The types, what carries the separation of duties, and what an approval    *)
(* rests on, for every number of users, requests, documents and stages.      *)
THEOREM Inductive == Spec => []IInv
  <1>1. Init => IInv
    <2>1. Init => LetThrough /\ NotYetApproved /\ ApprovalIsBacked
      BY DEF Init, LetThrough, NotYetApproved, ApprovalIsBacked, NoKyc
    <2> QED BY <2>1, InitSeparated DEF IInv
  <1>2. IInv /\ [Next]_vars => IInv'
    BY NextSeparated, NextLetThrough, NextBacked DEF IInv, Separated
  <1> QED BY <1>1, <1>2, PTL DEF Spec

(* Requester, reviewer and approving manager are three users, whatever       *)
(* requests run beside each other and however stale their reads.             *)
THEOREM SeparationOfDuties == Spec => []FourEyes
  <1>1. IInv => FourEyes
    BY DEF IInv, Separated
  <1> QED BY <1>1, Inductive, PTL

(* As long as no commit wrote over newer rows, an approved case has one      *)
(* approval, its last decision, and was complete when it was approved        *)
(* (decide_kyc, _validate_kyc_approval).                                     *)
THEOREM ApprovalsAreBacked == Spec => []ApprovalIsBacked
  <1>1. IInv => ApprovalIsBacked
    BY DEF IInv
  <1> QED BY <1>1, Inductive, PTL

(* And a decided case is left as it is, with its checklist, by every command *)
(* that was checked before ("A decided KYC case is immutable.").            *)
THEOREM DecidedIsFinal == Spec => DecidedStays
  <1>1. IInv /\ [Next]_vars =>
          [kyc.status \in Decided /\ lost' = 0 =>
             kyc'.status = kyc.status /\ checklist' = checklist]_vars
    BY DecidedKept DEF IInv, Separated
  <1> QED BY <1>1, Inductive, PTL DEF Spec, DecidedStays
===============================================================================
