---------------------------- MODULE RecordScreens ----------------------------
(***************************************************************************)
(* One record of the server and the operators who work on it from their    *)
(* screens.  Each sees a copy, which a refetch renews (ServerCache shows    *)
(* when), and acts on what it shows: presses a control, or opens a form or  *)
(* a dialog that asks to confirm, types and sends.  A handler reads the     *)
(* row, checks the permission, the state and, when the request names one,   *)
(* the version, and commits later: only some handlers lock the row between. *)
(*                                                                          *)
(* The forms of the console differ in five ways, the fields of a verb:      *)
(*   draft    copied   every field is copied when the form opens            *)
(*            followed only typed fields are held, the rest show the copy   *)
(*            dropped  followed, and cleared when the save is sent          *)
(*            reseeded copied, and copied again when the copy changes       *)
(*            press    no form: a control                                   *)
(*   version  the row_version sent: opened, of what the form shows beneath  *)
(*            the typing; shown, of the newest copy; or none                *)
(*   body     whole: every field is sent; touched: the typed ones; none     *)
(*   frame    what takes the open form away                                 *)
(*            own      nothing but the operator                             *)
(*            listed   a copy that shows the record gone                    *)
(*            live     a copy by which it is not offered                    *)
(*            kept     a failed refetch, after which it is there again on   *)
(*                     the row it was opened with                           *)
(*            page     a failed refetch, a record that is gone              *)
(*            edit     a failed refetch, a copy by which it is not offered  *)
(***************************************************************************)
EXTENDS Integers, FiniteSets

CONSTANTS
  Screens,     \* Screens[kind]: its [starts, drifts, verbs, locked]
  Operators,
  Fields,      \* of the record
  MaxVersion,  \* bound on the versions requests are sent from and find
  MaxTyped,    \* bound on the fields typed in one form
  Unguarded,   \* <<record, verb>>: sent where the server refuses, stated by hand
  Overwriting, \* <<record, verb>>: rolls back fields nobody typed
  Blind,       \* <<record, verb>>: replaces values the form did not show
  Forgetful    \* <<record, verb, cause>>: drops what was typed

ASSUME VersionBound == MaxVersion \in Nat \ {0}

Absent == "absent"
Unversioned == 0
NoVerb == [does |-> "none", draft |-> "none", frame |-> "none"]
Kinds == DOMAIN Screens
Codes(k) == (UNION {{v.shows, v.needs} : v \in Screens[k].verbs}) \ {"none"}
States(k) ==
  LET s == Screens[k]
  IN  s.starts \cup {e[2] : e \in s.drifts} \cup UNION {v.to : v \in s.verbs}

VARIABLES
  kind,    \* of record observed
  record,  \* the server's row: [status, version, value]
  held,    \* held[o]: the copy o's screens show
  may,     \* may[o]: the permission codes of o
  form,    \* form[o]: [verb, base, typed, sent], base the record it shows beneath
           \* what was typed, sent that it awaits an answer
  call,    \* call[o]: [phase, verb, version, body, seen], seen what it was sent
           \* from; and once checked, read: the row its handler found
  raced    \* history: a handler committed over another's commit it had not read

vars == <<kind, record, held, may, form, call, raced>>

RecordType(k) ==
  [status : States(k), version : 1..MaxVersion + 1, value : [Fields -> {"was"} \cup Operators]]

NoForm == [verb |-> NoVerb, base |-> [status |-> "none"], typed |-> {}, sent |-> FALSE]
(* The page shows the error of a refetch in place of the form it took away.  *)
ErrorState == [verb |-> NoVerb, base |-> [status |-> "error"], typed |-> {}, sent |-> FALSE]
NoCall == [phase |-> "none"]
Accepted == [phase |-> "accepted"]
Refused == [phase |-> "refused"]
NoBody == [f \in Fields |-> Absent]

FormType(k) ==
  [verb : Screens[k].verbs, base : RecordType(k), typed : SUBSET Fields, sent : BOOLEAN]
BodyType == [Fields -> {"was", Absent} \cup Operators]
CallType(k) ==
  [phase : {"sent"}, verb : Screens[k].verbs, version : 0..MaxVersion + 1, body : BodyType,
   seen : RecordType(k)]
CheckedType(k) ==
  [phase : {"checked"}, verb : Screens[k].verbs, version : 0..MaxVersion + 1, body : BodyType,
   seen : RecordType(k), read : [status : States(k), version : 1..MaxVersion,
                                 value : [Fields -> {"was"} \cup Operators]]]

TypeOK ==
  /\ kind \in Kinds
  /\ record \in RecordType(kind)
  /\ held \in [Operators -> RecordType(kind)]
  /\ may \in [Operators -> SUBSET Codes(kind)]
  /\ form \in [Operators -> {NoForm, ErrorState} \cup FormType(kind)]
  /\ call \in [Operators ->
               {NoCall, Accepted, Refused} \cup CallType(kind) \cup CheckedType(kind)]
  /\ raced \in BOOLEAN

Init ==
  /\ kind \in Kinds
  /\ \E s \in Screens[kind].starts :
       record = [status |-> s, version |-> 1, value |-> [f \in Fields |-> "was"]]
  /\ held = [o \in Operators |-> record]
  /\ \E o \in Operators, lacks \in SUBSET Codes(kind) :
       /\ Cardinality(lacks) <= 1
       /\ may = [p \in Operators |-> IF p = o THEN Codes(kind) \ lacks ELSE Codes(kind)]
  /\ form = [o \in Operators |-> NoForm]
  /\ call = [o \in Operators |-> NoCall]
  /\ raced = FALSE

-----------------------------------------------------------------------------
(* The control is rendered, and enabled, for a record seen in this state.    *)
Offered(o, v, seen) ==
  /\ seen.status \in v.offered
  /\ v.shows \in may[o] \cup {"none"}

(* The row a dialog was seeded from, or the screen's newest copy.            *)
Row(o) == IF form[o].verb.version = "opened" THEN form[o].base ELSE held[o]

IsOpen(f) == f \notin {NoForm, ErrorState}

(* The screen goes on showing an open form over a copy in this state.        *)
Lasts(v, status) ==
  /\ v.frame \in {"listed", "page"} => status # "gone"
  /\ v.frame \in {"live", "edit"} => status \in v.offered

(* The newest copy shows beneath the typing, or replaces it where an effect  *)
(* on the copy sets the fields; a copied form is left as it is.              *)
Shown(f, copy) ==
  IF f.verb.draft = "copied" THEN f
  ELSE [f EXCEPT !.base = copy,
                 !.typed = IF f.verb.draft = "reseeded" /\ f.base # copy THEN {} ELSE @]

(* Mutant: the copy changes under an open form without reaching it, and the  *)
(* form starts over.                                                         *)
Refetch_StartsOver(o) ==
  /\ held[o] # record
  /\ held' = [held EXCEPT ![o] = record]
  /\ form' = [form EXCEPT ![o].typed = {}]
  /\ UNCHANGED <<kind, record, may, call, raced>>

(* An answer: the copy is the record again, and what an error had taken the  *)
(* place of is rendered, without the form.                                   *)
Refetch(o) ==
  /\ held[o] # record \/ form[o] = ErrorState
  /\ held' = [held EXCEPT ![o] = record]
  /\ form' = [form EXCEPT ![o] =
       IF IsOpen(@) /\ Lasts(@.verb, record.status) THEN Shown(@, record) ELSE NoForm]
  /\ UNCHANGED <<kind, record, may, call, raced>>

(* isError keeps the data and renders an ErrorState in place of the panel or *)
(* page: an open form is unmounted.  A row the panel keeps opens it again.   *)
RefetchFails(o) ==
  /\ form[o].verb.frame \in {"kept", "page", "edit"}
  /\ form' = [form EXCEPT ![o] =
       IF @.verb.frame = "kept" THEN [@ EXCEPT !.typed = {}, !.sent = FALSE] ELSE ErrorState]
  /\ UNCHANGED <<kind, record, held, may, call, raced>>

Open(o) ==
  /\ form[o] = NoForm /\ call[o] = NoCall
  /\ \E v \in Screens[kind].verbs :
       /\ v.draft # "press" /\ Offered(o, v, held[o])
       /\ form' = [form EXCEPT ![o] =
            [verb |-> v, base |-> held[o], typed |-> {}, sent |-> FALSE]]
  /\ UNCHANGED <<kind, record, held, may, call, raced>>

Type(o) ==
  /\ IsOpen(form[o]) /\ form[o].verb.body # "none" /\ call[o] = NoCall
  /\ Cardinality(form[o].typed) < MaxTyped
  /\ \E f \in Fields \ form[o].typed : form' = [form EXCEPT ![o].typed = @ \cup {f}]
  /\ UNCHANGED <<kind, record, held, may, call, raced>>

Discard(o) ==
  /\ IsOpen(form[o]) /\ call[o] = NoCall
  /\ form' = [form EXCEPT ![o] = NoForm]
  /\ UNCHANGED <<kind, record, held, may, call, raced>>

(* What a save sends.                                                        *)
Body(o) ==
  [f \in Fields |-> IF f \in form[o].typed THEN o
                    ELSE IF form[o].verb.body = "whole" THEN form[o].base.value[f]
                    ELSE Absent]
VersionSent(v, row) == IF v.version = "none" THEN Unversioned ELSE row.version

(* An open form or dialog is sent whatever its copy shows by now: only the   *)
(* control that opened it was judged.                                        *)
Save(o) ==
  /\ IsOpen(form[o]) /\ call[o] = NoCall
  /\ Row(o).version <= MaxVersion
  /\ call' = [call EXCEPT ![o] =
       [phase |-> "sent", verb |-> form[o].verb, version |-> VersionSent(form[o].verb, Row(o)),
        body |-> Body(o), seen |-> form[o].base]]
  /\ form' = [form EXCEPT ![o].sent = TRUE,
                          ![o].typed = IF form[o].verb.draft = "dropped" THEN {} ELSE @]
  /\ UNCHANGED <<kind, record, held, may, raced>>

(* A control that asks nothing: buttons are disabled while the answer is     *)
(* awaited.                                                                  *)
Press(o) ==
  /\ form[o] = NoForm /\ call[o] = NoCall
  /\ held[o].version <= MaxVersion
  /\ \E v \in Screens[kind].verbs :
       /\ v.draft = "press" /\ Offered(o, v, held[o])
       /\ call' = [call EXCEPT ![o] =
            [phase |-> "sent", verb |-> v, version |-> VersionSent(v, held[o]),
             body |-> NoBody, seen |-> held[o]]]
  /\ UNCHANGED <<kind, record, held, may, form, raced>>

-----------------------------------------------------------------------------
(* The handler's conditions, on the row it read.                             *)
Accepts(o) ==
  LET v == call[o].verb
  IN  /\ v.needs \in may[o]
      /\ record.status \in v.accepted
      /\ call[o].version \in {Unversioned, record.version}

Checked(c, row) ==
  [phase |-> "checked", verb |-> c.verb, version |-> c.version, body |-> c.body,
   seen |-> c.seen, read |-> row]

(* The row is read by a plain SELECT and judged in memory; with_for_update   *)
(* waits for a transaction that holds it.                                    *)
Check(o) ==
  /\ call[o].phase = "sent"
  /\ record.version <= MaxVersion
  /\ Screens[kind].locked => \A p \in Operators : call[p].phase # "checked"
  /\ call' = [call EXCEPT ![o] = IF Accepts(o) THEN Checked(@, record) ELSE Refused]
  /\ UNCHANGED <<kind, record, held, may, form, raced>>

(* The UPDATE names the row alone, and sets the columns that differ from     *)
(* what was read; the version is one more than the one read.  A deleted row  *)
(* stays deleted.                                                            *)
Written(c, s) ==
  [status |-> IF s = c.read.status \/ record.status = "gone" THEN record.status ELSE s,
   version |-> c.read.version + 1,
   value |-> [f \in Fields |-> IF c.body[f] \in {Absent, c.read.value[f]} THEN record.value[f]
                               ELSE c.body[f]]]

Commit(o) ==
  /\ call[o].phase = "checked"
  /\ call' = [call EXCEPT ![o] = Accepted]
  /\ \E s \in IF call[o].verb.to = {} THEN {call[o].read.status} ELSE call[o].verb.to :
       record' = Written(call[o], s)
  /\ raced' = (raced \/ record.version # call[o].read.version)
  /\ UNCHANGED <<kind, held, may, form>>

Heard(f) == IF f.sent THEN [f EXCEPT !.sent = FALSE] ELSE f

(* Success closes the form that asked, if it is there still; an error is     *)
(* shown in it.                                                              *)
Hear(o) ==
  /\ call[o].phase \in {"accepted", "refused"}
  /\ call' = [call EXCEPT ![o] = NoCall]
  /\ form' = [form EXCEPT ![o] =
       IF call[o].phase = "accepted" /\ @.sent THEN NoForm ELSE Heard(@)]
  /\ UNCHANGED <<kind, record, held, may, raced>>

(* The request, its transaction or its answer is lost: for the screen an     *)
(* error like another.                                                       *)
Lose(o) ==
  /\ call[o] # NoCall
  /\ call' = [call EXCEPT ![o] = NoCall]
  /\ form' = [form EXCEPT ![o] = Heard(@)]
  /\ UNCHANGED <<kind, record, held, may, raced>>

(* Workers and webhooks move the status and leave row_version alone.         *)
Drift ==
  /\ \E e \in Screens[kind].drifts :
       record.status = e[1] /\ record' = [record EXCEPT !.status = e[2]]
  /\ UNCHANGED <<kind, held, may, form, call, raced>>

Next ==
  \/ Drift
  \/ \E o \in Operators :
       Refetch(o) \/ RefetchFails(o) \/ Open(o) \/ Type(o) \/ Discard(o) \/ Save(o) \/ Press(o)
         \/ Check(o) \/ Commit(o) \/ Hear(o) \/ Lose(o)

Spec == Init /\ [][Next]_vars

-----------------------------------------------------------------------------
Of(o) == <<kind, call[o].verb.does>>
Refuses(o) == call[o].phase = "sent" /\ call'[o].phase = "refused"
Commits(o) == call[o].phase = "checked" /\ call'[o].phase = "accepted"

(* A request sent from what is still the record is never refused: the        *)
(* console sends only what the server accepts, from a dialog left open over  *)
(* a newer copy too, so an operator meets an error only when somebody else   *)
(* was first and his screen did not show it yet.                             *)
OffersAreAccepted ==
  [][\A o \in Operators : Refuses(o) =>
       raced \/ call[o].seen # record \/ Of(o) \in Unguarded]_vars

(* A save never undoes another's change to a field its sender did not type   *)
(* in: a form that sends every field is refused when it is out of date, and  *)
(* of two handlers that read one version the later writes only what differs  *)
(* from it.  From then on the version no longer tells the two records apart. *)
UntouchedStays ==
  [][\A o \in Operators : Commits(o) =>
       \/ raced
       \/ \A f \in Fields : record'.value[f] \in {record.value[f], o}
       \/ Of(o) \in Overwriting]_vars

(* A save replaces only values its form was showing, but for a handler that  *)
(* commits over one it did not read: no unlocked comparison prevents that.   *)
SeenBeforeReplaced ==
  [][\A o \in Operators : Commits(o) =>
       \/ raced'
       \/ \A f \in Fields : record'.value[f] # record.value[f] =>
                              record.value[f] = call[o].seen.value[f]
       \/ Of(o) \in Blind]_vars

(* What takes away what o typed: sending it, a newer copy, or a failed       *)
(* refetch.                                                                  *)
Cause(o) == IF call'[o] # call[o] THEN "save" ELSE IF held'[o] # held[o] THEN "copy" ELSE "error"

(* What was typed stays in the form until it is saved or discarded or the    *)
(* record is gone: neither a refused save, nor another's change, nor a       *)
(* failed refetch takes it away.                                             *)
TypedSurvives ==
  [][\A o \in Operators :
       ~ (form[o].typed \subseteq form'[o].typed) =>
         \/ form'[o] = NoForm /\ held'[o] = held[o]
         \/ call[o].phase = "accepted"
         \/ held'[o].status = "gone"
         \/ <<kind, form[o].verb.does, Cause(o)>> \in Forgetful]_vars

-----------------------------------------------------------------------------
(* The rules by which a verb keeps to the four properties, whatever the      *)
(* operators do at once: a screen has to break one of them to be listed.     *)

(* The request names the version of what the form shows beneath the typing.  *)
SentAsShown(v) == v.version # "none" /\ (v.draft = "copied" => v.version = "opened")
(* A form that follows the copy is not there over a state in which it would  *)
(* not be opened.                                                            *)
Follows(v) == v.draft \notin {"press", "copied"}
OfferedAsShown(k, v) ==
  Follows(v) => \A s \in States(k) : Lasts(v, s) => s \in v.offered

(* Shown by the handler's own conditions, to those the handler lets through. *)
Guarded(k, v) ==
  /\ v.offered \subseteq v.accepted
  /\ v.shows = v.needs /\ v.needs # "none"
  /\ OfferedAsShown(k, v)
(* Fields nobody typed are left out, or were those of the version sent.      *)
Sparing(k, v) == v.body # "whole" \/ SentAsShown(v)
Sighted(k, v) == v.body = "none" \/ SentAsShown(v)
(* Nothing takes the typing away for this cause.                             *)
Keeping(v, cause) ==
  \/ v.body = "none"
  \/ cause = "save" /\ v.draft # "dropped"
  \/ cause = "copy" /\ v.draft # "reseeded" /\ v.frame \notin {"live", "edit"}
  \/ cause = "error" /\ v.frame \notin {"kept", "page", "edit"}

ButFor(Rule(_, _), listed) ==
  \A k \in Kinds : \A v \in Screens[k].verbs : <<k, v.does>> \in listed \/ Rule(k, v)
Keeps(k, v) ==
  \A cause \in {"save", "copy", "error"} :
    <<k, v.does, cause>> \in Forgetful \/ Keeping(v, cause)

(* A copy is an earlier record, and tells by its version whether it still is *)
(* the record but for its status.                                            *)
Past(c) ==
  /\ c.version <= record.version
  /\ c.version = record.version => c.value = record.value

(* What an open form is, whatever the handlers do.                           *)
FormIsOpen(o) ==
  IsOpen(form[o]) =>
    LET v == form[o].verb
    IN  /\ v.draft # "press" /\ v.shows \in may[o] \cup {"none"}
        /\ v.body = "none" => form[o].typed = {}
        /\ Follows(v) => form[o].base = held[o]
        /\ \/ form[o].base.status \in v.offered
           \/ Follows(v) /\ Lasts(v, form[o].base.status)

(* While no handler has committed over another, versions tell records apart. *)
FormsFollow(o) ==
  IsOpen(form[o]) =>
    Past(form[o].base) /\ form[o].base.version <= held[o].version

UnderWay(o) == call[o].phase \in {"sent", "checked"}

(* What a request under way was sent from, as its verb has it.               *)
CallIsSent(o) ==
  UnderWay(o) =>
    LET c == call[o]
        v == c.verb
    IN  /\ v.shows \in may[o] \cup {"none"}
        /\ \/ c.seen.status \in v.offered
           \/ Follows(v) /\ Lasts(v, c.seen.status)
        /\ SentAsShown(v) => c.version = c.seen.version
        /\ \A f \in Fields :
             /\ c.body[f] \in {Absent, o, c.seen.value[f]}
             /\ v.body # "whole" => c.body[f] \in {Absent, o}
             /\ v.body = "none" => c.body[f] = Absent

CallsAreSeen(o) ==
  UnderWay(o) =>
    LET c == call[o]
    IN  /\ Past(c.seen) /\ c.version <= record.version
        /\ c.version = Unversioned \/ c.seen.version <= c.version
        /\ c.phase = "checked" =>
             /\ Past(c.read)
             /\ SentAsShown(c.verb) => c.seen.value = c.read.value

(* with_for_update: what was read is what is written over.                   *)
LocksHold ==
  Screens[kind].locked =>
    /\ ~ raced
    /\ \A o \in Operators : call[o].phase = "checked" =>
         /\ call[o].read.version = record.version
         /\ \A p \in Operators : call[p].phase = "checked" => p = o

(* What the versions tell of one operator's screens.                         *)
Told(o) == Past(held[o]) /\ FormsFollow(o) /\ CallsAreSeen(o)

IInv ==
  /\ TypeOK /\ LocksHold
  /\ \A o \in Operators : FormIsOpen(o) /\ CallIsSent(o)
  /\ raced \/ \A o \in Operators : Told(o)
==============================================================================
