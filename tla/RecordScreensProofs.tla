---------------------------- MODULE RecordScreensProofs ----------------------------
(***************************************************************************)
(* The four properties of the record screens, for any tables: a verb that  *)
(* keeps the rule of a property has the property, whatever the operators   *)
(* and the handlers do at once.  The invariant has two parts.  Whatever    *)
(* happens, an open form is one its verb opens and a request under way is   *)
(* what its form sends.  And until a handler commits over a row it did not *)
(* read, every copy, form and request is of the record's past and equal    *)
(* versions hold equal values; a record whose handlers lock its row never  *)
(* comes to that.  Then that the console's own tables keep the rules, but  *)
(* for the verbs their lists name.                                         *)
(***************************************************************************)
EXTENDS MCRecordScreens, TLAPS

(* Time passes over the record: a version is never taken back, and while it  *)
(* stays so does what is under it.                                           *)
Moves ==
  /\ record.version <= record'.version
  /\ record'.version = record.version => record'.value = record.value

LEMMA OpenForm ==
  ASSUME TypeOK, NEW o \in Operators, IsOpen(form[o])
  PROVE  form[o] \in FormType(kind)
BY DEF TypeOK, IsOpen

LEMMA CallIs ==
  ASSUME TypeOK, NEW o \in Operators
  PROVE  /\ call[o].phase = "sent" => call[o] \in CallType(kind)
         /\ call[o].phase = "checked" => call[o] \in CheckedType(kind)
<1>1. call[o] \in {NoCall, Accepted, Refused} \cup CallType(kind) \cup CheckedType(kind)
  BY DEF TypeOK
<1> QED  BY <1>1 DEF NoCall, Accepted, Refused, CallType, CheckedType

LEMMA Versions ==
  ASSUME TypeOK, NEW o \in Operators
  PROVE  /\ record.version \in Nat /\ held[o].version \in Nat
         /\ IsOpen(form[o]) => form[o].base.version \in Nat
         /\ UnderWay(o) => call[o].seen.version \in Nat /\ call[o].version \in Nat
         /\ call[o].phase = "checked" => call[o].read.version \in Nat
<1>1. \A r \in RecordType(kind) : r.version \in Nat
  BY VersionBound DEF RecordType
<1>2. record \in RecordType(kind) /\ held[o] \in RecordType(kind)
  BY DEF TypeOK
<1>3. ASSUME IsOpen(form[o]) PROVE form[o].base.version \in Nat
  <2>1. form[o].base \in RecordType(kind)
    BY <1>3, OpenForm DEF FormType
  <2> QED  BY <2>1, <1>1
<1>4. ASSUME UnderWay(o) PROVE call[o].seen.version \in Nat /\ call[o].version \in Nat
  <2>1. call[o].seen \in RecordType(kind) /\ call[o].version \in 0..MaxVersion + 1
    BY <1>4, CallIs DEF UnderWay, CallType, CheckedType
  <2> QED  BY <2>1, <1>1, VersionBound
<1>5. ASSUME call[o].phase = "checked" PROVE call[o].read.version \in Nat
  <2>1. call[o].read.version \in 1..MaxVersion
    BY <1>5, CallIs DEF CheckedType
  <2> QED  BY <2>1, VersionBound
<1> QED  BY <1>1, <1>2, <1>3, <1>4, <1>5

LEMMA VersionAfter == TypeOK' => record'.version \in Nat
BY VersionBound DEF TypeOK, RecordType
-----------------------------------------------------------------------------
(* Types, one lemma for each action that makes a value.                      *)

LEMMA ARecord ==
  ASSUME NEW k, NEW s, NEW n \in 1..MaxVersion + 1,
         NEW w \in [Fields -> {"was"} \cup Operators],
         \/ s \in Screens[k].starts
         \/ \E e \in Screens[k].drifts : s = e[2]
         \/ \E v \in Screens[k].verbs : s \in v.to
  PROVE  [status |-> s, version |-> n, value |-> w] \in RecordType(k)
BY DEF RecordType, States

LEMMA InitTypes == Init => TypeOK
<1> SUFFICES ASSUME Init PROVE TypeOK
  OBVIOUS
<1>1. kind \in Kinds
  BY DEF Init
<1>2. record \in RecordType(kind)
  <2>1. PICK s \in Screens[kind].starts :
           record = [status |-> s, version |-> 1, value |-> [f \in Fields |-> "was"]]
    BY DEF Init
  <2>2. 1 \in 1..MaxVersion + 1
    BY VersionBound
  <2> QED  BY <2>1, <2>2, ARecord
<1>3. may \in [Operators -> SUBSET Codes(kind)]
  <2>1. PICK o \in Operators, lacks \in SUBSET Codes(kind) :
           may = [p \in Operators |-> IF p = o THEN Codes(kind) \ lacks ELSE Codes(kind)]
    BY DEF Init
  <2> QED  BY <2>1
<1> QED  BY <1>1, <1>2, <1>3 DEF Init, TypeOK

LEMMA RefetchTypes == ASSUME TypeOK, NEW o \in Operators, Refetch(o) PROVE TypeOK'
<1>1. ASSUME IsOpen(form[o]) PROVE Shown(form[o], record) \in FormType(kind)
  BY <1>1, OpenForm DEF Shown, FormType, TypeOK
<1>2. form' \in [Operators -> {NoForm, ErrorState} \cup FormType(kind)]
  BY <1>1 DEF Refetch, TypeOK
<1> QED  BY <1>2 DEF Refetch, TypeOK

LEMMA RefetchFailsTypes ==
  ASSUME TypeOK, NEW o \in Operators, RefetchFails(o) PROVE TypeOK' /\ IsOpen(form[o])
<1>1. IsOpen(form[o])
  BY DEF RefetchFails, IsOpen, NoForm, ErrorState, NoVerb
<1>2. [form[o] EXCEPT !.typed = {}, !.sent = FALSE] \in FormType(kind)
  BY <1>1, OpenForm DEF FormType
<1> QED  BY <1>1, <1>2 DEF RefetchFails, TypeOK

LEMMA OpenTypes == ASSUME TypeOK, NEW o \in Operators, Open(o) PROVE TypeOK'
<1>1. PICK v \in Screens[kind].verbs :
         form' = [form EXCEPT ![o] =
           [verb |-> v, base |-> held[o], typed |-> {}, sent |-> FALSE]]
  BY DEF Open
<1>2. [verb |-> v, base |-> held[o], typed |-> {}, sent |-> FALSE] \in FormType(kind)
  BY DEF FormType, TypeOK
<1> QED  BY <1>1, <1>2 DEF Open, TypeOK

LEMMA TypeTypes == ASSUME TypeOK, NEW o \in Operators, Type(o) PROVE TypeOK'
<1>1. PICK f \in Fields : form' = [form EXCEPT ![o].typed = @ \cup {f}]
  BY DEF Type
<1>2. form[o] \in FormType(kind)
  BY OpenForm DEF Type
<1>3. [form[o] EXCEPT !.typed = @ \cup {f}] \in FormType(kind)
  BY <1>2 DEF FormType
<1> QED  BY <1>1, <1>3 DEF Type, TypeOK

LEMMA BodyTypes ==
  ASSUME TypeOK, NEW o \in Operators, IsOpen(form[o])
  PROVE  /\ form[o].base \in RecordType(kind) /\ Row(o) \in RecordType(kind)
         /\ Body(o) \in BodyType
<1>1. form[o].base \in RecordType(kind) /\ held[o] \in RecordType(kind)
  BY OpenForm DEF FormType, TypeOK
<1>2. \A f \in Fields : form[o].base.value[f] \in {"was"} \cup Operators
  BY <1>1 DEF RecordType
<1> QED  BY <1>1, <1>2 DEF Row, Body, BodyType

LEMMA SentTypes ==
  ASSUME NEW v, NEW r \in RecordType(kind)
  PROVE  VersionSent(v, r) \in 0..MaxVersion + 1
BY VersionBound DEF VersionSent, Unversioned, RecordType

LEMMA SaveTypes == ASSUME TypeOK, NEW o \in Operators, Save(o) PROVE TypeOK'
<1> DEFINE sent == [phase |-> "sent", verb |-> form[o].verb,
                    version |-> VersionSent(form[o].verb, Row(o)),
                    body |-> Body(o), seen |-> form[o].base]
<1>1. form[o] \in FormType(kind) /\ IsOpen(form[o])
  BY OpenForm DEF Save
<1>2. sent \in CallType(kind)
  <2>1. form[o].verb \in Screens[kind].verbs
    BY <1>1 DEF FormType
  <2> QED  BY <1>1, <2>1, BodyTypes, SentTypes DEF CallType
<1>3. call' = [call EXCEPT ![o] = sent]
  BY DEF Save
<1>4. form' \in [Operators -> {NoForm, ErrorState} \cup FormType(kind)]
  BY <1>1 DEF Save, TypeOK, FormType
<1> HIDE DEF sent
<1> QED  BY <1>2, <1>3, <1>4 DEF Save, TypeOK

LEMMA PressTypes == ASSUME TypeOK, NEW o \in Operators, Press(o) PROVE TypeOK'
<1>1. PICK v \in Screens[kind].verbs : call' = [call EXCEPT ![o] =
            [phase |-> "sent", verb |-> v, version |-> VersionSent(v, held[o]),
             body |-> NoBody, seen |-> held[o]]]
  BY DEF Press
<1>2. held[o] \in RecordType(kind) /\ NoBody \in BodyType
  BY DEF TypeOK, NoBody, BodyType
<1>3. [phase |-> "sent", verb |-> v, version |-> VersionSent(v, held[o]),
       body |-> NoBody, seen |-> held[o]] \in CallType(kind)
  BY <1>2, SentTypes DEF CallType
<1> QED  BY <1>1, <1>3 DEF Press, TypeOK

LEMMA CheckTypes == ASSUME TypeOK, NEW o \in Operators, Check(o) PROVE TypeOK'
<1>1. call[o] \in CallType(kind)
  BY CallIs DEF Check
<1>2. record.version \in 1..MaxVersion
  BY VersionBound DEF Check, TypeOK, RecordType
<1>3. Checked(call[o], record) \in CheckedType(kind)
  BY <1>1, <1>2 DEF Checked, CallType, CheckedType, TypeOK, RecordType
<1>4. call' \in [Operators ->
                   {NoCall, Accepted, Refused} \cup CallType(kind) \cup CheckedType(kind)]
  BY <1>3 DEF Check, TypeOK
<1> QED  BY <1>4 DEF Check, TypeOK

(* A commit writes a record, one version on from the one its handler read.   *)
LEMMA WrittenIs ==
  ASSUME TypeOK, NEW o \in Operators, Commit(o)
  PROVE  \E s : record' = Written(call[o], s) /\ record' \in RecordType(kind)
<1> DEFINE c == call[o]
           value == [f \in Fields |-> IF c.body[f] \in {Absent, c.read.value[f]}
                                      THEN record.value[f] ELSE c.body[f]]
<1>1. c \in CheckedType(kind)
  BY CallIs DEF Commit
<1>2. PICK s \in IF c.verb.to = {} THEN {c.read.status} ELSE c.verb.to : record' = Written(c, s)
  BY DEF Commit
<1>3. s \in States(kind) /\ record.status \in States(kind)
  <2>1. record.status \in States(kind)
    BY DEF TypeOK, RecordType
  <2>2. c.verb \in Screens[kind].verbs /\ c.read.status \in States(kind)
    BY <1>1 DEF CheckedType
  <2> QED  BY <1>2, <2>1, <2>2 DEF States
<1>4. c.read.version + 1 \in 1..MaxVersion + 1
  <2>1. c.read.version \in 1..MaxVersion
    BY <1>1 DEF CheckedType
  <2> QED  BY <2>1, VersionBound
<1>5. value \in [Fields -> {"was"} \cup Operators]
  <2>1. c.body \in BodyType /\ record.value \in [Fields -> {"was"} \cup Operators]
    BY <1>1 DEF CheckedType, TypeOK, RecordType
  <2> QED  BY <2>1 DEF BodyType
<1>6. Written(c, s) = [status |-> IF s = c.read.status \/ record.status = "gone"
                                  THEN record.status ELSE s,
                       version |-> c.read.version + 1, value |-> value]
  BY DEF Written
<1> HIDE DEF c, value
<1>7. Written(c, s) \in RecordType(kind)
  BY <1>3, <1>4, <1>5, <1>6 DEF RecordType
<1> QED  BY <1>2, <1>7 DEF c

LEMMA CommitTypes == ASSUME TypeOK, NEW o \in Operators, Commit(o) PROVE TypeOK'
<1>1. record' \in RecordType(kind)
  BY WrittenIs
<1>2. raced' \in BOOLEAN
  BY DEF Commit, TypeOK
<1>3. call' \in [Operators ->
                   {NoCall, Accepted, Refused} \cup CallType(kind) \cup CheckedType(kind)]
  BY DEF Commit, TypeOK
<1> QED  BY <1>1, <1>2, <1>3 DEF Commit, TypeOK

LEMMA DriftTypes == ASSUME TypeOK, Drift PROVE TypeOK'
<1>1. PICK e \in Screens[kind].drifts : record' = [record EXCEPT !.status = e[2]]
  BY DEF Drift
<1>2. record' = [status |-> e[2], version |-> record.version, value |-> record.value]
  BY <1>1 DEF TypeOK, RecordType
<1>3. record.version \in 1..MaxVersion + 1 /\ record.value \in [Fields -> {"was"} \cup Operators]
  BY DEF TypeOK, RecordType
<1>4. record' \in RecordType(kind)
  BY <1>2, <1>3, ARecord
<1> QED  BY <1>4 DEF Drift, TypeOK

LEMMA CloseTypes ==
  ASSUME TypeOK, NEW o \in Operators, Discard(o) \/ Hear(o) \/ Lose(o) PROVE TypeOK'
<1>1. Heard(form[o]) \in {NoForm, ErrorState} \cup FormType(kind)
  <2>1. CASE IsOpen(form[o])
    BY <2>1, OpenForm DEF FormType, Heard
  <2>2. CASE ~ IsOpen(form[o])
    BY <2>2 DEF IsOpen, NoForm, ErrorState, Heard
  <2> QED  BY <2>1, <2>2
<1>2. form' \in [Operators -> {NoForm, ErrorState} \cup FormType(kind)]
  BY <1>1 DEF Discard, Hear, Lose, TypeOK
<1> QED  BY <1>2 DEF Discard, Hear, Lose, TypeOK

LEMMA NextTypes == TypeOK /\ [Next]_vars => TypeOK'
<1> SUFFICES ASSUME TypeOK, [Next]_vars PROVE TypeOK'
  OBVIOUS
<1>1. CASE UNCHANGED vars
  BY <1>1 DEF vars, TypeOK
<1>2. CASE Drift
  BY <1>2, DriftTypes
<1> QED
  BY <1>1, <1>2, RefetchTypes, RefetchFailsTypes, OpenTypes, TypeTypes, SaveTypes, PressTypes,
     CheckTypes, CommitTypes, CloseTypes
  DEF Next
-----------------------------------------------------------------------------
(* Of the invariant: who does not act keeps what held of him, whatever the   *)
(* others do to the record.                                                  *)

(* What an open form and a request under way are, by their verbs.            *)
Made(o) == FormIsOpen(o) /\ CallIsSent(o)

LEMMA PastStays ==
  ASSUME TypeOK, TypeOK', Moves, NEW r, r.version \in Nat, Past(r)
  PROVE  (Past(r))'
<1>1. record.version \in Nat /\ record'.version \in Nat
  BY VersionBound, VersionAfter DEF TypeOK, RecordType
<1> QED  BY <1>1 DEF Past, Moves

LEMMA Still == ASSUME TypeOK, record' = record PROVE Moves
BY VersionBound DEF Moves, TypeOK, RecordType

LEMMA FormStays ==
  ASSUME TypeOK, TypeOK', NEW o \in Operators, FormsFollow(o), Moves,
         form'[o] = form[o], held'[o] = held[o]
  PROVE  FormsFollow(o)'
<1> SUFFICES ASSUME IsOpen(form[o])  PROVE FormsFollow(o)'
  BY DEF FormsFollow
<1>1. form[o].base.version \in Nat /\ record.version \in Nat /\ record'.version \in Nat
  BY Versions, VersionAfter
<1> QED  BY <1>1 DEF FormsFollow, Past, Moves

LEMMA CallStays ==
  ASSUME TypeOK, TypeOK', NEW o \in Operators, CallsAreSeen(o), Moves, call'[o] = call[o]
  PROVE  CallsAreSeen(o)'
<1> SUFFICES ASSUME UnderWay(o)  PROVE CallsAreSeen(o)'
  BY DEF CallsAreSeen, UnderWay
<1>1. /\ call[o].seen.version \in Nat /\ call[o].version \in Nat
      /\ record.version \in Nat /\ record'.version \in Nat
      /\ call[o].phase = "checked" => call[o].read.version \in Nat
  BY Versions, VersionAfter
<1>2. Past(call[o].seen)' /\ call[o].version <= record'.version
  BY <1>1 DEF CallsAreSeen, Past, Moves
<1>3. call[o].phase = "checked" => Past(call[o].read)'
  BY <1>1 DEF CallsAreSeen, Past, Moves
<1> QED  BY <1>2, <1>3 DEF CallsAreSeen, UnderWay

LEMMA Bystander ==
  ASSUME TypeOK, TypeOK', NEW p \in Operators, Made(p), may' = may,
         form'[p] = form[p], held'[p] = held[p], call'[p] = call[p]
  PROVE  /\ Made(p)'
         /\ Told(p) /\ Moves => Told(p)'
<1>1. Made(p)'
  BY DEF Made, FormIsOpen, CallIsSent, UnderWay
<1>2. ASSUME Told(p), Moves PROVE Told(p)'
  <2>1. held[p].version \in Nat
    BY Versions
  <2>2. Past(held[p])'
    <3>1. record.version \in Nat /\ record'.version \in Nat
      BY Versions, VersionAfter
    <3> QED  BY <1>2, <2>1, <3>1 DEF Told, Past, Moves
  <2> QED  BY <1>2, <2>2, FormStays, CallStays DEF Told
<1> QED  BY <1>1, <1>2

(* No handler begins or ends: the locks are held as they were.               *)
LEMMA LocksStay ==
  ASSUME LocksHold, kind' = kind, raced' = raced, record'.version = record.version,
         \A p \in Operators : call'[p].phase = "checked" => call'[p] = call[p]
  PROVE  LocksHold'
BY DEF LocksHold

(* One operator acts on his own screens; the record is left as it is.        *)
LEMMA OneActs ==
  ASSUME IInv, TypeOK', NEW o \in Operators,
         record' = record, raced' = raced, may' = may, kind' = kind,
         \A p \in Operators : p # o =>
           form'[p] = form[p] /\ held'[p] = held[p] /\ call'[p] = call[p],
         call'[o].phase = "checked" => call'[o] = call[o],
         Made(o)', Told(o) => Told(o)'
  PROVE  IInv'
<1>1. TypeOK /\ Moves
  BY Still DEF IInv
<1>2. LocksHold'
  BY LocksStay DEF IInv
<1>3. ASSUME NEW p \in Operators PROVE Made(p)' /\ (Told(p) => Told(p)')
  <2>1. Made(p)
    BY DEF IInv, Made
  <2>2. CASE p # o
    BY <1>1, <2>1, <2>2, Bystander
  <2> QED  BY <2>2
<1> QED  BY <1>2, <1>3 DEF IInv, Made

LEMMA InitIInv == Init => IInv
<1> SUFFICES ASSUME Init PROVE IInv
  OBVIOUS
<1>1. TypeOK
  BY InitTypes
<1>2. ASSUME NEW o \in Operators PROVE FormIsOpen(o) /\ CallIsSent(o) /\ Told(o)
  <2>1. held[o] = record /\ form[o] = NoForm /\ call[o] = NoCall
    BY DEF Init
  <2>2. record.version \in Nat
    BY <1>1, Versions
  <2>3. ~ IsOpen(form[o]) /\ ~ UnderWay(o)
    BY <2>1 DEF IsOpen, UnderWay, NoCall
  <2> QED  BY <2>1, <2>2, <2>3 DEF Told, Past, FormsFollow, CallsAreSeen, FormIsOpen, CallIsSent
<1>3. LocksHold
  BY DEF Init, LocksHold, NoCall
<1> QED  BY <1>1, <1>2, <1>3 DEF IInv

LEMMA RefetchKeeps == ASSUME IInv, NEW o \in Operators, Refetch(o) PROVE IInv'
<1>1. TypeOK /\ TypeOK'
  BY RefetchTypes DEF IInv
<1>2. /\ held'[o] = record /\ record' = record /\ may' = may /\ call'[o] = call[o]
      /\ form'[o] = IF IsOpen(form[o]) /\ Lasts(form[o].verb, record.status)
                    THEN Shown(form[o], record) ELSE NoForm
      /\ \A p \in Operators : p # o =>
           form'[p] = form[p] /\ held'[p] = held[p] /\ call'[p] = call[p]
  BY <1>1 DEF Refetch, TypeOK
<1>3. FormIsOpen(o)' /\ (FormsFollow(o) => FormsFollow(o)')
  <2> SUFFICES ASSUME IsOpen(form'[o])
               PROVE  FormIsOpen(o)' /\ (FormsFollow(o) => FormsFollow(o)')
    BY DEF FormIsOpen, FormsFollow
  <2>1. /\ IsOpen(form[o]) /\ Lasts(form[o].verb, record.status)
        /\ form'[o] = Shown(form[o], record)
    BY <1>2 DEF IsOpen
  <2>2. form[o] \in FormType(kind) /\ FormIsOpen(o)
    BY <1>1, <2>1, OpenForm DEF IInv
  <2>3. record.version \in Nat /\ form[o].base.version \in Nat
    BY <1>1, <2>1, Versions
  <2>4. CASE form[o].verb.draft = "copied"
    <3>1. form'[o] = form[o] /\ ~ Follows(form[o].verb)
      BY <2>1, <2>4 DEF Shown, Follows
    <3> QED  BY <1>2, <2>1, <2>2, <2>3, <3>1 DEF FormIsOpen, FormsFollow, Past
  <2>5. CASE form[o].verb.draft # "copied"
    <3>1. /\ form'[o].verb = form[o].verb /\ form'[o].base = record
          /\ form'[o].typed \in {{}, form[o].typed}
      BY <2>1, <2>2, <2>5 DEF Shown, FormType
    <3>2. FormIsOpen(o)'
      BY <1>2, <2>1, <2>2, <2>5, <3>1 DEF FormIsOpen, Follows
    <3> QED  BY <1>2, <2>3, <3>1, <3>2 DEF FormsFollow, Past
  <2> QED  BY <2>4, <2>5
<1>4. Told(o) => Past(held[o])'
  <2>1. record.version \in Nat
    BY <1>1, Versions
  <2> QED  BY <1>2, <2>1 DEF Past
<1>5. CallIsSent(o)' /\ (CallsAreSeen(o) => CallsAreSeen(o)')
  BY <1>2 DEF IInv, CallIsSent, CallsAreSeen, UnderWay, Past
<1> QED  BY <1>1, <1>2, <1>3, <1>4, <1>5, OneActs DEF Refetch, Made, Told

(* A form's screens are rendered anew without what was typed, or not at all. *)
LEMMA RefetchFailsKeeps == ASSUME IInv, NEW o \in Operators, RefetchFails(o) PROVE IInv'
<1>1. TypeOK /\ TypeOK' /\ IsOpen(form[o])
  BY RefetchFailsTypes DEF IInv
<1>2. form[o] \in FormType(kind) /\ FormIsOpen(o)
  BY <1>1, OpenForm DEF IInv
<1>3. /\ held' = held /\ record' = record /\ may' = may /\ call' = call
      /\ \A p \in Operators : p # o => form'[p] = form[p]
      /\ \/ ~ IsOpen(form'[o])
         \/ /\ form'[o].verb = form[o].verb /\ form'[o].base = form[o].base
            /\ form'[o].typed = {}
  BY <1>1, <1>2 DEF RefetchFails, TypeOK, FormType, IsOpen
<1>4. FormIsOpen(o)' /\ (Told(o) => Told(o)')
  BY <1>1, <1>2, <1>3 DEF FormIsOpen, Told, FormsFollow, CallsAreSeen, UnderWay, Past
<1>5. CallIsSent(o)'
  BY <1>3 DEF IInv, CallIsSent, UnderWay
<1> QED  BY <1>1, <1>3, <1>4, <1>5, OneActs DEF RefetchFails, Made

LEMMA OpenKeeps == ASSUME IInv, NEW o \in Operators, Open(o) PROVE IInv'
<1>1. TypeOK /\ TypeOK'
  BY OpenTypes DEF IInv
<1>2. PICK v \in Screens[kind].verbs :
         /\ v.draft # "press" /\ Offered(o, v, held[o])
         /\ form' = [form EXCEPT ![o] =
              [verb |-> v, base |-> held[o], typed |-> {}, sent |-> FALSE]]
  BY DEF Open
<1>3. /\ held' = held /\ record' = record /\ may' = may /\ call' = call
      /\ \A p \in Operators : p # o => form'[p] = form[p]
      /\ form'[o].verb = v /\ form'[o].base = held[o] /\ form'[o].typed = {}
  BY <1>1, <1>2 DEF Open, TypeOK
<1>4. FormIsOpen(o)'
  BY <1>2, <1>3 DEF FormIsOpen, Offered
<1>5. Told(o) => Told(o)'
  <2>1. held[o].version \in Nat
    BY <1>1, Versions
  <2> QED  BY <1>3, <2>1 DEF Told, FormsFollow, CallsAreSeen, UnderWay, Past
<1>6. CallIsSent(o)'
  BY <1>3 DEF IInv, CallIsSent, UnderWay
<1> QED  BY <1>1, <1>3, <1>4, <1>5, <1>6, OneActs DEF Open, Made

LEMMA TypeKeeps == ASSUME IInv, NEW o \in Operators, Type(o) PROVE IInv'
<1>1. TypeOK /\ TypeOK'
  BY TypeTypes DEF IInv
<1>2. form[o] \in FormType(kind) /\ IsOpen(form[o]) /\ FormIsOpen(o)
  BY <1>1, OpenForm DEF Type, IInv
<1>3. /\ held' = held /\ record' = record /\ may' = may /\ call' = call
      /\ \A p \in Operators : p # o => form'[p] = form[p]
      /\ form'[o].verb = form[o].verb /\ form'[o].base = form[o].base
      /\ form[o].verb.body # "none"
  BY <1>1, <1>2 DEF Type, TypeOK, FormType
<1>4. FormIsOpen(o)' /\ (Told(o) => Told(o)')
  BY <1>1, <1>2, <1>3 DEF FormIsOpen, Told, FormsFollow, CallsAreSeen, UnderWay, Past
<1>5. CallIsSent(o)'
  BY <1>3 DEF IInv, CallIsSent, UnderWay
<1> QED  BY <1>1, <1>3, <1>4, <1>5, OneActs DEF Type, Made

(* What is sent from a form is what the form shows beneath the typing.       *)
LEMMA SaveKeeps == ASSUME IInv, NEW o \in Operators, Save(o) PROVE IInv'
<1> DEFINE v == form[o].verb
<1>1. TypeOK /\ TypeOK'
  BY SaveTypes DEF IInv
<1>2. form[o] \in FormType(kind) /\ IsOpen(form[o]) /\ FormIsOpen(o)
  BY <1>1, OpenForm DEF Save, IInv
<1>3. /\ held' = held /\ record' = record /\ may' = may
      /\ \A p \in Operators : p # o => form'[p] = form[p] /\ call'[p] = call[p]
      /\ form'[o].verb = v /\ form'[o].base = form[o].base
      /\ form'[o].typed \in {{}, form[o].typed}
  BY <1>1, <1>2 DEF Save, TypeOK, FormType
<1>4. /\ call'[o].phase = "sent" /\ call'[o].verb = v
      /\ call'[o].version = VersionSent(v, Row(o))
      /\ call'[o].body = Body(o) /\ call'[o].seen = form[o].base
  BY <1>1 DEF Save, TypeOK
<1>5. FormIsOpen(o)'
  BY <1>2, <1>3 DEF FormIsOpen
<1>6. SentAsShown(v) => VersionSent(v, Row(o)) = form[o].base.version
  <2>1. v.draft # "copied" => form[o].base = held[o]
    BY <1>2 DEF FormIsOpen, Follows
  <2> QED  BY <2>1 DEF SentAsShown, VersionSent, Row
<1>7. \A f \in Fields :
        /\ Body(o)[f] \in {Absent, o, form[o].base.value[f]}
        /\ v.body # "whole" => Body(o)[f] \in {Absent, o}
        /\ v.body = "none" => Body(o)[f] = Absent
  BY <1>2 DEF Body, FormIsOpen
<1>8. CallIsSent(o)'
  <2> HIDE DEF v
  <2> QED  BY <1>2, <1>3, <1>4, <1>6, <1>7 DEF CallIsSent, FormIsOpen, v
<1>9. ASSUME Told(o) PROVE Told(o)'
  <2>1. /\ form[o].base.version \in Nat /\ held[o].version \in Nat /\ record.version \in Nat
        /\ form[o].base.version <= held[o].version
        /\ Past(form[o].base) /\ Past(held[o])
    BY <1>1, <1>2, <1>9, Versions DEF Told, FormsFollow
  <2>2. /\ VersionSent(v, Row(o)) <= record.version
        /\ VersionSent(v, Row(o)) = Unversioned \/ form[o].base.version <= VersionSent(v,
         Row(o))
    BY <2>1 DEF Past, Row, VersionSent, Unversioned
  <2>3. CallsAreSeen(o)'
    BY <1>3, <1>4, <2>1, <2>2 DEF CallsAreSeen, Past
  <2> QED  BY <1>3, <2>1, <2>3 DEF Told, FormsFollow, Past
<1> QED  BY <1>1, <1>3, <1>4, <1>5, <1>8, <1>9, OneActs DEF Save, Made

LEMMA PressKeeps == ASSUME IInv, NEW o \in Operators, Press(o) PROVE IInv'
<1>1. TypeOK /\ TypeOK'
  BY PressTypes DEF IInv
<1>2. PICK v \in Screens[kind].verbs :
         /\ v.draft = "press" /\ Offered(o, v, held[o])
         /\ call' = [call EXCEPT ![o] =
              [phase |-> "sent", verb |-> v, version |-> VersionSent(v, held[o]),
               body |-> NoBody, seen |-> held[o]]]
  BY DEF Press
<1>3. /\ held' = held /\ record' = record /\ may' = may /\ form' = form
      /\ \A p \in Operators : p # o => call'[p] = call[p]
      /\ call'[o].phase = "sent" /\ call'[o].verb = v
      /\ call'[o].version = VersionSent(v, held[o])
      /\ call'[o].body = NoBody /\ call'[o].seen = held[o]
  BY <1>1, <1>2 DEF Press, TypeOK
<1>4. \A f \in Fields : NoBody[f] = Absent
  BY DEF NoBody
<1>5. FormIsOpen(o)' /\ CallIsSent(o)'
  BY <1>2, <1>3, <1>4
  DEF IInv, FormIsOpen, CallIsSent, Offered, SentAsShown, VersionSent
<1>6. ASSUME Told(o) PROVE Told(o)'
  <2>1. Past(held[o]) /\ held[o].version \in Nat /\ record.version \in Nat
    BY <1>1, <1>6, Versions DEF Told
  <2>2. CallsAreSeen(o)'
    BY <1>3, <2>1 DEF CallsAreSeen, Past, VersionSent, Unversioned
  <2> QED  BY <1>3, <1>6, <2>2 DEF Told, FormsFollow, Past
<1> QED  BY <1>1, <1>3, <1>5, <1>6, OneActs DEF Press, Made

(* A handler that goes on has read the record, and nobody else holds the     *)
(* lock.                                                                     *)
LEMMA CheckKeeps == ASSUME IInv, NEW o \in Operators, Check(o) PROVE IInv'
<1>1. TypeOK /\ TypeOK' /\ Moves
  BY CheckTypes, Still DEF IInv, Check
<1>2. /\ held' = held /\ record' = record /\ may' = may /\ form' = form /\ raced' = raced
      /\ kind' = kind
      /\ \A p \in Operators : p # o => call'[p] = call[p]
      /\ call'[o] = IF Accepts(o) THEN Checked(call[o], record) ELSE Refused
      /\ call[o].phase = "sent"
  BY <1>1 DEF Check, TypeOK
<1>3. ASSUME NEW p \in Operators, p # o PROVE Made(p)' /\ (Told(p) => Told(p)')
  BY <1>1, <1>2, <1>3, Bystander DEF IInv, Made
<1>4. FormIsOpen(o)'
  BY <1>2 DEF IInv, FormIsOpen
<1>5. LocksHold'
  <2> SUFFICES ASSUME Screens[kind].locked PROVE LocksHold'
    BY <1>2 DEF LocksHold
  <2>1. ~ raced /\ \A p \in Operators : call[p].phase # "checked"
    BY DEF IInv, LocksHold, Check
  <2>2. call'[o].phase = "checked" => call'[o].read = record
    BY <1>2 DEF Checked, Refused
  <2> QED  BY <1>2, <2>1, <2>2 DEF LocksHold
<1>6. CASE Accepts(o)
  <2>1. /\ call'[o].phase = "checked" /\ call'[o].verb = call[o].verb
        /\ call'[o].version = call[o].version /\ call'[o].body = call[o].body
        /\ call'[o].seen = call[o].seen /\ call'[o].read = record
    BY <1>2, <1>6 DEF Checked
  <2>2. CallIsSent(o) /\ UnderWay(o)
    BY <1>2 DEF IInv, UnderWay
  <2>3. CallIsSent(o)'
    BY <1>2, <2>1, <2>2 DEF CallIsSent
  <2>4. ASSUME Told(o) PROVE Told(o)'
    <3>1. CallsAreSeen(o) /\ record.version \in Nat
      BY <1>1, <2>4, Versions DEF Told
    <3>2. SentAsShown(call[o].verb) => call[o].seen.value = record.value
      <4> SUFFICES ASSUME SentAsShown(call[o].verb) PROVE call[o].seen.value = record.value
        OBVIOUS
      <4>1. call[o].version = call[o].seen.version /\ Past(call[o].seen)
        BY <2>2, <3>1 DEF CallIsSent, CallsAreSeen
      <4>2. call[o].seen.version # Unversioned
        BY <1>1, <1>2, CallIs DEF CallType, RecordType, Unversioned
      <4> QED  BY <1>6, <4>1, <4>2 DEF Accepts, Past
    <3>3. Past(record)
      BY <3>1 DEF Past
    <3>4. CallsAreSeen(o)'
      BY <1>2, <2>1, <2>2, <3>1, <3>2, <3>3 DEF CallsAreSeen, Past
    <3> QED  BY <1>2, <2>4, <3>4 DEF Told, FormsFollow, Past
  <2> QED  BY <1>1, <1>2, <1>3, <1>4, <1>5, <2>3, <2>4 DEF IInv, Made
<1>7. CASE ~ Accepts(o)
  <2>1. ~ UnderWay(o)'
    BY <1>2, <1>7 DEF UnderWay, Refused
  <2>2. CallIsSent(o)' /\ CallsAreSeen(o)'
    BY <2>1 DEF CallIsSent, CallsAreSeen
  <2>3. Told(o) => Told(o)'
    BY <1>2, <2>2 DEF Told, FormsFollow, Past
  <2> QED  BY <1>1, <1>2, <1>3, <1>4, <1>5, <2>2, <2>3 DEF IInv, Made
<1> QED  BY <1>6, <1>7

(* Over the row its handler read, a commit is one version on.                *)
LEMMA CommitMoves ==
  ASSUME TypeOK, NEW o \in Operators, Commit(o), ~ raced'
  PROVE  ~ raced /\ call[o].read.version = record.version /\ Moves
<1>1. ~ raced /\ call[o].read.version = record.version
  BY DEF Commit
<1>2. record'.version = call[o].read.version + 1
  BY WrittenIs DEF Written
<1>3. record.version \in Nat
  BY Versions
<1> QED  BY <1>1, <1>2, <1>3 DEF Moves

LEMMA CommitKeeps == ASSUME IInv, NEW o \in Operators, Commit(o) PROVE IInv'
<1>1. TypeOK /\ TypeOK'
  BY CommitTypes DEF IInv
<1>2. /\ held' = held /\ may' = may /\ form' = form /\ kind' = kind
      /\ \A p \in Operators : p # o => call'[p] = call[p]
      /\ call'[o] = Accepted /\ call[o].phase = "checked"
  BY <1>1 DEF Commit, TypeOK
<1>3. ASSUME NEW p \in Operators, p # o PROVE Made(p)' /\ (Told(p) /\ Moves => Told(p)')
  BY <1>1, <1>2, <1>3, Bystander DEF IInv, Made
<1>4. FormIsOpen(o)' /\ CallIsSent(o)' /\ CallsAreSeen(o)'
  BY <1>2 DEF IInv, FormIsOpen, CallIsSent, CallsAreSeen, UnderWay, Accepted
<1>5. ASSUME Told(o), Moves PROVE Told(o)'
  <2>1. FormsFollow(o)'
    BY <1>1, <1>2, <1>5, FormStays DEF Told
  <2>2. Past(held[o])'
    <3>1. held[o].version \in Nat /\ record.version \in Nat /\ record'.version \in Nat
      BY <1>1, Versions, VersionAfter
    <3> QED  BY <1>2, <1>5, <3>1 DEF Told, Past, Moves
  <2> QED  BY <1>4, <2>1, <2>2 DEF Told
<1>6. LocksHold'
  <2> SUFFICES ASSUME Screens[kind].locked PROVE LocksHold'
    BY <1>2 DEF LocksHold
  <2>1. /\ ~ raced /\ call[o].read.version = record.version
        /\ \A p \in Operators : call[p].phase = "checked" => p = o
    BY <1>2 DEF IInv, LocksHold
  <2>2. ~ raced'
    BY <2>1 DEF Commit
  <2>3. \A p \in Operators : call'[p].phase # "checked"
    BY <1>2, <2>1 DEF Accepted
  <2> QED  BY <2>2, <2>3 DEF LocksHold
<1>7. ~ raced' => \A p \in Operators : Told(p)'
  BY <1>1, <1>3, <1>5, CommitMoves DEF IInv
<1> QED  BY <1>1, <1>3, <1>4, <1>6, <1>7 DEF IInv, Made

LEMMA DriftKeeps == ASSUME IInv, Drift PROVE IInv'
<1>1. TypeOK /\ TypeOK'
  BY DriftTypes DEF IInv
<1>2. record'.version = record.version /\ record'.value = record.value
  BY <1>1 DEF Drift, TypeOK, RecordType
<1>3. Moves
  BY <1>1, <1>2, VersionAfter DEF Moves
<1>4. ASSUME NEW p \in Operators PROVE Made(p)' /\ (Told(p) => Told(p)')
  BY <1>1, <1>3, Bystander DEF Drift, IInv, Made
<1>5. LocksHold'
  BY <1>2, LocksStay DEF Drift, IInv
<1> QED  BY <1>1, <1>4, <1>5 DEF IInv, Made, Drift

LEMMA CloseKeeps ==
  ASSUME IInv, NEW o \in Operators, Discard(o) \/ Hear(o) \/ Lose(o)
  PROVE  IInv'
<1>1. TypeOK /\ TypeOK'
  BY CloseTypes DEF IInv
<1>2. /\ held' = held /\ record' = record /\ may' = may /\ raced' = raced /\ kind' = kind
      /\ \A p \in Operators : p # o => form'[p] = form[p] /\ call'[p] = call[p]
      /\ call'[o] \in {call[o], NoCall}
      /\ form'[o] \in {NoForm, Heard(form[o])} \/ form'[o] = form[o]
  BY <1>1 DEF Discard, Hear, Lose, TypeOK
<1>3. \/ ~ IsOpen(form'[o])
      \/ /\ IsOpen(form[o]) /\ form'[o].verb = form[o].verb /\ form'[o].base = form[o].base
         /\ form'[o].typed = form[o].typed
  <2>1. CASE IsOpen(form[o])
    <3>1. form[o] \in FormType(kind)
      BY <1>1, <2>1, OpenForm
    <3>2. /\ Heard(form[o]).verb = form[o].verb /\ Heard(form[o]).base = form[o].base
          /\ Heard(form[o]).typed = form[o].typed
      BY <3>1 DEF Heard, FormType
    <3> QED  BY <1>2, <2>1, <3>2 DEF IsOpen
  <2>2. CASE ~ IsOpen(form[o])
    <3>1. Heard(form[o]) = form[o]
      BY <2>2 DEF IsOpen, Heard, NoForm, ErrorState
    <3> QED  BY <1>2, <2>2, <3>1 DEF IsOpen
  <2> QED  BY <2>1, <2>2
<1>4. FormIsOpen(o)' /\ (FormsFollow(o) => FormsFollow(o)')
  BY <1>2, <1>3 DEF IInv, FormIsOpen, FormsFollow, Past
<1>5. CallIsSent(o)' /\ (CallsAreSeen(o) => CallsAreSeen(o)')
  BY <1>2 DEF IInv, CallIsSent, CallsAreSeen, UnderWay, Past, NoCall
<1>6. Told(o) => Told(o)'
  BY <1>2, <1>4, <1>5 DEF Told, Past
<1>7. call'[o].phase = "checked" => call'[o] = call[o]
  BY <1>2 DEF NoCall
<1> QED  BY <1>1, <1>2, <1>4, <1>5, <1>6, <1>7, OneActs DEF Made

LEMMA NextIInv == IInv /\ [Next]_vars => IInv'
<1> SUFFICES ASSUME IInv, [Next]_vars PROVE IInv'
  OBVIOUS
<1>1. CASE UNCHANGED vars
  <2>1. TypeOK /\ TypeOK' /\ Moves
    BY <1>1, Still DEF IInv, vars, TypeOK
  <2>2. ASSUME NEW p \in Operators PROVE Made(p)' /\ (Told(p) => Told(p)')
    BY <1>1, <2>1, Bystander DEF vars, IInv, Made
  <2>3. LocksHold'
    BY <1>1, LocksStay DEF vars, IInv
  <2> QED  BY <1>1, <2>1, <2>2, <2>3 DEF IInv, Made, vars
<1>2. CASE Drift
  BY <1>2, DriftKeeps
<1> QED
  BY <1>1, <1>2, RefetchKeeps, RefetchFailsKeeps, OpenKeeps, TypeKeeps, SaveKeeps, PressKeeps,
     CheckKeeps, CommitKeeps, CloseKeeps
  DEF Next

(* Until a handler commits over a row it did not read, every copy, form and  *)
(* request is of the record's past and tells by its version whether it still *)
(* is the record; always, a form is one its verb opens and a request what    *)
(* its form sends.                                                           *)
THEOREM Inductive == Spec => []IInv
BY InitIInv, NextIInv, PTL DEF Spec

(* A record whose handlers read it with_for_update never comes to that.      *)
THEOREM LockedNeverRaces == Spec => [](Screens[kind].locked => ~ raced)
<1>1. IInv => (Screens[kind].locked => ~ raced)
  BY DEF IInv, LocksHold
<1> QED  BY <1>1, Inductive, PTL
-----------------------------------------------------------------------------
(* The four properties, each for the verbs that keep its rule.               *)

(* Only its handler refuses a request, and only its handler commits it.      *)
LEMMA Settles ==
  ASSUME TypeOK, [Next]_vars, NEW o \in Operators
  PROVE  /\ Refuses(o) => Check(o) /\ ~ Accepts(o)
         /\ Commits(o) => Commit(o)
<1> SUFFICES ASSUME Refuses(o) \/ Commits(o)
             PROVE  IF Commits(o) THEN Commit(o) ELSE Check(o) /\ ~ Accepts(o)
  BY DEF Refuses, Commits
<1>1. /\ call[o].phase \in {"sent", "checked"} /\ call'[o].phase \in {"accepted", "refused"}
      /\ call'[o] # call[o] /\ call'[o] # NoCall /\ call[o] # NoCall
  BY DEF Refuses, Commits, NoCall
<1>2. ASSUME NEW p \in Operators, Save(p) \/ Press(p) PROVE FALSE
  <2>1. p # o
    BY <1>1, <1>2 DEF Save, Press
  <2> QED  BY <1>1, <1>2, <2>1 DEF Save, Press, TypeOK
<1>3. ASSUME NEW p \in Operators, Hear(p) \/ Lose(p) PROVE FALSE
  <2>1. call' = [call EXCEPT ![p] = NoCall]
    BY <1>3 DEF Hear, Lose
  <2> QED  BY <1>1, <2>1 DEF TypeOK
<1>4. ASSUME NEW p \in Operators, Check(p) PROVE Check(o) /\ ~ Accepts(o) /\ Refuses(o)
  <2>1. p = o
    BY <1>1, <1>4 DEF Check, TypeOK
  <2>2. call'[o] = IF Accepts(o) THEN Checked(call[o], record) ELSE Refused
    BY <1>4, <2>1 DEF Check, TypeOK
  <2>3. ~ Accepts(o)
    BY <1>1, <2>2 DEF Checked
  <2> QED  BY <1>4, <2>1, <2>2, <2>3 DEF Refuses, Check, Refused
<1>5. ASSUME NEW p \in Operators, Commit(p) PROVE Commit(o) /\ Commits(o)
  <2>1. p = o
    BY <1>1, <1>5 DEF Commit, TypeOK
  <2> QED  BY <1>5, <2>1 DEF Commit, Commits, Accepted, TypeOK
<1>6. ~ UNCHANGED call
  BY <1>1
<1> QED
  BY <1>2, <1>3, <1>4, <1>5, <1>6
  DEF Next, vars, Drift, Refetch, RefetchFails, Open, Type, Discard, Refuses, Commits

(* A guarded verb sent from what is still the record is accepted.            *)
LEMMA OffersStep ==
  ASSUME ButFor(Guarded, Unguarded), IInv, [Next]_vars, NEW o \in Operators, Refuses(o)
  PROVE  raced \/ call[o].seen # record \/ Of(o) \in Unguarded
<1> SUFFICES ASSUME ~ raced, call[o].seen = record, Of(o) \notin Unguarded PROVE FALSE
  OBVIOUS
<1> DEFINE v == call[o].verb
<1>1. TypeOK /\ call[o].phase = "sent" /\ UnderWay(o) /\ CallIsSent(o) /\ CallsAreSeen(o)
  BY DEF IInv, Told, Refuses, UnderWay
<1>2. ~ Accepts(o)
  BY <1>1, Settles
<1>3. v \in Screens[kind].verbs /\ kind \in Kinds /\ record.status \in States(kind)
  BY <1>1, CallIs DEF CallType, TypeOK, RecordType
<1>4. Guarded(kind, v)
  BY <1>3 DEF ButFor, Of
<1>5. record.status \in v.offered
  <2>1. record.status \in v.offered \/ (Follows(v) /\ Lasts(v, record.status))
    BY <1>1 DEF CallIsSent
  <2> QED  BY <1>3, <1>4, <2>1 DEF Guarded, OfferedAsShown
<1>6. v.needs \in may[o]
  BY <1>1, <1>4 DEF CallIsSent, Guarded
<1>7. call[o].version \in {Unversioned, record.version}
  <2>1. /\ call[o].version = Unversioned \/ record.version <= call[o].version
        /\ call[o].version <= record.version
    BY <1>1 DEF CallsAreSeen
  <2>2. record.version \in Nat /\ call[o].version \in Nat
    BY <1>1, Versions
  <2> QED  BY <2>1, <2>2
<1> QED  BY <1>2, <1>4, <1>5, <1>6, <1>7 DEF Accepts, Guarded

(* What a commit writes.                                                     *)
LEMMA CommitStep ==
  ASSUME IInv, [Next]_vars, NEW o \in Operators, Commits(o), ~ raced, NEW f \in Fields
  PROVE  /\ call[o].verb \in Screens[kind].verbs /\ kind \in Kinds
         /\ record'.value[f] = IF call[o].body[f] \in {Absent, call[o].read.value[f]}
                               THEN record.value[f] ELSE call[o].body[f]
         /\ call[o].body[f] \in {Absent, o, call[o].seen.value[f]}
         /\ call[o].verb.body # "whole" => call[o].body[f] \in {Absent, o}
         /\ call[o].verb.body = "none" => call[o].body[f] = Absent
         /\ SentAsShown(call[o].verb) => call[o].seen.value = call[o].read.value
         /\ ~ raced' => call[o].read.value = record.value
<1>1. TypeOK /\ call[o].phase = "checked" /\ UnderWay(o) /\ CallIsSent(o) /\ CallsAreSeen(o)
  BY DEF IInv, Told, Commits, UnderWay
<1>2. Commit(o)
  BY <1>1, Settles
<1>3. call[o].verb \in Screens[kind].verbs /\ kind \in Kinds
  BY <1>1, CallIs DEF CheckedType, TypeOK
<1>4. record'.value[f] = IF call[o].body[f] \in {Absent, call[o].read.value[f]}
                         THEN record.value[f] ELSE call[o].body[f]
  BY <1>1, <1>2, WrittenIs DEF Written
<1>5. ~ raced' => call[o].read.value = record.value
  BY <1>1, <1>2, CommitMoves DEF CallsAreSeen, Past
<1> QED  BY <1>1, <1>3, <1>4, <1>5 DEF CallsAreSeen, CallIsSent

LEMMA UntouchedStep ==
  ASSUME ButFor(Sparing, Overwriting), IInv, [Next]_vars, NEW o \in Operators, Commits(o)
  PROVE  \/ raced
         \/ \A f \in Fields : record'.value[f] \in {record.value[f], o}
         \/ Of(o) \in Overwriting
<1> SUFFICES ASSUME ~ raced, Of(o) \notin Overwriting, NEW f \in Fields
             PROVE  record'.value[f] \in {record.value[f], o}
  OBVIOUS
<1>1. Sparing(kind, call[o].verb)
  BY CommitStep DEF ButFor, Of
<1>2. CASE call[o].verb.body # "whole"
  BY <1>2, CommitStep
<1>3. CASE SentAsShown(call[o].verb)
  <2>1. call[o].body[f] \in {Absent, o, call[o].read.value[f]}
    BY <1>3, CommitStep
  <2> QED  BY <2>1, CommitStep
<1> QED  BY <1>1, <1>2, <1>3 DEF Sparing

LEMMA SeenStep ==
  ASSUME ButFor(Sighted, Blind), IInv, [Next]_vars, NEW o \in Operators, Commits(o)
  PROVE  \/ raced'
         \/ \A f \in Fields : record'.value[f] # record.value[f] =>
                               record.value[f] = call[o].seen.value[f]
         \/ Of(o) \in Blind
<1> SUFFICES ASSUME ~ raced', Of(o) \notin Blind, NEW f \in Fields,
                    record'.value[f] # record.value[f]
             PROVE  record.value[f] = call[o].seen.value[f]
  OBVIOUS
<1>1. ~ raced
  BY CommitMoves, Settles DEF IInv
<1>2. Sighted(kind, call[o].verb)
  BY <1>1, CommitStep DEF ButFor, Of
<1>3. call[o].verb.body # "none"
  BY <1>1, CommitStep
<1>4. call[o].seen.value = call[o].read.value /\ call[o].read.value = record.value
  BY <1>1, <1>2, <1>3, CommitStep DEF Sighted
<1> QED  BY <1>4

LEMMA TypedStep ==
  ASSUME \A k \in Kinds : \A v \in Screens[k].verbs : Keeps(k, v),
         IInv, [Next]_vars, NEW o \in Operators, ~ (form[o].typed \subseteq form'[o].typed)
  PROVE  \/ form'[o] = NoForm /\ held'[o] = held[o]
         \/ call[o].phase = "accepted"
         \/ held'[o].status = "gone"
         \/ <<kind, form[o].verb.does, Cause(o)>> \in Forgetful
<1> DEFINE v == form[o].verb
           Excused == \/ form'[o] = NoForm /\ held'[o] = held[o]
                      \/ call[o].phase = "accepted"
                      \/ held'[o].status = "gone"
                      \/ <<kind, v.does, Cause(o)>> \in Forgetful
<1>1. TypeOK /\ form[o].typed # {} /\ form'[o] # form[o]
  BY DEF IInv
<1>2. IsOpen(form[o]) /\ form[o] \in FormType(kind) /\ v.body # "none"
  <2>1. IsOpen(form[o])
    BY <1>1 DEF IsOpen, NoForm, ErrorState
  <2> QED  BY <1>1, <2>1, OpenForm DEF IInv, FormIsOpen
<1>3. \A cause \in {"save", "copy", "error"} :
        <<kind, v.does, cause>> \in Forgetful \/ Keeping(v, cause)
  <2>1. v \in Screens[kind].verbs /\ kind \in Kinds
    BY <1>1, <1>2 DEF FormType, TypeOK
  <2> QED  BY <2>1 DEF Keeps
<1>4. ASSUME NEW p \in Operators, Refetch(p) PROVE Excused
  <2>1. p = o
    BY <1>1, <1>4 DEF Refetch, TypeOK
  <2>2. /\ held'[o] = record /\ call' = call
        /\ form'[o] = IF Lasts(v, record.status) THEN Shown(form[o], record) ELSE NoForm
    BY <1>1, <1>2, <1>4, <2>1 DEF Refetch, TypeOK
  <2>3. held'[o] # held[o]
    BY <1>2, <1>4, <2>1, <2>2 DEF Refetch, IsOpen
  <2>4. Cause(o) = "copy"
    BY <2>2, <2>3 DEF Cause
  <2>5. ASSUME Keeping(v, "copy"), record.status # "gone" PROVE FALSE
    <3>1. v.draft # "reseeded" /\ Lasts(v, record.status)
      BY <1>2, <2>5 DEF Keeping, Lasts
    <3>2. form'[o].typed = form[o].typed
      BY <1>2, <2>2, <3>1 DEF Shown, FormType
    <3> QED  BY <3>2
  <2> HIDE DEF v
  <2> QED  BY <1>3, <2>2, <2>4, <2>5
<1>5. ASSUME NEW p \in Operators, RefetchFails(p) PROVE Excused
  <2>1. p = o
    BY <1>1, <1>5 DEF RefetchFails, TypeOK
  <2>2. Cause(o) = "error"
    BY <1>5 DEF Cause, RefetchFails
  <2>3. ~ Keeping(v, "error")
    BY <1>2, <1>5, <2>1 DEF Keeping, RefetchFails
  <2> HIDE DEF v
  <2> QED  BY <1>3, <2>2, <2>3
<1>6. ASSUME NEW p \in Operators, Open(p) PROVE FALSE
  <2>1. p = o
    BY <1>1, <1>6 DEF Open, TypeOK
  <2> QED  BY <1>2, <1>6, <2>1 DEF Open, IsOpen
<1>7. ASSUME NEW p \in Operators, Type(p) PROVE FALSE
  <2>1. PICK f : form' = [form EXCEPT ![p].typed = @ \cup {f}]
    BY <1>7 DEF Type
  <2>2. p = o
    BY <1>1, <2>1 DEF TypeOK
  <2>3. form'[o].typed = form[o].typed \cup {f}
    BY <1>1, <1>2, <2>1, <2>2 DEF TypeOK, FormType
  <2> QED  BY <2>3
<1>8. ASSUME NEW p \in Operators, Discard(p) PROVE form'[o] = NoForm /\ held'[o] = held[o]
  BY <1>1, <1>8 DEF Discard, TypeOK
<1>9. ASSUME NEW p \in Operators, Save(p) PROVE Excused
  <2>1. p = o
    BY <1>1, <1>9 DEF Save, TypeOK
  <2>2. Cause(o) = "save"
    <3>1. call'[o].phase = "sent" /\ call[o] = NoCall
      BY <1>1, <1>9, <2>1 DEF Save, TypeOK
    <3> QED  BY <3>1 DEF Cause, NoCall
  <2>3. ~ Keeping(v, "save")
    <3> SUFFICES ASSUME v.draft # "dropped" PROVE FALSE
      BY <1>2 DEF Keeping
    <3>1. form'[o].typed = form[o].typed
      BY <1>1, <1>2, <1>9, <2>1 DEF Save, TypeOK, FormType
    <3> QED  BY <3>1
  <2> HIDE DEF v
  <2> QED  BY <1>3, <2>2, <2>3
<1>10. Heard(form[o]).typed = form[o].typed
  BY <1>2 DEF Heard, FormType
<1>11. ASSUME NEW p \in Operators, Hear(p) PROVE call[o].phase = "accepted"
  <2>1. p = o
    BY <1>1, <1>11 DEF Hear, TypeOK
  <2>2. call[o].phase # "accepted" => form'[o] = Heard(form[o])
    BY <1>1, <1>11, <2>1 DEF Hear, TypeOK
  <2> QED  BY <1>10, <2>2
<1>12. ASSUME NEW p \in Operators, Lose(p) PROVE FALSE
  <2>1. p = o
    BY <1>1, <1>12 DEF Lose, TypeOK
  <2>2. form'[o] = Heard(form[o])
    BY <1>1, <1>12, <2>1 DEF Lose, TypeOK
  <2> QED  BY <1>10, <2>2
<1>13. ~ UNCHANGED form
  BY <1>1
<1> HIDE DEF v
<1> QED
  BY <1>4, <1>5, <1>6, <1>7, <1>8, <1>9, <1>11, <1>12, <1>13
  DEF Next, vars, Drift, Press, Check, Commit, v

(* A request sent from what is still the record is accepted, for every verb  *)
(* shown by the handler's own conditions as long as its form is there.       *)
THEOREM GuardedIsAccepted == ButFor(Guarded, Unguarded) => (Spec => OffersAreAccepted)
<1> SUFFICES ASSUME ButFor(Guarded, Unguarded) PROVE Spec => OffersAreAccepted
  OBVIOUS
<1>1. IInv /\ [Next]_vars =>
        \A o \in Operators : Refuses(o) =>
          raced \/ call[o].seen # record \/ Of(o) \in Unguarded
  BY OffersStep
<1> QED  BY <1>1, Inductive, PTL DEF Spec, OffersAreAccepted

(* No save undoes another's change to a field its sender did not type in,    *)
(* for every form that sends only those or the version it shows: not even    *)
(* the first commit over a row its handler did not read.                     *)
THEOREM SparingLeavesOthers == ButFor(Sparing, Overwriting) => (Spec => UntouchedStays)
<1> SUFFICES ASSUME ButFor(Sparing, Overwriting) PROVE Spec => UntouchedStays
  OBVIOUS
<1>1. IInv /\ [Next]_vars =>
        \A o \in Operators : Commits(o) =>
          \/ raced
          \/ \A f \in Fields : record'.value[f] \in {record.value[f], o}
          \/ Of(o) \in Overwriting
  BY UntouchedStep
<1> QED  BY <1>1, Inductive, PTL DEF Spec, UntouchedStays

(* A save replaces only what its form was showing, for every form that sends *)
(* the version of what it shows, as long as no handler commits over a row it *)
(* did not read.                                                             *)
THEOREM SightedReplacesSeen == ButFor(Sighted, Blind) => (Spec => SeenBeforeReplaced)
<1> SUFFICES ASSUME ButFor(Sighted, Blind) PROVE Spec => SeenBeforeReplaced
  OBVIOUS
<1>1. IInv /\ [Next]_vars =>
        \A o \in Operators : Commits(o) =>
          \/ raced'
          \/ \A f \in Fields : record'.value[f] # record.value[f] =>
                                 record.value[f] = call[o].seen.value[f]
          \/ Of(o) \in Blind
  BY SeenStep
<1> QED  BY <1>1, Inductive, PTL DEF Spec, SeenBeforeReplaced

(* What was typed stays until it is saved or discarded or the record is      *)
(* gone, for every form that neither clears nor seeds its draft again and    *)
(* that no copy and no failed refetch takes away.                            *)
THEOREM KeepingKeepsTyped ==
  (\A k \in Kinds : \A v \in Screens[k].verbs : Keeps(k, v)) => (Spec => TypedSurvives)
<1> SUFFICES ASSUME \A k \in Kinds : \A v \in Screens[k].verbs : Keeps(k, v)
             PROVE  Spec => TypedSurvives
  OBVIOUS
<1>1. IInv /\ [Next]_vars =>
        \A o \in Operators :
          ~ (form[o].typed \subseteq form'[o].typed) =>
            \/ form'[o] = NoForm /\ held'[o] = held[o]
            \/ call[o].phase = "accepted"
            \/ held'[o].status = "gone"
            \/ <<kind, form[o].verb.does, Cause(o)>> \in Forgetful
  BY TypedStep
<1> QED  BY <1>1, Inductive, PTL DEF Spec, TypedSurvives
-----------------------------------------------------------------------------
(* The console's screens: each verb keeps the rules but for the lists of     *)
(* MCRecordScreens, so that the four properties hold of the console for any  *)
(* number of operators, fields and versions.                                 *)
Console ==
  /\ Screens = ConsoleScreens
  /\ Unguarded = UnguardedVerbs /\ Overwriting = OverwritingVerbs
  /\ Blind = BlindVerbs /\ Forgetful = ForgetfulVerbs

Obeys(k, v) ==
  /\ <<k, v.does>> \in UnguardedVerbs \/ Guarded(k, v)
  /\ <<k, v.does>> \in OverwritingVerbs \/ Sparing(k, v)
  /\ <<k, v.does>> \in BlindVerbs \/ Sighted(k, v)
  /\ \A cause \in {"save", "copy", "error"} :
       <<k, v.does, cause>> \in ForgetfulVerbs \/ Keeping(v, cause)

(* The states in which a form that follows the copy may be left open.        *)
LEMMA StatesAre ==
  ASSUME Console
  PROVE  /\ States("organization") \subseteq Kept /\ States("setting") \subseteq Kept
         /\ States("thread") \subseteq Kept /\ States("segment") \subseteq Kept \cup Gone
         /\ States("template") \subseteq TemplateStates \cup Gone
         /\ States("automation") \subseteq FlowStates /\ States("case") \subseteq CaseStates
<1> USE DEF Console, States, ConsoleScreens, Record, LockedRecord, Editor, Confirm, Control,
            Kept, Gone, Stays
<1>1. States("organization") \subseteq Kept
  BY DEF OrganizationScreen, OrganizationPanel
<1>2. States("setting") \subseteq Kept
  BY DEF SettingScreen, ApplicationPanel, PreferencesPanel, KeyValueEditor
<1>3. States("thread") \subseteq Kept
  BY DEF ThreadScreen, AssignmentControl, StatusControl
<1>4. States("segment") \subseteq Kept \cup Gone
  BY DEF SegmentScreen, SegmentActions, SegmentEditor
<1>5. States("template") \subseteq TemplateStates \cup Gone
  BY DEF TemplateScreen, TemplateActions, TemplateEditPage, TemplateStates
<1>6. States("automation") \subseteq FlowStates
  BY DEF AutomationScreen, AutomationSave, AutomationActions, FlowStates
<1>7. States("case") \subseteq CaseStates
  BY DEF CaseScreen, ReactivationMove, ReactivationOwnership, EligibilityPanel, CaseStates
<1> QED  BY <1>1, <1>2, <1>3, <1>4, <1>5, <1>6, <1>7

USE DEF Control, Editor, Confirm, Obeys, Guarded, OfferedAsShown, Follows, Lasts,
        Sparing, Sighted, SentAsShown, Keeping, Kept, Gone, Stays, For

LEMMA CampaignObeys == Console => \A v \in CampaignScreen.verbs : Obeys("campaign", v)
<1> SUFFICES ASSUME Console PROVE \A v \in CampaignScreen.verbs : Obeys("campaign", v)
  OBVIOUS
<1>1. \A v \in CampaignActions : Obeys("campaign", v)
  BY DEF CampaignActions, UnguardedVerbs, StaleDialogs, Dispatchable, Pausable, Resumable,
         Cancellable, Retryable, Editable,
         CampaignStates, CampaignOver
<1>2. \A v \in CampaignScheduleDialog : Obeys("campaign", v)
  BY DEF CampaignScheduleDialog, UnguardedVerbs, StaleDialogs, BlindVerbs, ForgetfulVerbs,
         TakenByErrors, Dispatchable
<1>3. \A v \in CampaignEditPage : Obeys("campaign", v)
  BY DEF CampaignEditPage, ForgetfulVerbs, TakenByErrors, TakenByCopies, Editable,
         OverwritingVerbs, EditsByCopy, BlindVerbs
<1> QED  BY <1>1, <1>2, <1>3 DEF CampaignScreen, Record, LockedRecord

LEMMA UserObeys == Console => \A v \in UserScreen.verbs : Obeys("user", v)
<1> SUFFICES ASSUME Console PROVE \A v \in UserScreen.verbs : Obeys("user", v)
  OBVIOUS
<1>1. \A v \in UsersPanel : Obeys("user", v)
  BY DEF UsersPanel
<1>2. \A v \in UserFormDialog : Obeys("user", v)
  BY DEF UserFormDialog, ForgetfulVerbs, TakenByErrors
<1>3. \A v \in RoleAssignDialog : Obeys("user", v)
  BY DEF RoleAssignDialog, ForgetfulVerbs, TakenByErrors, OverwritingVerbs, EditsByCopy,
         UnguardedVerbs, BlindVerbs
<1> QED  BY <1>1, <1>2, <1>3 DEF UserScreen, Record, LockedRecord

LEMMA RoleObeys == Console => \A v \in RoleScreen.verbs : Obeys("role", v)
<1> SUFFICES ASSUME Console PROVE \A v \in RoleScreen.verbs : Obeys("role", v)
  OBVIOUS
<1>1. \A v \in RoleActions : Obeys("role", v)
  BY DEF RoleActions
<1>2. \A v \in RoleFormDialog : Obeys("role", v)
  BY DEF RoleFormDialog, ForgetfulVerbs, TakenByErrors, OverwritingVerbs, EditsWithoutVersion,
         BlindVerbs
<1>3. \A v \in PermissionMatrix : Obeys("role", v)
  BY DEF PermissionMatrix, OverwritingVerbs, EditsWithoutVersion, BlindVerbs
<1> QED  BY <1>1, <1>2, <1>3 DEF RoleScreen, Record, LockedRecord

LEMMA ApiKeyObeys == Console => \A v \in ApiKeyScreen.verbs : Obeys("key", v)
<1> SUFFICES ASSUME Console PROVE \A v \in ApiKeyScreen.verbs : Obeys("key", v)
  OBVIOUS
<1>1. \A v \in ApiKeyActions : Obeys("key", v)
  BY DEF ApiKeyActions
<1> QED  BY <1>1 DEF ApiKeyScreen, Record, LockedRecord

LEMMA OrganizationObeys == Console => \A v \in OrganizationScreen.verbs : Obeys("organization", v)
<1> SUFFICES ASSUME Console PROVE \A v \in OrganizationScreen.verbs : Obeys("organization", v)
  OBVIOUS
<1>1. \A v \in OrganizationPanel : Obeys("organization", v)
  BY StatesAre DEF OrganizationPanel
<1> QED  BY <1>1 DEF OrganizationScreen, Record, LockedRecord

LEMMA SettingObeys == Console => \A v \in SettingScreen.verbs : Obeys("setting", v)
<1> SUFFICES ASSUME Console PROVE \A v \in SettingScreen.verbs : Obeys("setting", v)
  OBVIOUS
<1>1. \A v \in ApplicationPanel : Obeys("setting", v)
  BY StatesAre DEF ApplicationPanel, TakenByErrors, TakenBySaves, KeyValueEditor, BlindVerbs,
         ForgetfulVerbs
<1>2. \A v \in PreferencesPanel : Obeys("setting", v)
  BY StatesAre DEF PreferencesPanel, TakenByErrors, TakenBySaves, KeyValueEditor, BlindVerbs,
         ForgetfulVerbs
<1> QED  BY <1>1, <1>2 DEF SettingScreen, Record, LockedRecord

LEMMA FlagObeys == Console => \A v \in FlagScreen.verbs : Obeys("flag", v)
<1> SUFFICES ASSUME Console PROVE \A v \in FlagScreen.verbs : Obeys("flag", v)
  OBVIOUS
<1>1. \A v \in FeatureFlagsPanel : Obeys("flag", v)
  BY DEF FeatureFlagsPanel, BlindVerbs
<1> QED  BY <1>1 DEF FlagScreen, Record, LockedRecord

LEMMA AccountObeys == Console => \A v \in AccountScreen.verbs : Obeys("account", v)
<1> SUFFICES ASSUME Console PROVE \A v \in AccountScreen.verbs : Obeys("account", v)
  OBVIOUS
<1>1. \A v \in WabaActions : Obeys("account", v)
  BY DEF WabaActions, UnguardedVerbs, StaleDialogs, WabaStates
<1>2. \A v \in WabaFormDialog : Obeys("account", v)
  BY DEF WabaFormDialog, ForgetfulVerbs, TakenByErrors, WabaStates, OverwritingVerbs,
         EditsByCopy, BlindVerbs
<1> QED  BY <1>1, <1>2 DEF AccountScreen, Record, LockedRecord

LEMMA NumberObeys == Console => \A v \in NumberScreen.verbs : Obeys("number", v)
<1> SUFFICES ASSUME Console PROVE \A v \in NumberScreen.verbs : Obeys("number", v)
  OBVIOUS
<1>1. \A v \in NumberActions : Obeys("number", v)
  BY DEF NumberActions
<1>2. \A v \in NumberEditDialog : Obeys("number", v)
  BY DEF NumberEditDialog, ForgetfulVerbs, TakenByErrors, OverwritingVerbs, EditsByCopy,
         BlindVerbs
<1> QED  BY <1>1, <1>2 DEF NumberScreen, Record, LockedRecord

LEMMA TaskObeys == Console => \A v \in TaskScreen.verbs : Obeys("task", v)
<1> SUFFICES ASSUME Console PROVE \A v \in TaskScreen.verbs : Obeys("task", v)
  OBVIOUS
<1>1. \A v \in TaskActions : Obeys("task", v)
  BY DEF TaskActions, UnguardedVerbs
<1>2. \A v \in TaskReschedule : Obeys("task", v)
  BY DEF TaskReschedule, ForgetfulVerbs, TakenByErrors, UnguardedVerbs, BlindVerbs
<1>3. \A v \in TaskForm : Obeys("task", v)
  BY DEF TaskForm, UnguardedVerbs
<1>4. \A v \in TaskBulkActions : Obeys("task", v)
  BY DEF TaskBulkActions, UnguardedVerbs
<1> QED  BY <1>1, <1>2, <1>3, <1>4 DEF TaskScreen, Record, LockedRecord

LEMMA TemplateObeys == Console => \A v \in TemplateScreen.verbs : Obeys("template", v)
<1> SUFFICES ASSUME Console PROVE \A v \in TemplateScreen.verbs : Obeys("template", v)
  OBVIOUS
<1>1. \A v \in TemplateActions : Obeys("template", v)
  BY StatesAre DEF TemplateActions
<1>2. \A v \in TemplateEditPage : Obeys("template", v)
  BY DEF TemplateEditPage, ForgetfulVerbs, TakenByErrors, TakenByCopies, OverwritingVerbs,
         EditsByCopy, BlindVerbs
<1> QED  BY <1>1, <1>2 DEF TemplateScreen, Record, LockedRecord

LEMMA PipelineObeys == Console => \A v \in PipelineScreen.verbs : Obeys("pipeline", v)
<1> SUFFICES ASSUME Console PROVE \A v \in PipelineScreen.verbs : Obeys("pipeline", v)
  OBVIOUS
<1>1. \A v \in PipelineActions : Obeys("pipeline", v)
  BY DEF PipelineActions, UnguardedVerbs, StaleDialogs
<1>2. \A v \in PipelineFormDialog : Obeys("pipeline", v)
  BY DEF PipelineFormDialog, ForgetfulVerbs, TakenByErrors, OverwritingVerbs,
         EditsWithoutVersion, BlindVerbs
<1>3. \A v \in StageDialog : Obeys("pipeline", v)
  BY DEF StageDialog, ForgetfulVerbs, TakenByErrors, OverwritingVerbs, EditsWithoutVersion,
         BlindVerbs
<1> QED  BY <1>1, <1>2, <1>3 DEF PipelineScreen, Record, LockedRecord

LEMMA SegmentObeys == Console => \A v \in SegmentScreen.verbs : Obeys("segment", v)
<1> SUFFICES ASSUME Console PROVE \A v \in SegmentScreen.verbs : Obeys("segment", v)
  OBVIOUS
<1>1. \A v \in SegmentActions : Obeys("segment", v)
  BY StatesAre DEF SegmentActions, UnguardedVerbs
<1>2. \A v \in SegmentEditor : Obeys("segment", v)
  BY DEF SegmentEditor, ForgetfulVerbs, TakenByErrors, OverwritingVerbs, EditsWithoutVersion,
         BlindVerbs
<1> QED  BY <1>1, <1>2 DEF SegmentScreen, Record, LockedRecord

LEMMA AutomationObeys == Console => \A v \in AutomationScreen.verbs : Obeys("automation", v)
<1> SUFFICES ASSUME Console PROVE \A v \in AutomationScreen.verbs : Obeys("automation", v)
  OBVIOUS
<1>1. \A v \in AutomationActions : Obeys("automation", v)
  BY DEF AutomationActions, FlowStates
<1>2. \A v \in AutomationSave : Obeys("automation", v)
  BY StatesAre DEF AutomationSave, TakenByCopies, FlowStates, ForgetfulVerbs
<1> QED  BY <1>1, <1>2 DEF AutomationScreen, Record, LockedRecord

LEMMA CaseObeys == Console => \A v \in CaseScreen.verbs : Obeys("case", v)
<1> SUFFICES ASSUME Console PROVE \A v \in CaseScreen.verbs : Obeys("case", v)
  OBVIOUS
<1>1. \A v \in ReactivationMove : Obeys("case", v)
  BY DEF ReactivationMove, UnguardedVerbs
<1>2. \A v \in ReactivationOwnership : Obeys("case", v)
  BY StatesAre DEF ReactivationOwnership, TakenByErrors, TakenByCopies, CaseStates,
         ForgetfulVerbs
<1>3. \A v \in EligibilityPanel : Obeys("case", v)
  BY DEF EligibilityPanel
<1> QED  BY <1>1, <1>2, <1>3 DEF CaseScreen, Record, LockedRecord

LEMMA KycObeys == Console => \A v \in KycScreen.verbs : Obeys("kyc", v)
<1> SUFFICES ASSUME Console PROVE \A v \in KycScreen.verbs : Obeys("kyc", v)
  OBVIOUS
<1>1. \A v \in VerificationPanel : Obeys("kyc", v)
  BY DEF VerificationPanel, TakenByCopies, Prepare, KycOpen, UnguardedVerbs, ForgetfulVerbs
<1>2. \A v \in KycDocumentsPanel : Obeys("kyc", v)
  BY DEF KycDocumentsPanel, KycOpen
<1>3. \A v \in DecisionPanel : Obeys("kyc", v)
  BY DEF DecisionPanel, KycOpen, UnguardedVerbs
<1> QED  BY <1>1, <1>2, <1>3 DEF KycScreen, Record, LockedRecord

LEMMA DocumentObeys == Console => \A v \in DocumentScreen.verbs : Obeys("document", v)
<1> SUFFICES ASSUME Console PROVE \A v \in DocumentScreen.verbs : Obeys("document", v)
  OBVIOUS
<1>1. \A v \in DocumentDetailDialog : Obeys("document", v)
  BY DEF DocumentDetailDialog, UnguardedVerbs, StaleDialogs, DocumentStates
<1>2. \A v \in DocumentFormDialog : Obeys("document", v)
  BY DEF DocumentFormDialog, UnguardedVerbs, StaleDialogs, DocumentStates
<1> QED  BY <1>1, <1>2 DEF DocumentScreen, Record, LockedRecord

LEMMA MediaObeys == Console => \A v \in MediaScreen.verbs : Obeys("media", v)
<1> SUFFICES ASSUME Console PROVE \A v \in MediaScreen.verbs : Obeys("media", v)
  OBVIOUS
<1>1. \A v \in MediaActions : Obeys("media", v)
  BY DEF MediaActions, UnguardedVerbs, StaleDialogs
<1> QED  BY <1>1 DEF MediaScreen, Record, LockedRecord

LEMMA JobObeys == Console => \A v \in JobScreen.verbs : Obeys("job", v)
<1> SUFFICES ASSUME Console PROVE \A v \in JobScreen.verbs : Obeys("job", v)
  OBVIOUS
<1>1. \A v \in JobActions : Obeys("job", v)
  BY DEF JobActions
<1> QED  BY <1>1 DEF JobScreen, Record, LockedRecord

LEMMA ConversationObeys == Console => \A v \in ConversationScreen.verbs : Obeys("conversation", v)
<1> SUFFICES ASSUME Console PROVE \A v \in ConversationScreen.verbs : Obeys("conversation", v)
  OBVIOUS
<1>1. \A v \in MessageComposer : Obeys("conversation", v)
  BY DEF MessageComposer, Keyless, UnguardedVerbs
<1>2. \A v \in MessageBubble : Obeys("conversation", v)
  BY DEF MessageBubble, Keyless, UnguardedVerbs
<1> QED  BY <1>1, <1>2 DEF ConversationScreen, Record, LockedRecord

LEMMA ThreadObeys == Console => \A v \in ThreadScreen.verbs : Obeys("thread", v)
<1> SUFFICES ASSUME Console PROVE \A v \in ThreadScreen.verbs : Obeys("thread", v)
  OBVIOUS
<1>1. \A v \in AssignmentControl : Obeys("thread", v)
  BY StatesAre DEF AssignmentControl, BlindVerbs
<1>2. \A v \in StatusControl : Obeys("thread", v)
  BY StatesAre DEF StatusControl, BlindVerbs
<1> QED  BY <1>1, <1>2 DEF ThreadScreen, Record, LockedRecord

HIDE DEF Control, Editor, Confirm, Obeys, Guarded, OfferedAsShown, Follows, Lasts,
         Sparing, Sighted, SentAsShown, Keeping, Kept, Gone, Stays, For

LEMMA EveryScreenObeys ==
  ASSUME Console, NEW k \in DOMAIN ConsoleScreens, NEW v \in ConsoleScreens[k].verbs
  PROVE  Obeys(k, v)
BY CampaignObeys, UserObeys, RoleObeys, ApiKeyObeys, OrganizationObeys, SettingObeys,
   FlagObeys, AccountObeys, NumberObeys, TaskObeys, TemplateObeys, PipelineObeys, SegmentObeys,
   AutomationObeys, CaseObeys, KycObeys, DocumentObeys, MediaObeys, JobObeys, ConversationObeys,
   ThreadObeys
DEF ConsoleScreens

LEMMA ConsoleRules ==
  Console => /\ ButFor(Guarded, Unguarded) /\ ButFor(Sparing, Overwriting)
             /\ ButFor(Sighted, Blind)
             /\ \A k \in Kinds : \A v \in Screens[k].verbs : Keeps(k, v)
BY EveryScreenObeys DEF Console, Kinds, ButFor, Obeys, Keeps

(* The console's screens, with the exceptions its lists name, have the four  *)
(* properties with any operators, any fields and records written any number  *)
(* of times, up to where a property excuses a commit over an unread row.     *)
THEOREM ConsoleKeeps ==
  Console => (Spec => OffersAreAccepted /\ UntouchedStays /\ SeenBeforeReplaced /\ TypedSurvives)
BY ConsoleRules, GuardedIsAccepted, SparingLeavesOthers, SightedReplacesSeen, KeepingKeepsTyped
==============================================================================
