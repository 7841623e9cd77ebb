----------------------- MODULE WebhookPipelineProofs -----------------------
(***************************************************************************)
(* Theorems about WebhookPipeline for all sets of facts and workers, every *)
(* attempt cap and every bound.                                            *)
(***************************************************************************)
EXTENDS WebhookPipeline, TLAPS, FiniteSetTheorems

USE DEF Events, Attempts

-----------------------------------------------------------------------------
(* Types.                                                                  *)

\* The bounds are numbers.
LEMMA Bounds ==
    /\ AttemptCap \in Nat \ {0}
    /\ MaxEvents \in Nat /\ MaxFaults \in Nat /\ MaxReads \in Nat /\ MaxDeletes \in Nat
BY BoundsAssumption

\* A callback reports a status; no fact is two things.
LEMMA FactKinds ==
    /\ \A f \in Receipts : f \in MessageStatus /\ f \notin Inbounds /\ f \notin Poison
    /\ \A f \in Inbounds : f \notin Poison
BY FactsAssumption

\* The idle worker and the missing row have the types of the others.
LEMMA IdleType == Idle \in Job /\ NoEvent \in EventRow
BY Bounds DEF Idle, Job, Step, MessageStatus, ContactState,
              NoEvent, EventRow, EventStatus, NoFact

\* A fault is one more fault.
LEMMA FaultType ==
    ASSUME TypeOK, NEW k, Fault(k)
    PROVE  /\ faults' \in 0 .. MaxFaults /\ faults' = faults + 1
           /\ UNCHANGED <<reads, deletes, overlap>>
BY Bounds DEF TypeOK, Fault

\* Enqueueing and dequeueing keep the types of the lanes.
LEMMA LaneType ==
    ASSUME NEW q \in [Events -> Nat], NEW e \in Events
    PROVE  /\ [q EXCEPT ![e] = @ + 1] \in [Events -> Nat]
           /\ q[e] > 0 => [q EXCEPT ![e] = @ - 1] \in [Events -> Nat]
OBVIOUS

\* The same of the process lane, which is kept per attempt.
LEMMA ProcessLaneType ==
    ASSUME TypeOK, NEW e \in Events, NEW a \in Attempts
    PROVE  /\ [processQ EXCEPT ![e][a] = @ + 1] \in [Events -> [Attempts -> Nat]]
           /\ processQ[e][a] > 0 =>
                [processQ EXCEPT ![e][a] = @ - 1] \in [Events -> [Attempts -> Nat]]
<1>1. processQ \in [Events -> [Attempts -> Nat]] /\ processQ[e] \in [Attempts -> Nat]
  BY DEF TypeOK
<1>2. [processQ[e] EXCEPT ![a] = @ + 1] \in [Attempts -> Nat]
  BY <1>1
<1>3. processQ[e][a] > 0 => [processQ[e] EXCEPT ![a] = @ - 1] \in [Attempts -> Nat]
  BY <1>1
<1>4. \A q \in [Attempts -> Nat] : [processQ EXCEPT ![e] = q] \in [Events -> [Attempts -> Nat]]
  BY <1>1
<1>5. /\ [processQ EXCEPT ![e][a] = @ + 1]
          = [processQ EXCEPT ![e] = [processQ[e] EXCEPT ![a] = @ + 1]]
      /\ [processQ EXCEPT ![e][a] = @ - 1]
          = [processQ EXCEPT ![e] = [processQ[e] EXCEPT ![a] = @ - 1]]
  BY <1>1
<1> QED
  BY <1>2, <1>3, <1>4, <1>5

\* The types hold initially.
LEMMA InitTypeOK == Init => TypeOK
<1> SUFFICES ASSUME Init PROVE TypeOK
  OBVIOUS
<1>1. event \in [Events -> EventRow] /\ work \in [Workers -> Job]
  BY IdleType DEF Init
<1>2. message \in [status : MessageStatus, wamid : BOOLEAN] /\ contact \in ContactState
  BY DEF Init, MessageStatus, ContactState
<1>3. thread \in [exists : BOOLEAN, unread : Nat]
  <2>1. PICK B \in SUBSET BOOLEAN : thread \in [exists : B, unread : {0}]
    BY DEF Init
  <2> QED
    BY <2>1
<1>4. /\ ingestQ \in [Events -> Nat] /\ inboundQ \in [Events -> Nat]
      /\ processQ \in [Events -> [Attempts -> Nat]]
      /\ log \in [Events -> Nat] /\ copies \in [Inbounds -> Nat]
  BY DEF Init
<1>5. /\ received \in 0 .. MaxEvents /\ faults \in 0 .. MaxFaults
      /\ reads \in 0 .. MaxReads /\ deletes \in 0 .. MaxDeletes
      /\ fresh \in Nat /\ overlap \in BOOLEAN
  <2>1. /\ received = 0 /\ faults = 0 /\ reads = 0 /\ deletes = 0
        /\ fresh = 0
    BY DEF Init
  <2>2. overlap \in BOOLEAN
    BY DEF Init
  <2> QED
    BY <2>1, <2>2, Bounds
<1>6. acked \subseteq Facts
  BY DEF Init
<1> QED
  BY <1>1, <1>2, <1>3, <1>4, <1>5, <1>6 DEF TypeOK

\* A request keeps the types.
LEMMA RequestType == ASSUME TypeOK, Request PROVE TypeOK'
<1>1. CASE StoreWamid
  <2>1. message' \in [status : MessageStatus, wamid : BOOLEAN]
    BY <1>1 DEF StoreWamid, TypeOK
  <2> QED
    BY <1>1, <2>1 DEF TypeOK, StoreWamid, lanes, inbox, history
<1>2. CASE MarkRead
  <2>1. thread' \in [exists : BOOLEAN, unread : Nat]
    BY <1>2 DEF MarkRead, TypeOK
  <2>2. reads' \in 0 .. MaxReads /\ fresh' \in Nat
    BY <1>2, Bounds DEF MarkRead, TypeOK
  <2> QED
    BY <1>2, <2>1, <2>2 DEF TypeOK, MarkRead, lanes, ledger
<1>3. CASE DeleteContact
  <2>1. deletes' \in 0 .. MaxDeletes /\ contact' \in ContactState
    BY <1>3, Bounds DEF DeleteContact, TypeOK, ContactState
  <2> QED
    BY <1>3, <2>1 DEF TypeOK, DeleteContact, lanes, ledger
<1>4. ASSUME NEW f \in Facts, Deliver(f) PROVE TypeOK'
  <2>1. received' \in 0 .. MaxEvents /\ received + 1 \in Events
    BY <1>4, Bounds DEF Deliver, TypeOK
  <2>2. event' \in [Events -> EventRow]
    <3>1. [fact |-> f, status |-> "received", dead |-> 0] \in EventRow
      BY DEF EventRow, EventStatus
    <3> QED
      BY <1>4, <3>1 DEF Deliver, TypeOK
  <2>3. acked' \subseteq Facts
    BY <1>4 DEF Deliver, TypeOK
  <2>4. ingestQ' \in [Events -> Nat]
    BY <1>4, <2>1, LaneType DEF Deliver, TypeOK
  <2>5. faults' \in 0 .. MaxFaults /\ UNCHANGED <<reads, deletes, overlap>>
    <3>1. (\E k : Fault(k)) \/ UNCHANGED history
      BY <1>4 DEF Deliver
    <3> QED
      BY <3>1, FaultType DEF TypeOK, history
  <2> QED
    BY <1>4, <2>1, <2>2, <2>3, <2>4, <2>5 DEF TypeOK, Deliver, ledger, inbox
<1> QED
  BY <1>1, <1>2, <1>3, <1>4 DEF Request

\* A task that is begun keeps the types.
LEMMA TakeType ==
    ASSUME TypeOK, NEW w \in Workers, NEW job \in Job, Take(w, job)
    PROVE  work' \in [Workers -> Job] /\ overlap' \in BOOLEAN
BY DEF TypeOK, Take

\* Taking tasks from the lanes keeps the types.
LEMMA BeginType == ASSUME TypeOK, Begin PROVE TypeOK'
<1>1. ASSUME NEW e \in Events, Ingest(e) PROVE TypeOK'
  <2>1. processQ' \in [Events -> [Attempts -> Nat]]
    <3>1. 1 \in Attempts
      BY Bounds
    <3> QED
      BY <1>1, <3>1, ProcessLaneType DEF Ingest
  <2>2. ingestQ' \in [Events -> Nat]
    BY <1>1, LaneType DEF Ingest, TypeOK
  <2>3. faults' \in 0 .. MaxFaults /\ UNCHANGED <<reads, deletes, overlap>>
    BY <1>1, FaultType DEF Ingest, TypeOK, history
  <2> QED
    BY <1>1, <2>1, <2>2, <2>3 DEF TypeOK, Ingest, ledger, inbox
<1>2. ASSUME NEW e \in Events, InboundSkip(e) PROVE TypeOK'
  <2>1. inboundQ' \in [Events -> Nat]
    BY <1>2, LaneType DEF InboundSkip, TypeOK
  <2> QED
    BY <1>2, <2>1 DEF TypeOK, InboundSkip, ledger, inbox, history
<1>3. ASSUME NEW e \in Events, NEW a \in Attempts, ProcessSkip(e, a) PROVE TypeOK'
  <2>1. processQ' \in [Events -> [Attempts -> Nat]]
    BY <1>3, ProcessLaneType DEF ProcessSkip
  <2> QED
    BY <1>3, <2>1 DEF TypeOK, ProcessSkip, ledger, inbox, history
<1>4. ASSUME NEW w \in Workers, NEW e \in Events, InboundBegin(w, e) PROVE TypeOK'
  <2>1. inboundQ' \in [Events -> Nat]
    BY <1>4, LaneType DEF InboundBegin, TypeOK
  <2>2. [Idle EXCEPT !.lane = "inbound", !.step = "store", !.event = e,
                     !.contact = contact, !.thread = thread.exists,
                     !.unread = thread.unread] \in Job
    <3>1. e \in 0 .. MaxEvents
      BY Bounds
    <3> QED
      BY <3>1, IdleType DEF Job, Step, TypeOK
  <2>3. work' \in [Workers -> Job] /\ overlap' \in BOOLEAN
    BY <1>4, <2>2, TakeType DEF InboundBegin
  <2> QED
    BY <1>4, <2>1, <2>3 DEF TypeOK, InboundBegin, Take, ledger, inbox
<1>5. ASSUME NEW w \in Workers, NEW e \in Events, NEW a \in Attempts, ProcessBegin(w, e, a)
      PROVE  TypeOK'
  <2>1. processQ' \in [Events -> [Attempts -> Nat]]
    BY <1>5, ProcessLaneType DEF ProcessBegin
  <2>2. [Idle EXCEPT !.step = IF event[e].fact \in Poison THEN "bury" ELSE "read",
                     !.event = e, !.attempt = a] \in Job
    <3>1. e \in 0 .. MaxEvents
      BY Bounds
    <3> QED
      BY <3>1, IdleType DEF Job, Step
  <2>3. work' \in [Workers -> Job] /\ overlap' \in BOOLEAN
    BY <1>5, <2>2, TakeType DEF ProcessBegin
  <2> QED
    BY <1>5, <2>1, <2>3 DEF TypeOK, ProcessBegin, Take, ledger, inbox
<1> QED
  BY <1>1, <1>2, <1>3, <1>4, <1>5 DEF Begin

\* Moving a worker to another step, or off its task, keeps the type of its job.
LEMMA StepType ==
    ASSUME TypeOK, NEW w \in Workers
    PROVE  /\ \A s \in Step : Proceed(w, s) => work' \in [Workers -> Job]
           /\ Finish(w) => work' \in [Workers -> Job]
<1>1. ASSUME NEW s \in Step, Proceed(w, s) PROVE work' \in [Workers -> Job]
  <2>1. work[w] \in Job /\ work \in [Workers -> Job]
    BY DEF TypeOK
  <2>2. [work[w] EXCEPT !.step = s] \in Job
    BY <2>1 DEF Job
  <2> QED
    BY <1>1, <2>1, <2>2 DEF Proceed
<1>2. ASSUME Finish(w) PROVE work' \in [Workers -> Job]
  BY <1>2, IdleType DEF Finish, TypeOK
<1> QED
  BY <1>1, <1>2

\* A verdict, with or without a dead letter, keeps the type of the rows.
LEMMA VerdictType ==
    ASSUME TypeOK, NEW e
    PROVE  /\ [event EXCEPT ![e].status = "processed"] \in [Events -> EventRow]
           /\ [event EXCEPT ![e].status = "duplicate"] \in [Events -> EventRow]
           /\ [event EXCEPT ![e].dead = @ + 1, ![e].status = "failed"] \in [Events -> EventRow]
<1>1. event \in [Events -> EventRow]
  BY DEF TypeOK
<1>2. ASSUME NEW x \in Events
      PROVE  /\ [event[x] EXCEPT !.status = "processed"] \in EventRow
             /\ [event[x] EXCEPT !.status = "duplicate"] \in EventRow
             /\ [event[x] EXCEPT !.dead = @ + 1, !.status = "failed"] \in EventRow
  <2>1. event[x] \in EventRow
    BY <1>1
  <2>2. {"processed", "duplicate", "failed"} \subseteq EventStatus
    BY DEF EventStatus
  <2>3. ASSUME NEW row \in EventRow, NEW v \in EventStatus
        PROVE  /\ [row EXCEPT !.status = v] \in EventRow
               /\ [row EXCEPT !.dead = @ + 1, !.status = v] \in EventRow
    <3>1. row.dead + 1 \in Nat
      BY DEF EventRow
    <3>2. \A n \in Nat : [row EXCEPT !.dead = n, !.status = v] \in EventRow
      BY DEF EventRow
    <3>3. [row EXCEPT !.status = v] \in EventRow
      BY DEF EventRow
    <3> QED
      BY <3>1, <3>2, <3>3
  <2> QED
    BY <2>1, <2>2, <2>3
<1> QED
  BY <1>1, <1>2

\* The steps of a task keep the types.
LEMMA ContinueType ==
    ASSUME TypeOK, JobsMakeSense, NEW w \in Workers, Continue(w) PROVE TypeOK'
<1> DEFINE e == work[w].event
<1>0. ASSUME work[w].step # "idle" PROVE e \in Events
  BY <1>0, Bounds DEF JobsMakeSense, MakesSense, TypeOK
<1>1. CASE ProcessRead(w)
  <2>1. work' \in [Workers -> Job]
    <3>1. CASE Proceed(w, "mark") \/ Proceed(w, "route")
      BY <3>1, StepType DEF Step
    <3>2. CASE work' = [work EXCEPT ![w].step = "apply", ![w].status = message.status]
      <4>1. work[w] \in Job /\ work \in [Workers -> Job] /\ message.status \in MessageStatus
        BY DEF TypeOK
      <4>2. "apply" \in Step
        BY DEF Step
      <4>3. [work[w] EXCEPT !.step = "apply", !.status = message.status] \in Job
        BY <4>1, <4>2 DEF Job
      <4> QED
        BY <3>2, <4>1, <4>3
    <3> QED
      BY <1>1, <3>1, <3>2 DEF ProcessRead
  <2> QED
    BY <1>1, <2>1 DEF TypeOK, ProcessRead, lanes, ledger, inbox, history
<1>2. CASE ProcessNotFound(w)
  <2>1. work' \in [Workers -> Job]
    BY <1>2, StepType DEF ProcessNotFound, Step
  <2>2. processQ' \in [Events -> [Attempts -> Nat]]
    <3>1. CASE UNCHANGED processQ
      BY <3>1 DEF TypeOK
    <3>2. CASE /\ work[w].attempt < AttemptCap
               /\ processQ' = [processQ EXCEPT ![e][work[w].attempt + 1] = @ + 1]
      <4>1. work[w].attempt + 1 \in Attempts
        <5>1. work[w].attempt \in Attempts
          BY DEF TypeOK, Job
        <5> QED
          BY <3>2, <5>1, Bounds
      <4> QED
        BY <1>0, <1>2, <3>2, <4>1, ProcessLaneType DEF ProcessNotFound
    <3> QED
      BY <1>2, <3>1, <3>2 DEF ProcessNotFound
  <2> QED
    BY <1>2, <2>1, <2>2 DEF TypeOK, ProcessNotFound, ledger, inbox, history
<1>3. CASE ProcessDuplicate(w)
  <2>1. work' \in [Workers -> Job]
    BY <1>3, StepType DEF ProcessDuplicate
  <2>2. event' \in [Events -> EventRow]
    BY <1>3, VerdictType DEF ProcessDuplicate
  <2> QED
    BY <1>3, <2>1, <2>2 DEF TypeOK, ProcessDuplicate, lanes, ledger, inbox, history
<1>4. CASE ProcessApply(w)
  <2>1. work' \in [Workers -> Job]
    BY <1>4, StepType DEF ProcessApply
  <2>2. event' \in [Events -> EventRow]
    BY <1>4, VerdictType DEF ProcessApply
  <2>3. log' \in [Events -> Nat]
    BY <1>0, <1>4, LaneType DEF ProcessApply, TypeOK
  <2>4. message' \in [status : MessageStatus, wamid : BOOLEAN]
    <3>1. event[e].fact \in MessageStatus
      BY <1>4, FactKinds DEF ProcessApply, JobsMakeSense, MakesSense
    <3> QED
      BY <1>4, <3>1 DEF ProcessApply, TypeOK
  <2> QED
    BY <1>4, <2>1, <2>2, <2>3, <2>4 DEF TypeOK, ProcessApply, lanes, inbox, history
<1>5. CASE ProcessRoute(w)
  <2>1. work' \in [Workers -> Job]
    BY <1>5, StepType DEF ProcessRoute, Step
  <2>2. event' \in [Events -> EventRow]
    BY <1>5, VerdictType DEF ProcessRoute
  <2> QED
    BY <1>5, <2>1, <2>2 DEF TypeOK, ProcessRoute, lanes, ledger, inbox, history
<1>6. CASE ProcessDispatch(w)
  <2>1. work' \in [Workers -> Job]
    BY <1>6, StepType DEF ProcessDispatch
  <2>2. inboundQ' \in [Events -> Nat]
    BY <1>0, <1>6, LaneType DEF ProcessDispatch, TypeOK
  <2> QED
    BY <1>6, <2>1, <2>2 DEF TypeOK, ProcessDispatch, ledger, inbox, history
<1>7. CASE DeadLetter(w)
  <2>1. work' \in [Workers -> Job]
    BY <1>7, StepType DEF DeadLetter
  <2>2. event' \in [Events -> EventRow]
    BY <1>7, VerdictType DEF DeadLetter
  <2> QED
    BY <1>7, <2>1, <2>2 DEF TypeOK, DeadLetter, lanes, ledger, inbox, history
<1>8. CASE InboundStore(w)
  <2>1. work' \in [Workers -> Job]
    BY <1>8, StepType DEF InboundStore
  <2>2. contact' \in ContactState
    BY <1>8 DEF InboundStore, TypeOK, ContactState
  <2>3. thread' \in [exists : BOOLEAN, unread : Nat]
    <3>1. work[w].unread \in Nat
      BY DEF TypeOK, Job
    <3> QED
      BY <1>8, <3>1 DEF InboundStore
  <2>4. copies' \in [Inbounds -> Nat]
    <3>1. event[e].fact \in Inbounds
      BY <1>8 DEF InboundStore, JobsMakeSense, MakesSense
    <3> HIDE DEF e
    <3>2. copies \in [Inbounds -> Nat] /\ copies' = [copies EXCEPT ![event[e].fact] = @ + 1]
      BY <1>8 DEF InboundStore, TypeOK, e
    <3> QED
      BY <3>1, <3>2
  <2>5. fresh' \in Nat
    BY <1>8 DEF InboundStore, TypeOK
  <2> QED
    BY <1>8, <2>1, <2>2, <2>3, <2>4, <2>5 DEF TypeOK, InboundStore, lanes, ledger, history
<1>9. CASE InboundCollides(w)
  <2>1. work' \in [Workers -> Job]
    BY <1>9, StepType DEF InboundCollides, Step
  <2> QED
    BY <1>9, <2>1 DEF TypeOK, InboundCollides, lanes, ledger, inbox, history
<1> QED
  BY <1>1, <1>2, <1>3, <1>4, <1>5, <1>6, <1>7, <1>8, <1>9 DEF Continue

\* A task that waits once more keeps the types of its lane.
LEMMA RequeueType ==
    ASSUME TypeOK, JobsMakeSense, NEW w \in Workers, work[w].step # "idle", Requeue(w)
    PROVE  processQ' \in [Events -> [Attempts -> Nat]] /\ inboundQ' \in [Events -> Nat]
<1>1. work[w].event \in Events
  BY Bounds DEF JobsMakeSense, MakesSense, TypeOK
<1>2. work[w].attempt \in Attempts
  BY DEF TypeOK, Job
<1>3. CASE work[w].lane = "process"
  <2>1. /\ processQ' = [processQ EXCEPT ![work[w].event][work[w].attempt] = @ + 1]
        /\ inboundQ' = inboundQ
    BY <1>3 DEF Requeue
  <2> QED
    BY <1>1, <1>2, <2>1, ProcessLaneType DEF TypeOK
<1>4. CASE work[w].lane # "process"
  <2>1. inboundQ' = [inboundQ EXCEPT ![work[w].event] = @ + 1] /\ processQ' = processQ
    BY <1>4 DEF Requeue
  <2> QED
    BY <1>1, <2>1, LaneType DEF TypeOK
<1> QED
  BY <1>3, <1>4

\* A worker that dies, or a task delivered again, keeps the types.
LEMMA FailureType == ASSUME TypeOK, JobsMakeSense, Failure PROVE TypeOK'
<1>1. ASSUME NEW w \in Workers, Crash(w) PROVE TypeOK'
  <2>1. faults' \in 0 .. MaxFaults /\ UNCHANGED <<reads, deletes, overlap>>
    BY <1>1, FaultType DEF Crash
  <2>2. processQ' \in [Events -> [Attempts -> Nat]] /\ inboundQ' \in [Events -> Nat]
    BY <1>1, RequeueType DEF Crash
  <2>3. work' \in [Workers -> Job]
    BY <1>1, StepType DEF Crash
  <2> QED
    BY <1>1, <2>1, <2>2, <2>3 DEF TypeOK, Crash, ledger, inbox
<1>2. ASSUME NEW w \in Workers, Redeliver(w) PROVE TypeOK'
  <2>1. faults' \in 0 .. MaxFaults /\ UNCHANGED <<reads, deletes, overlap>>
    BY <1>2, FaultType DEF Redeliver
  <2>2. processQ' \in [Events -> [Attempts -> Nat]] /\ inboundQ' \in [Events -> Nat]
    BY <1>2, RequeueType DEF Redeliver
  <2> QED
    BY <1>2, <2>1, <2>2 DEF TypeOK, Redeliver, ledger, inbox
<1> QED
  BY <1>1, <1>2 DEF Failure

\* Every step keeps the types.
LEMMA NextType == ASSUME TypeOK, JobsMakeSense, [Next]_vars PROVE TypeOK'
<1>1. CASE UNCHANGED vars
  BY <1>1 DEF TypeOK, vars, lanes, ledger, inbox, history
<1> QED
  BY <1>1, RequestType, BeginType, ContinueType, FailureType DEF Next

-----------------------------------------------------------------------------
(* Rows and their history only grow.                                       *)

\* No step takes a row back, changes its fact or removes what was logged.
LEMMA RowsKept ==
    ASSUME TypeOK, KnownRows, JobsMakeSense, [Next]_vars
    PROVE  /\ received \in Nat /\ received' \in {received, received + 1}
           /\ \A x \in 1 .. received :
                x \in Events /\ event'[x].fact = event[x].fact /\ log'[x] >= log[x]
<1>0. received \in Nat /\ \A x \in 1 .. received : x \in Events
  BY Bounds DEF TypeOK
<1>1. ASSUME NEW f \in Facts, Deliver(f)
      PROVE  /\ received' = received + 1
             /\ \A x \in 1 .. received :
                  event'[x].fact = event[x].fact /\ log'[x] >= log[x]
  <2>1. received' = received + 1 /\ log' = log
    BY <1>1 DEF Deliver, ledger
  <2>2. ASSUME NEW x \in 1 .. received PROVE event'[x] = event[x]
    <3>1. x # received + 1
      BY <1>0
    <3> QED
      BY <1>0, <1>1, <3>1 DEF Deliver, TypeOK
  <2>3. \A x \in Events : log[x] \in Nat
    BY DEF TypeOK
  <2> QED
    BY <1>0, <2>1, <2>2, <2>3
<1>2. ASSUME UNCHANGED <<received, event, log>>
      PROVE  /\ received' = received
             /\ \A x \in 1 .. received :
                  event'[x].fact = event[x].fact /\ log'[x] >= log[x]
  BY <1>0, <1>2 DEF TypeOK
<1>3. ASSUME NEW w \in Workers, ProcessDuplicate(w) \/ ProcessRoute(w) \/ DeadLetter(w)
      PROVE  /\ received' = received
             /\ \A x \in 1 .. received :
                  event'[x].fact = event[x].fact /\ log'[x] >= log[x]
  <2>1. ASSUME NEW x \in Events PROVE event'[x].fact = event[x].fact
    <3>1. event \in [Events -> EventRow] /\ event[x] \in EventRow
      BY DEF TypeOK
    <3>2. CASE ProcessDuplicate(w)
      BY <3>1, <3>2 DEF ProcessDuplicate, EventRow
    <3>3. CASE ProcessRoute(w)
      BY <3>1, <3>3 DEF ProcessRoute, EventRow
    <3>4. CASE DeadLetter(w)
      BY <3>1, <3>4 DEF DeadLetter, EventRow
    <3> QED
      BY <1>3, <3>2, <3>3, <3>4
  <2>2. received' = received /\ log' = log
    BY <1>3 DEF ProcessDuplicate, ProcessRoute, DeadLetter, ledger
  <2>3. \A x \in Events : log[x] \in Nat
    BY DEF TypeOK
  <2> QED
    BY <1>0, <2>1, <2>2, <2>3
<1>4. ASSUME NEW w \in Workers, ProcessApply(w)
      PROVE  /\ received' = received
             /\ \A x \in 1 .. received :
                  event'[x].fact = event[x].fact /\ log'[x] >= log[x]
  <2>1. \A x \in Events : event'[x].fact = event[x].fact
    BY <1>4 DEF ProcessApply, TypeOK, EventRow
  <2>2. received' = received
    BY <1>4 DEF ProcessApply
  <2>3. \A x \in Events : log'[x] >= log[x]
    BY <1>4 DEF ProcessApply, TypeOK
  <2> QED
    BY <1>0, <2>1, <2>2, <2>3
<1>5. \/ \E f \in Facts : Deliver(f)
      \/ UNCHANGED <<received, event, log>>
      \/ \E w \in Workers : ProcessDuplicate(w) \/ ProcessRoute(w) \/ DeadLetter(w)
      \/ \E w \in Workers : ProcessApply(w)
  <2>1. CASE UNCHANGED vars
    BY <2>1 DEF vars, ledger
  <2>2. CASE Request
    <3>1. StoreWamid => UNCHANGED <<received, event, log>>
      BY DEF StoreWamid
    <3>2. MarkRead => UNCHANGED <<received, event, log>>
      BY DEF MarkRead, ledger
    <3>3. DeleteContact => UNCHANGED <<received, event, log>>
      BY DEF DeleteContact, ledger
    <3> QED
      BY <2>2, <3>1, <3>2, <3>3 DEF Request
  <2>3. CASE Begin
    BY <2>3 DEF Begin, Ingest, InboundSkip, ProcessSkip, InboundBegin, ProcessBegin, ledger
  <2>4. ASSUME NEW w \in Workers, Continue(w) PROVE <1>5!:
    BY <2>4 DEF Continue, ProcessRead, ProcessNotFound, ProcessDispatch, InboundStore,
                InboundCollides, ledger
  <2>5. CASE Failure
    BY <2>5 DEF Failure, Crash, Redeliver, ledger
  <2> QED
    BY <2>1, <2>2, <2>3, <2>4, <2>5 DEF Next
<1> QED
  BY <1>0, <1>1, <1>2, <1>3, <1>4, <1>5

\* What was logged on behalf of another row stays logged.
LEMMA LoggedStays ==
    ASSUME TypeOK, KnownRows, JobsMakeSense, [Next]_vars,
           NEW e \in 1 .. received, LoggedElsewhere(e)
    PROVE  LoggedElsewhere(e)'
<1>1. PICK x \in Events \ {e} : event[x].fact = event[e].fact /\ log[x] > 0
  BY DEF LoggedElsewhere
<1>2. x \in 1 .. received
  BY <1>1, RowsKept DEF KnownRows, TypeOK
<1>3. log'[x] > 0
  <2>1. log[x] \in Nat /\ log'[x] \in Nat
    BY <1>1, NextType DEF TypeOK
  <2> QED
    BY <1>1, <1>2, <2>1, RowsKept
<1> QED
  BY <1>1, <1>2, <1>3, RowsKept DEF LoggedElsewhere

-----------------------------------------------------------------------------
(* Rows that exist, and jobs that make sense.                              *)

\* KnownRows holds after a step that only touches rows that exist then, and
\* enqueues none but inbound messages in the inbound lane.
LEMMA KnownFrom ==
    ASSUME TypeOK, KnownRows, JobsMakeSense, [Next]_vars,
           \A x \in Events : x > received' =>
             /\ ingestQ'[x] = ingestQ[x] /\ log'[x] = log[x] /\ event'[x] = event[x]
             /\ processQ'[x] = processQ[x],
           \A x \in Events : inboundQ'[x] > 0 =>
             inboundQ[x] > 0 \/ (x \in 1 .. received /\ event[x].fact \in Inbounds)
    PROVE  KnownRows'
<1> SUFFICES ASSUME NEW x \in Events
             PROVE  /\ x > received' => ingestQ'[x] = 0 /\ log'[x] = 0 /\ event'[x] = NoEvent
                    /\ x > received' => \A a \in Attempts : processQ'[x][a] = 0
                    /\ inboundQ'[x] > 0 => x <= received' /\ event'[x].fact \in Inbounds
  BY DEF KnownRows, NoEvent, NoFact
<1>1. received \in Nat /\ received' \in {received, received + 1}
  BY RowsKept
<1>2. ASSUME x > received'
      PROVE  /\ ingestQ'[x] = 0 /\ log'[x] = 0 /\ event'[x] = NoEvent
             /\ \A a \in Attempts : processQ'[x][a] = 0
  <2>1. x > received
    BY <1>1, <1>2
  <2> QED
    BY <1>2, <2>1 DEF KnownRows
<1>3. ASSUME inboundQ'[x] > 0 PROVE x <= received' /\ event'[x].fact \in Inbounds
  <2>1. x \in 1 .. received /\ event[x].fact \in Inbounds
    BY <1>1, <1>3 DEF KnownRows
  <2> QED
    BY <1>1, <2>1, RowsKept
<1> QED
  BY <1>2, <1>3

\* Every step keeps KnownRows.
LEMMA NextKnown ==
    ASSUME TypeOK, KnownRows, JobsMakeSense, [Next]_vars
    PROVE  KnownRows'
<1> DEFINE Known == \A x \in Events : x > received' =>
             /\ ingestQ'[x] = ingestQ[x] /\ log'[x] = log[x] /\ event'[x] = event[x]
             /\ processQ'[x] = processQ[x]
           Lane == \A x \in Events : inboundQ'[x] > 0 =>
             inboundQ[x] > 0 \/ (x \in 1 .. received /\ event[x].fact \in Inbounds)
<1>0. received \in 0 .. MaxEvents /\ MaxEvents \in Nat
  BY Bounds DEF TypeOK
<1>1. ASSUME NEW f \in Facts, Deliver(f) PROVE Known /\ Lane
  <2>1. received' = received + 1 /\ UNCHANGED <<log, processQ, inboundQ>>
    BY <1>1 DEF Deliver, ledger
  <2>2. ASSUME NEW x \in Events, x > received'
        PROVE  ingestQ'[x] = ingestQ[x] /\ event'[x] = event[x]
    <3>1. x # received + 1
      BY <1>0, <2>1, <2>2
    <3> QED
      BY <1>1, <3>1 DEF Deliver, TypeOK
  <2> QED
    BY <2>1, <2>2
<1>2. ASSUME UNCHANGED <<event, received, lanes, log>> PROVE Known /\ Lane
  BY <1>2 DEF lanes
<1>3. ASSUME NEW e \in Events, Ingest(e) PROVE Known /\ Lane
  <2>1. e <= received
    BY <1>0, <1>3 DEF Ingest, KnownRows
  <2>2. UNCHANGED <<event, received, log, inboundQ>>
    BY <1>3 DEF Ingest, ledger
  <2>3. \A x \in Events : x # e => ingestQ'[x] = ingestQ[x] /\ processQ'[x] = processQ[x]
    BY <1>3 DEF Ingest, TypeOK
  <2> QED
    BY <1>0, <2>1, <2>2, <2>3
<1>4. ASSUME NEW e \in Events, \/ InboundSkip(e)
                               \/ \E w \in Workers : InboundBegin(w, e)
      PROVE  Known /\ Lane
  <2>1. UNCHANGED <<event, received, log, ingestQ, processQ>>
    BY <1>4 DEF InboundSkip, InboundBegin, ledger
  <2>2. inboundQ' = [inboundQ EXCEPT ![e] = @ - 1] /\ inboundQ[e] > 0
    BY <1>4 DEF InboundSkip, InboundBegin
  <2> QED
    BY <2>1, <2>2 DEF TypeOK
<1>5. ASSUME NEW e \in Events, NEW a \in Attempts,
             ProcessSkip(e, a) \/ \E w \in Workers : ProcessBegin(w, e, a)
      PROVE  Known /\ Lane
  <2>1. UNCHANGED <<event, received, log, ingestQ, inboundQ>>
    BY <1>5 DEF ProcessSkip, ProcessBegin, ledger
  <2>2. processQ' = [processQ EXCEPT ![e][a] = @ - 1] /\ processQ[e][a] > 0
    BY <1>5 DEF ProcessSkip, ProcessBegin
  <2>3. e <= received
    BY <1>0, <2>2 DEF KnownRows
  <2> QED
    BY <1>0, <2>1, <2>2, <2>3 DEF TypeOK
<1>6. ASSUME NEW w \in Workers, Continue(w) PROVE Known /\ Lane
  <2>0. work[w].step # "idle"
    BY <1>6 DEF Continue, ProcessRead, ProcessNotFound, ProcessDuplicate, ProcessApply,
                ProcessRoute, ProcessDispatch, DeadLetter, InboundStore, InboundCollides
  <2>1. work[w].event \in 1 .. received /\ MakesSense(w)
    BY <2>0 DEF JobsMakeSense, MakesSense
  <2>2. CASE \/ ProcessRead(w) \/ InboundStore(w) \/ InboundCollides(w)
    BY <1>2, <2>2 DEF ProcessRead, InboundStore, InboundCollides, ledger
  <2>3. CASE \/ ProcessDuplicate(w) \/ ProcessRoute(w) \/ DeadLetter(w) \/ ProcessApply(w)
    <3>1. UNCHANGED <<received, lanes>>
      BY <2>3 DEF ProcessDuplicate, ProcessRoute, DeadLetter, ProcessApply
    <3>2. \A x \in Events : x # work[w].event => event'[x] = event[x] /\ log'[x] = log[x]
      BY <2>3 DEF ProcessDuplicate, ProcessRoute, DeadLetter, ProcessApply, TypeOK, ledger
    <3> QED
      BY <1>0, <2>1, <3>1, <3>2 DEF lanes
  <2>4. CASE ProcessNotFound(w)
    <3>1. UNCHANGED <<received, event, log, ingestQ, inboundQ>>
      BY <2>4 DEF ProcessNotFound, ledger
    <3>2. \A x \in Events : x # work[w].event => processQ'[x] = processQ[x]
      BY <2>4 DEF ProcessNotFound, TypeOK
    <3> QED
      BY <1>0, <2>1, <3>1, <3>2
  <2>5. CASE ProcessDispatch(w)
    <3>1. UNCHANGED <<received, event, log, ingestQ, processQ>>
      BY <2>5 DEF ProcessDispatch, ledger
    <3>2. \A x \in Events : x # work[w].event => inboundQ'[x] = inboundQ[x]
      BY <2>5 DEF ProcessDispatch, TypeOK
    <3>3. event[work[w].event].fact \in Inbounds
      BY <2>1, <2>5 DEF ProcessDispatch, MakesSense
    <3> QED
      BY <2>1, <3>1, <3>2, <3>3
  <2> QED
    BY <1>6, <2>2, <2>3, <2>4, <2>5 DEF Continue
<1>7. ASSUME NEW w \in Workers, Crash(w) \/ Redeliver(w) PROVE Known /\ Lane
  <2>1. work[w].event \in 1 .. received /\ MakesSense(w)
    BY <1>7 DEF Crash, Redeliver, JobsMakeSense, MakesSense
  <2>2. UNCHANGED <<received, event, log, ingestQ>> /\ Requeue(w)
    BY <1>7 DEF Crash, Redeliver, ledger
  <2>3. \A x \in Events : x # work[w].event =>
          processQ'[x] = processQ[x] /\ inboundQ'[x] = inboundQ[x]
    BY <2>2 DEF Requeue, TypeOK
  <2>4. CASE work[w].lane = "process"
    <3>1. inboundQ' = inboundQ
      BY <2>2, <2>4 DEF Requeue
    <3> QED
      BY <1>0, <2>1, <2>2, <2>3, <3>1
  <2>5. CASE work[w].lane # "process"
    <3>1. work[w].lane = "inbound"
      BY <2>5 DEF TypeOK, Job
    <3>2. event[work[w].event].fact \in Inbounds
      BY <2>1, <3>1 DEF MakesSense
    <3> QED
      BY <1>0, <2>1, <2>2, <2>3, <3>2
  <2> QED
    BY <2>4, <2>5
<1>8. Known /\ Lane
  <2> HIDE DEF Known, Lane
  <2>1. CASE UNCHANGED vars
    BY <1>2, <2>1 DEF vars, ledger
  <2>2. CASE Request
    BY <1>1, <1>2, <2>2 DEF Request, StoreWamid, MarkRead, DeleteContact, ledger
  <2>3. CASE Begin
    BY <1>3, <1>4, <1>5, <2>3 DEF Begin
  <2>4. CASE Failure
    BY <1>7, <2>4 DEF Failure
  <2> QED
    BY <1>6, <2>1, <2>2, <2>3, <2>4 DEF Next
<1> QED
  BY <1>8, KnownFrom

\* A job that made sense by the rows before a step makes sense after it.
LEMMA SenseFrom ==
    ASSUME TypeOK, KnownRows, JobsMakeSense, [Next]_vars, NEW w \in Workers,
           NEW e, e = work'[w].event, e \in 1 .. received,
           work'[w].step = "apply" => event[e].fact \in Receipts,
           work'[w].step \in {"route", "dispatch", "store"} \/ work'[w].lane = "inbound" =>
             event[e].fact \in Inbounds,
           work'[w].step = "mark" /\ event[e].fact \in Receipts => LoggedElsewhere(e)
    PROVE  MakesSense(w)'
<1>1. e \in 1 .. received' /\ event'[e].fact = event[e].fact
  BY RowsKept
<1>2. LoggedElsewhere(e) => LoggedElsewhere(e)'
  BY LoggedStays
<1>3. LoggedElsewhere(work[w].event)' <=> LoggedElsewhere(e)'
  BY DEF LoggedElsewhere
<1> QED
  BY <1>1, <1>2, <1>3 DEF MakesSense

\* Every step keeps JobsMakeSense.
LEMMA NextJobs ==
    ASSUME TypeOK, KnownRows, JobsMakeSense, VerdictsHaveEvidence, [Next]_vars
    PROVE  JobsMakeSense'
<1> SUFFICES ASSUME NEW w \in Workers, work'[w].step # "idle" PROVE MakesSense(w)'
  BY DEF JobsMakeSense
<1>0. received \in 0 .. MaxEvents /\ MaxEvents \in Nat
  BY Bounds DEF TypeOK
<1>1. CASE work'[w] = work[w]
  <2>1. MakesSense(w)
    BY <1>1 DEF JobsMakeSense
  <2> QED
    BY <1>1, <2>1, SenseFrom DEF MakesSense
<1>2. ASSUME NEW e \in Events, InboundBegin(w, e) PROVE MakesSense(w)'
  <2>1. work'[w].step = "store" /\ work'[w].event = e
    BY <1>2 DEF InboundBegin, Take, Idle, TypeOK
  <2>2. e \in 1 .. received /\ event[e].fact \in Inbounds
    BY <1>0, <1>2 DEF InboundBegin, KnownRows
  <2> QED
    BY <2>1, <2>2, SenseFrom
<1>3. ASSUME NEW e \in Events, NEW a \in Attempts, ProcessBegin(w, e, a) PROVE MakesSense(w)'
  <2>1. work'[w].step \in {"bury", "read"} /\ work'[w].lane = "process" /\ work'[w].event = e
    BY <1>3 DEF ProcessBegin, Take, Idle, TypeOK
  <2>2. e \in 1 .. received
    BY <1>0, <1>3 DEF ProcessBegin, KnownRows
  <2> QED
    BY <2>1, <2>2, SenseFrom
<1>4. ASSUME Continue(w) PROVE MakesSense(w)'
  <2> DEFINE e == work[w].event
  <2>0. work[w].step # "idle"
    BY <1>4 DEF Continue, ProcessRead, ProcessNotFound, ProcessDuplicate, ProcessApply,
                ProcessRoute, ProcessDispatch, DeadLetter, InboundStore, InboundCollides
  <2>1. e \in 1 .. received /\ MakesSense(w) /\ work[w] \in Job
    BY <2>0 DEF JobsMakeSense, MakesSense, TypeOK
  <2>2. ASSUME ~Finish(w) PROVE work'[w].event = e /\ work'[w].lane = work[w].lane
    BY <1>4, <2>1, <2>2 DEF Continue, ProcessRead, ProcessNotFound, ProcessDuplicate,
          ProcessApply, ProcessRoute, ProcessDispatch, DeadLetter, InboundStore,
          InboundCollides, Proceed, TypeOK, Job
  <2>3. ~Finish(w)
    BY DEF Finish, Idle, TypeOK
  <2>4. CASE ProcessRead(w)
    <3>1. CASE Sibling(e) /\ work'[w].step = "mark"
      <4>1. event[e].fact \in Receipts => LoggedElsewhere(e)
        BY <3>1 DEF Sibling, LoggedElsewhere, VerdictsHaveEvidence
      <4> QED
        BY <2>1, <2>2, <2>3, <3>1, <4>1, SenseFrom DEF MakesSense
    <3>2. CASE event[e].fact \in Inbounds /\ work'[w].step = "route"
      BY <2>1, <2>2, <2>3, <3>2, SenseFrom DEF MakesSense
    <3>3. CASE event[e].fact \in Receipts /\ work'[w].step = "apply"
      BY <2>1, <2>2, <2>3, <3>3, SenseFrom DEF MakesSense
    <3> QED
      BY <2>1, <2>4, <3>1, <3>2, <3>3 DEF ProcessRead, Proceed, TypeOK, Job
  <2>5. CASE work'[w].step \in {"bury", "dispatch"}
    <3>1. work'[w].step = "dispatch" => event[e].fact \in Inbounds
      BY <1>4, <2>0, <2>1, <2>3, <2>5 DEF Continue, ProcessRead, ProcessNotFound,
            ProcessDuplicate, ProcessApply, ProcessRoute, ProcessDispatch, DeadLetter,
            InboundStore, InboundCollides, Proceed, TypeOK, Job, MakesSense
    <3> QED
      BY <2>1, <2>2, <2>3, <2>5, <3>1, SenseFrom DEF MakesSense
  <2>6. ProcessRead(w) \/ work'[w].step \in {"bury", "dispatch"}
    BY <1>4, <2>1, <2>3 DEF Continue, ProcessNotFound,
          ProcessDuplicate, ProcessApply, ProcessRoute, ProcessDispatch, DeadLetter,
          InboundStore, InboundCollides, Proceed, TypeOK, Job
  <2> QED
    BY <2>4, <2>5, <2>6
<1>5. \/ work'[w] = work[w]
      \/ \E e \in Events : InboundBegin(w, e)
      \/ \E e \in Events, a \in Attempts : ProcessBegin(w, e, a)
      \/ Continue(w)
  <2>1. CASE UNCHANGED work
    BY <2>1
  <2>2. CASE UNCHANGED vars \/ Request
    BY <2>1, <2>2 DEF vars, Request, StoreWamid, MarkRead, DeleteContact, Deliver
  <2>3. CASE Begin
    <3>1. ASSUME NEW v \in Workers, v # w, NEW job, Take(v, job) PROVE work'[w] = work[w]
      BY <3>1 DEF Take, TypeOK
    <3> QED
      BY <2>1, <2>3, <3>1
         DEF Begin, Ingest, InboundSkip, ProcessSkip, InboundBegin, ProcessBegin
  <2>4. ASSUME NEW v \in Workers, v # w, Continue(v) PROVE work'[w] = work[w]
    BY <2>4 DEF Continue, ProcessRead, ProcessNotFound, ProcessDuplicate,
          ProcessApply, ProcessRoute, ProcessDispatch, DeadLetter, InboundStore,
          InboundCollides, Proceed, Finish, TypeOK
  <2>5. CASE Failure
    <3>1. ASSUME NEW v \in Workers, Crash(v) PROVE work'[w] = work[w]
      <4>1. w # v
        BY <3>1 DEF Crash, Finish, Idle, TypeOK
      <4> QED
        BY <3>1, <4>1 DEF Crash, Finish, TypeOK
    <3> QED
      BY <2>5, <3>1 DEF Failure, Redeliver
  <2> QED
    BY <2>2, <2>3, <2>4, <2>5 DEF Next
<1> QED
  BY <1>1, <1>2, <1>3, <1>4, <1>5

-----------------------------------------------------------------------------
(* Verdicts.                                                               *)

\* What the evidence of one row is.
HasEvidence(x) ==
    /\ event[x].status = "failed" => event[x].dead > 0
    /\ event[x].fact \in Receipts =>
         /\ event[x].status = "processed" => log[x] > 0
         /\ event[x].status = "duplicate" => LoggedElsewhere(x)

\* A row that no step touches keeps its evidence.
LEMMA EvidenceStays ==
    ASSUME TypeOK, KnownRows, JobsMakeSense, [Next]_vars, NEW x \in Events,
           HasEvidence(x), event'[x] = event[x], log'[x] = log[x]
    PROVE  HasEvidence(x)'
<1>1. CASE x > received
  <2>1. event[x].status = "none"
    BY <1>1 DEF KnownRows, NoEvent
  <2> QED
    BY <2>1 DEF HasEvidence
<1>2. CASE x \in 1 .. received
  <2>1. LoggedElsewhere(x) => LoggedElsewhere(x)'
    BY <1>2, LoggedStays
  <2> QED
    BY <2>1 DEF HasEvidence
<1> QED
  BY <1>1, <1>2 DEF TypeOK

\* The status of the message has a logged callback, as long as it does not change.
LEMMA StatusEvidenceStays ==
    ASSUME TypeOK, KnownRows, JobsMakeSense, VerdictsHaveEvidence, [Next]_vars,
           message'.status = message.status, message'.status # "accepted"
    PROVE  \E x \in Events : event'[x].fact = message'.status /\ log'[x] > 0
<1>1. PICK x \in Events : event[x].fact = message.status /\ log[x] > 0
  BY DEF VerdictsHaveEvidence
<1>2. x \in 1 .. received
  BY <1>1, RowsKept DEF KnownRows, TypeOK
<1>3. log[x] \in Nat /\ log'[x] \in Nat
  BY NextType DEF TypeOK
<1> QED
  BY <1>1, <1>2, <1>3, RowsKept

\* Every step keeps the verdicts true.
LEMMA NextVerdicts ==
    ASSUME TypeOK, KnownRows, JobsMakeSense, VerdictsHaveEvidence, [Next]_vars
    PROVE  VerdictsHaveEvidence'
<1> DEFINE Truth  == \A x \in Events : HasEvidence(x)'
           Status == message'.status # "accepted" =>
                       \E x \in Events : event'[x].fact = message'.status /\ log'[x] > 0
<1>0. \A x \in Events : HasEvidence(x)
  BY DEF VerdictsHaveEvidence, HasEvidence
<1>1. ASSUME UNCHANGED <<event, log>>, message'.status = message.status PROVE Truth /\ Status
  BY <1>0, <1>1, EvidenceStays, StatusEvidenceStays
<1>2. ASSUME NEW f \in Facts, Deliver(f) PROVE Truth /\ Status
  <2>1. message' = message /\ log' = log
    BY <1>2 DEF Deliver, ledger
  <2>2. ASSUME NEW x \in Events PROVE HasEvidence(x)'
    <3>1. CASE x = received + 1
      <4>1. event'[x].status = "received"
        BY <1>2, <3>1 DEF Deliver, TypeOK
      <4> QED
        BY <4>1 DEF HasEvidence
    <3>2. CASE x # received + 1
      <4>1. event'[x] = event[x]
        BY <1>2, <3>2 DEF Deliver, TypeOK
      <4> QED
        BY <1>0, <2>1, <4>1, EvidenceStays
    <3> QED
      BY <3>1, <3>2
  <2> QED
    BY <2>1, <2>2, StatusEvidenceStays
<1>3. ASSUME NEW w \in Workers, Continue(w) PROVE Truth /\ Status
  <2> PICK e : e = work[w].event
    OBVIOUS
  <2>1. work[w].step # "idle"
    BY <1>3 DEF Continue, ProcessRead, ProcessNotFound, ProcessDuplicate, ProcessApply,
                ProcessRoute, ProcessDispatch, DeadLetter, InboundStore, InboundCollides
  <2>2. e \in 1 .. received /\ e \in Events /\ MakesSense(w)
    BY <2>1, RowsKept DEF JobsMakeSense, MakesSense
  <2>3. event \in [Events -> EventRow] /\ event[e] \in EventRow
    BY <2>2 DEF TypeOK
  <2>4. CASE ProcessDuplicate(w)
    <3>1. message' = message /\ log' = log
      BY <2>4 DEF ProcessDuplicate, ledger
    <3>2. event'[e] = [event[e] EXCEPT !.status = "duplicate"]
      BY <2>2, <2>3, <2>4 DEF ProcessDuplicate
    <3>3. HasEvidence(e)'
      <4>1. event'[e].status = "duplicate" /\ event'[e].fact = event[e].fact
        BY <2>3, <3>2 DEF EventRow
      <4>2. event[e].fact \in Receipts => LoggedElsewhere(e)
        BY <2>2, <2>4 DEF ProcessDuplicate, MakesSense
      <4>3. LoggedElsewhere(e) => LoggedElsewhere(e)'
        BY <2>2, LoggedStays
      <4> QED
        BY <4>1, <4>2, <4>3 DEF HasEvidence
    <3>4. \A x \in Events : x # e => event'[x] = event[x]
      BY <2>3, <2>4 DEF ProcessDuplicate
    <3> QED
      BY <1>0, <3>1, <3>3, <3>4, EvidenceStays, StatusEvidenceStays
  <2>5. CASE ProcessRoute(w)
    <3>1. message' = message /\ log' = log
      BY <2>5 DEF ProcessRoute, ledger
    <3>2. HasEvidence(e)'
      <4>1. event'[e].status = "processed" /\ event'[e].fact = event[e].fact
        BY <2>2, <2>3, <2>5 DEF ProcessRoute, EventRow
      <4>2. event[e].fact \notin Receipts
        BY <2>2, <2>5, FactKinds DEF ProcessRoute, MakesSense
      <4> QED
        BY <4>1, <4>2 DEF HasEvidence
    <3>3. \A x \in Events : x # e => event'[x] = event[x]
      BY <2>3, <2>5 DEF ProcessRoute
    <3> QED
      BY <1>0, <3>1, <3>2, <3>3, EvidenceStays, StatusEvidenceStays
  <2>6. CASE DeadLetter(w)
    <3>1. message' = message /\ log' = log
      BY <2>6 DEF DeadLetter, ledger
    <3>2. HasEvidence(e)'
      <4>1. event'[e] = [event[e] EXCEPT !.dead = event[e].dead + 1, !.status = "failed"]
        BY <2>2, <2>3, <2>6 DEF DeadLetter
      <4>2. event'[e].status = "failed" /\ event'[e].dead > 0
        BY <2>3, <4>1 DEF EventRow
      <4> QED
        BY <4>2 DEF HasEvidence
    <3>3. \A x \in Events : x # e => event'[x] = event[x]
      BY <2>3, <2>6 DEF DeadLetter
    <3> QED
      BY <1>0, <3>1, <3>2, <3>3, EvidenceStays, StatusEvidenceStays
  <2>7. CASE ProcessApply(w)
    <3>1. event'[e].status = "processed" /\ event'[e].fact = event[e].fact
      BY <2>2, <2>3, <2>7 DEF ProcessApply, EventRow
    <3>2. log'[e] > 0
      BY <2>2, <2>7 DEF ProcessApply, TypeOK
    <3>3. HasEvidence(e)'
      BY <3>1, <3>2 DEF HasEvidence
    <3>4. \A x \in Events : x # e => event'[x] = event[x] /\ log'[x] = log[x]
      BY <2>3, <2>7 DEF ProcessApply, TypeOK
    <3>5. message'.status = message.status \/ message'.status = event[e].fact
      BY <2>7 DEF ProcessApply, TypeOK
    <3>6. Status
      BY <2>2, <3>1, <3>2, <3>5, StatusEvidenceStays
    <3>7. Truth
      BY <1>0, <3>3, <3>4, EvidenceStays
    <3> QED
      BY <3>6, <3>7
  <2>8. CASE UNCHANGED <<event, log, message>>
    BY <1>1, <2>8
  <2> HIDE DEF Truth, Status
  <2> QED
    BY <1>3, <2>4, <2>5, <2>6, <2>7, <2>8
       DEF Continue, ProcessRead, ProcessNotFound, ProcessDispatch, InboundStore,
           InboundCollides, ledger
<1>4. Truth /\ Status
  <2> HIDE DEF Truth, Status
  <2>1. CASE UNCHANGED <<event, log, message>>
    BY <1>1, <2>1
  <2>2. CASE UNCHANGED vars
    BY <2>1, <2>2 DEF vars, ledger
  <2>3. CASE StoreWamid
    BY <1>1, <2>3 DEF StoreWamid, TypeOK
  <2>4. CASE Request
    BY <1>2, <2>1, <2>3, <2>4 DEF Request, MarkRead, DeleteContact, ledger
  <2>5. CASE Begin
    BY <2>1, <2>5
       DEF Begin, Ingest, InboundSkip, ProcessSkip, InboundBegin, ProcessBegin, ledger
  <2>6. CASE Failure
    BY <2>1, <2>6 DEF Failure, Crash, Redeliver, ledger
  <2> QED
    BY <1>3, <2>2, <2>4, <2>5, <2>6 DEF Next
<1> QED
  BY <1>4 DEF VerdictsHaveEvidence, HasEvidence

-----------------------------------------------------------------------------
(* One task at a time.                                                     *)

\* A status that advances is one the current status may go on to.
LEMMA AdvancesIsOnward ==
    ASSUME NEW current \in MessageStatus, NEW incoming \in MessageStatus,
           advances(current, incoming)
    PROVE  incoming \in Onward[current]
<1>1. CASE current = "accepted"
  BY <1>1 DEF MessageStatus, advances, STATUS_RANK, Onward
<1>2. CASE current = "sent"
  BY <1>2 DEF MessageStatus, advances, STATUS_RANK, Onward
<1>3. CASE current = "delivered"
  BY <1>3 DEF MessageStatus, advances, STATUS_RANK, Onward
<1>4. CASE current = "read"
  BY <1>4 DEF MessageStatus, advances, STATUS_RANK, Onward
<1>5. CASE current = "failed"
  BY <1>5 DEF advances
<1> QED
  BY <1>1, <1>2, <1>3, <1>4, <1>5 DEF MessageStatus

\* What a worker has read is still true, and it is alone.
AloneAndRight(w) ==
    /\ \A v \in Workers \ {w} : work[v].step = "idle"
    /\ work[w].step = "apply" => work[w].status = message.status
    /\ work[w].step = "store" =>
         copies[event[work[w].event].fact] = 0 /\ fresh <= work[w].unread

\* Two tasks that have overlapped have done so for good.
LEMMA OverlapStays == ASSUME TypeOK, [Next]_vars, ~overlap' PROVE ~overlap
<1>1. CASE UNCHANGED overlap
  BY <1>1
<1>2. ASSUME NEW k, Fault(k) PROVE ~overlap
  BY <1>2 DEF Fault
<1>3. CASE UNCHANGED vars \/ Request
  BY <1>1, <1>2, <1>3
     DEF vars, history, Request, Deliver, StoreWamid, MarkRead, DeleteContact
<1>4. CASE Begin
  BY <1>1, <1>2, <1>4 DEF Begin, Ingest, InboundSkip, ProcessSkip, InboundBegin,
     ProcessBegin, Take, history
<1>5. ASSUME NEW w \in Workers, Continue(w) PROVE ~overlap
  BY <1>1, <1>5 DEF Continue, ProcessRead, ProcessNotFound, ProcessDuplicate,
     ProcessApply, ProcessRoute, ProcessDispatch, DeadLetter, InboundStore,
     InboundCollides, history
<1>6. CASE Failure
  BY <1>2, <1>6 DEF Failure, Crash, Redeliver
<1> QED
  BY <1>3, <1>4, <1>5, <1>6 DEF Next

\* A worker that goes on with its task leaves the others as they are.
LEMMA OthersStay ==
    ASSUME TypeOK, NEW w \in Workers, Continue(w), NEW v \in Workers \ {w}
    PROVE  work'[v] = work[v]
BY DEF Continue, ProcessRead, ProcessNotFound, ProcessDuplicate, ProcessApply,
       ProcessRoute, ProcessDispatch, DeadLetter, InboundStore, InboundCollides,
       Proceed, Finish, TypeOK

\* Every step keeps what holds as long as no two tasks ran together.
LEMMA NextSerial ==
    ASSUME IInv, [Next]_vars PROVE SerialReadsHold' /\ SerialStoresOnce'
<1> USE DEF IInv
<1> SUFFICES ASSUME ~overlap'
             PROVE  /\ \A w \in Workers : work'[w].step # "idle" => AloneAndRight(w)'
                    /\ fresh' <= thread'.unread /\ \A f \in Inbounds : copies'[f] <= 1
  BY DEF SerialReadsHold, SerialStoresOnce, AloneAndRight
<1> DEFINE Goal == /\ \A w \in Workers : work'[w].step # "idle" => AloneAndRight(w)'
                   /\ fresh' <= thread'.unread /\ \A f \in Inbounds : copies'[f] <= 1
<1>1. ~overlap
  BY OverlapStays
<1>2. \A w \in Workers : work[w].step # "idle" => AloneAndRight(w)
  BY <1>1 DEF SerialReadsHold, AloneAndRight
<1>3. fresh <= thread.unread /\ \A f \in Inbounds : copies[f] <= 1
  BY <1>1 DEF SerialStoresOnce
<1>4. /\ fresh \in Nat /\ thread.unread \in Nat /\ \A f \in Inbounds : copies[f] \in Nat
      /\ \A w \in Workers : work[w].unread \in Nat
  BY DEF TypeOK, Job
<1>5. ASSUME NEW w \in Workers, work[w].step # "idle"
      PROVE  work[w].event \in 1 .. received /\ event'[work[w].event].fact = event[work[w].event].fact
  BY <1>5, RowsKept DEF JobsMakeSense, MakesSense
<1>6. ASSUME UNCHANGED work, message'.status = message.status, copies' = copies,
             fresh' \in {0, fresh}, fresh' <= thread'.unread
      PROVE  Goal
  <2>1. ASSUME NEW w \in Workers, work'[w].step # "idle" PROVE AloneAndRight(w)'
    <3>1. AloneAndRight(w)
      BY <1>2, <1>6, <2>1
    <3>2. event'[work'[w].event].fact = event[work[w].event].fact
      BY <1>5, <1>6, <2>1
    <3> QED
      BY <1>4, <1>6, <3>1, <3>2 DEF AloneAndRight
  <2> QED
    BY <1>3, <1>6, <2>1
<1>7. ASSUME UNCHANGED <<copies, fresh, thread>>, \A w \in Workers : work'[w].step = "idle"
      PROVE  Goal
  BY <1>3, <1>7
<1>8. ASSUME NEW w \in Workers, NEW job, Take(w, job), UNCHANGED <<copies, fresh, thread>>,
             job.step # "apply",
             job.step = "store" => copies[event[job.event].fact] = 0 /\ fresh <= job.unread,
             event' = event
      PROVE  Goal
  <2>1. work'[w] = job /\ \A v \in Workers \ {w} : work'[v] = work[v] /\ work[v].step = "idle"
    BY <1>8 DEF Take, TypeOK
  <2>2. AloneAndRight(w)'
    BY <1>8, <2>1 DEF AloneAndRight
  <2> QED
    BY <1>3, <1>8, <2>1, <2>2
<1>9. ASSUME NEW w \in Workers, Continue(w) PROVE Goal
  <2>1. work[w].step # "idle"
    BY <1>9 DEF Continue, ProcessRead, ProcessNotFound, ProcessDuplicate, ProcessApply,
                ProcessRoute, ProcessDispatch, DeadLetter, InboundStore, InboundCollides
  <2>2. \A v \in Workers \ {w} : work'[v].step = "idle"
    BY <1>2, <1>9, <2>1, OthersStay DEF AloneAndRight
  <2>3. work' \in [Workers -> Job] /\ work \in [Workers -> Job]
    BY NextType DEF TypeOK
  <2>4. CASE Finish(w) /\ UNCHANGED <<copies, fresh, thread>>
    <3>1. work'[w].step = "idle"
      BY <2>3, <2>4 DEF Finish, Idle
    <3> QED
      BY <1>7, <2>2, <2>4, <3>1
  <2>5. CASE ProcessRead(w)
    <3>1. work'[w].step \in {"mark", "route"}
            \/ (work'[w].step = "apply" /\ work'[w].status = message.status)
      BY <2>3, <2>5 DEF ProcessRead, Proceed, Job
    <3>2. UNCHANGED <<message, copies, fresh, thread>>
      BY <2>5 DEF ProcessRead, ledger, inbox
    <3>3. AloneAndRight(w)'
      BY <2>2, <3>1, <3>2 DEF AloneAndRight
    <3> QED
      BY <1>3, <2>2, <3>2, <3>3
  <2>6. CASE Proceed(w, "bury") \/ Proceed(w, "dispatch")
    <3>1. work'[w].step \in {"bury", "dispatch"}
      BY <2>3, <2>6 DEF Proceed, Job
    <3>2. UNCHANGED <<copies, fresh, thread>>
      <4>1. ~InboundStore(w)
        BY <2>3, <3>1 DEF InboundStore, Finish, Idle
      <4> QED
        BY <1>9, <4>1 DEF Continue, ProcessRead, ProcessNotFound, ProcessDuplicate,
           ProcessApply, ProcessRoute, ProcessDispatch, DeadLetter, InboundCollides, inbox
    <3>3. AloneAndRight(w)'
      BY <2>2, <3>1 DEF AloneAndRight
    <3> QED
      BY <1>3, <2>2, <3>2, <3>3
  <2>7. CASE InboundStore(w)
    <3>1. work'[w].step = "idle"
      BY <2>3, <2>7 DEF InboundStore, Finish, Idle
    <3>2. fresh' <= thread'.unread
      BY <1>2, <1>4, <2>1, <2>7 DEF InboundStore, AloneAndRight
    <3>3. ASSUME NEW f \in Inbounds PROVE copies'[f] <= 1
      <4>1. CASE f = event[work[w].event].fact
        <5>1. copies'[f] = copies[f] + 1
          BY <2>7, <4>1 DEF InboundStore, TypeOK
        <5>2. copies[f] = 0
          BY <1>2, <2>1, <2>7, <4>1 DEF InboundStore, AloneAndRight
        <5> QED
          BY <5>1, <5>2
      <4>2. CASE f # event[work[w].event].fact
        <5>1. copies'[f] = copies[f]
          BY <2>7, <4>2 DEF InboundStore, TypeOK
        <5> QED
          BY <1>3, <5>1
      <4> QED
        BY <4>1, <4>2
    <3> QED
      BY <2>2, <3>1, <3>2, <3>3
  <2> HIDE DEF Goal
  <2> QED
    BY <1>9, <2>4, <2>5, <2>6, <2>7
       DEF Continue, ProcessNotFound, ProcessDuplicate, ProcessApply, ProcessRoute,
           ProcessDispatch, DeadLetter, InboundCollides, inbox
<1>10. CASE UNCHANGED vars \/ Request
  <2>1. UNCHANGED work /\ message'.status = message.status /\ copies' = copies
    BY <1>10 DEF vars, ledger, inbox, Request, Deliver, StoreWamid, MarkRead, DeleteContact, TypeOK
  <2>2. fresh' \in {0, fresh} /\ fresh' <= thread'.unread
    <3>1. CASE MarkRead
      BY <3>1 DEF MarkRead, TypeOK
    <3>2. CASE UNCHANGED <<fresh, thread>>
      BY <1>3, <3>2
    <3> QED
      BY <1>10, <3>1, <3>2
         DEF vars, inbox, Request, Deliver, StoreWamid, DeleteContact
  <2> QED
    BY <1>6, <2>1, <2>2
<1>11. ASSUME Begin PROVE Goal
  <2>1. ASSUME NEW w \in Workers, NEW e \in Events, InboundBegin(w, e) PROVE Goal
    <3>1. PICK job : /\ Take(w, job) /\ job.step = "store" /\ job.event = e
                     /\ job.unread = thread.unread
      <4> DEFINE j == [Idle EXCEPT !.lane = "inbound", !.step = "store", !.event = e,
                                   !.contact = contact, !.thread = thread.exists,
                                   !.unread = thread.unread]
      <4>1. Take(w, j)
        BY <2>1 DEF InboundBegin
      <4>2. j.step = "store" /\ j.event = e /\ j.unread = thread.unread
        BY DEF Idle
      <4> HIDE DEF j
      <4> QED
        BY <4>1, <4>2
    <3> HIDE DEF Goal
    <3> QED
      BY <1>3, <1>8, <2>1, <3>1 DEF InboundBegin, inbox
  <2>2. ASSUME NEW w \in Workers, NEW e \in Events, NEW a \in Attempts, ProcessBegin(w, e, a)
        PROVE  Goal
    <3>1. PICK job : Take(w, job) /\ job.step \in {"bury", "read"}
      <4> DEFINE j == [Idle EXCEPT !.step = IF event[e].fact \in Poison THEN "bury" ELSE "read",
                                   !.event = e, !.attempt = a]
      <4>1. Take(w, j)
        BY <2>2 DEF ProcessBegin
      <4>2. j.step \in {"bury", "read"}
        BY DEF Idle
      <4> HIDE DEF j
      <4> QED
        BY <4>1, <4>2
    <3> HIDE DEF Goal
    <3> QED
      BY <1>8, <2>2, <3>1 DEF ProcessBegin, inbox
  <2>3. CASE UNCHANGED <<work, ledger, inbox>>
    <3>1. /\ UNCHANGED work /\ message'.status = message.status /\ copies' = copies
          /\ fresh' = fresh /\ thread' = thread
      BY <2>3 DEF ledger, inbox
    <3> HIDE DEF Goal
    <3> QED
      BY <1>3, <1>6, <3>1
  <2>4. \/ \E w \in Workers, e \in Events : InboundBegin(w, e)
        \/ \E w \in Workers, e \in Events, a \in Attempts : ProcessBegin(w, e, a)
        \/ UNCHANGED <<work, ledger, inbox>>
    BY <1>11 DEF Begin, Ingest, InboundSkip, ProcessSkip
  <2> HIDE DEF Goal
  <2> QED
    BY <2>1, <2>2, <2>3, <2>4
<1>12. ASSUME NEW w \in Workers, Crash(w) PROVE Goal
  <2>1. UNCHANGED <<copies, fresh, thread>>
    BY <1>12 DEF Crash, inbox
  <2>2. \A v \in Workers \ {w} : work[v].step = "idle"
    BY <1>2, <1>12 DEF Crash, AloneAndRight
  <2>3. \A v \in Workers : work'[v].step = "idle"
    BY <1>12, <2>2 DEF Crash, Finish, Idle, TypeOK
  <2> HIDE DEF Goal
  <2> QED
    BY <1>7, <2>1, <2>3
<1>13. ASSUME NEW w \in Workers, Redeliver(w) PROVE Goal
  <2> HIDE DEF Goal
  <2> QED
    BY <1>3, <1>6, <1>13 DEF Redeliver, ledger, inbox
<1> QED
  BY <1>9, <1>10, <1>11, <1>12, <1>13 DEF Next, Failure

-----------------------------------------------------------------------------
(* The account of copies, and the badge.                                   *)

\* What is counted key by key is finite when the keys are.
LEMMA CountedIsFinite ==
    ASSUME NEW K, IsFiniteSet(K), NEW c, \A k \in K : c[k] \in Nat
    PROVE  IsFiniteSet(UNION {{k} \X (1 .. c[k]) : k \in K})
<1> DEFINE G == [k \in K |-> {k} \X (1 .. c[k])]
           P == {{k} \X (1 .. c[k]) : k \in K}
<1>1. G \in Surjection(K, P)
  BY DEF Surjection
<1>2. IsFiniteSet(P)
  BY <1>1, FS_Surjection
<1>3. ASSUME NEW k \in K PROVE IsFiniteSet({k} \X (1 .. c[k]))
  <2>1. c[k] \in Int
    OBVIOUS
  <2>2. IsFiniteSet({k})
    BY FS_Singleton
  <2>3. IsFiniteSet(1 .. c[k])
    BY <2>1, FS_Interval
  <2> QED
    BY <2>2, <2>3, FS_Product
<1>4. \A S \in P : IsFiniteSet(S)
  BY <1>3
<1> QED
  BY <1>2, <1>4, FS_UNION

\* A total is a number.
LEMMA TotalIsNat ==
    ASSUME NEW K, IsFiniteSet(K), NEW c, \A k \in K : c[k] \in Nat
    PROVE  Total(c, K) \in Nat
BY CountedIsFinite, FS_CardinalityType DEF Total

\* It depends on the counts of its keys alone.
LEMMA TotalSame ==
    ASSUME NEW K, NEW c, NEW d, \A k \in K : c[k] = d[k]
    PROVE  Total(c, K) = Total(d, K)
BY DEF Total

\* Keys that count nothing do not matter.
LEMMA TotalSkips ==
    ASSUME NEW K, NEW L, NEW c, L \subseteq K, \A k \in K \ L : c[k] = 0
    PROVE  Total(c, K) = Total(c, L)
<1>1. UNION {{k} \X (1 .. c[k]) : k \in K} = UNION {{k} \X (1 .. c[k]) : k \in L}
  <2>1. \A k \in K \ L : 1 .. c[k] = {}
    OBVIOUS
  <2> QED
    BY <2>1
<1> QED
  BY <1>1 DEF Total

\* One more of one key is one more.
LEMMA TotalUp ==
    ASSUME NEW K, IsFiniteSet(K), NEW c, \A k \in K : c[k] \in Nat,
           NEW d, NEW j \in K, d[j] = c[j] + 1, \A k \in K \ {j} : d[k] = c[k]
    PROVE  Total(d, K) = Total(c, K) + 1
<1> DEFINE C == UNION {{k} \X (1 .. c[k]) : k \in K}
           D == UNION {{k} \X (1 .. d[k]) : k \in K}
           t == <<j, c[j] + 1>>
<1>1. t \notin C
  OBVIOUS
<1>2. D = C \cup {t}
  <2>1. ASSUME NEW k \in K PROVE {k} \X (1 .. d[k]) \subseteq C \cup {t}
    <3>1. CASE k = j
      <4>1. {k} \X (1 .. d[k]) = ({j} \X (1 .. c[j])) \cup {t}
        BY <3>1
      <4> QED
        BY <4>1
    <3>2. CASE k # j
      BY <3>2
    <3> QED
      BY <3>1, <3>2
  <2>2. ASSUME NEW k \in K PROVE {k} \X (1 .. c[k]) \subseteq D
    <3>1. {k} \X (1 .. c[k]) \subseteq {k} \X (1 .. d[k])
      <4>1. CASE k = j
        BY <4>1
      <4>2. CASE k # j
        BY <4>2
      <4> QED
        BY <4>1, <4>2
    <3> QED
      BY <3>1
  <2>3. t \in D
    <3>1. t \in {j} \X (1 .. d[j])
      OBVIOUS
    <3> QED
      BY <3>1
  <2> QED
    BY <2>1, <2>2, <2>3
<1>3. IsFiniteSet(C)
  BY CountedIsFinite
<1>4. Total(c, K) = Cardinality(C) /\ Total(d, K) = Cardinality(D)
  BY DEF Total
<1> HIDE DEF C, D, t
<1> QED
  BY <1>1, <1>2, <1>3, <1>4, FS_AddElement

\* The terms of the account are numbers.
LEMMA AccountTerms ==
    ASSUME TypeOK, NEW f
    PROVE  /\ IsFiniteSet(Rows(f)) /\ IsFiniteSet(Rows(f) \X Attempts)
           /\ ProcessLane \in [Events \X Attempts -> Nat]
           /\ Total(ingestQ, Rows(f)) \in Nat /\ Total(inboundQ, Rows(f)) \in Nat
           /\ Total(ProcessLane, Rows(f) \X Attempts) \in Nat
           /\ IsFiniteSet(Storing(f)) /\ Cardinality(Storing(f)) \in Nat
<1>1. IsFiniteSet(Events) /\ IsFiniteSet(Attempts)
  <2>1. MaxEvents \in Int /\ AttemptCap \in Int /\ 1 \in Int
    BY Bounds
  <2> QED
    BY <2>1, FS_Interval
<1>2. IsFiniteSet(Rows(f))
  BY <1>1, FS_Subset DEF Rows
<1>3. IsFiniteSet(Rows(f) \X Attempts)
  BY <1>1, <1>2, FS_Product
<1>4. ProcessLane \in [Events \X Attempts -> Nat]
  <2>1. \A p \in Events \X Attempts : processQ[p[1]][p[2]] \in Nat
    BY DEF TypeOK
  <2> HIDE DEF Events, Attempts
  <2> QED
    BY <2>1 DEF ProcessLane
<1>5. \A p \in Rows(f) \X Attempts : ProcessLane[p] \in Nat
  BY <1>4 DEF Rows
<1>6. \A e \in Rows(f) : ingestQ[e] \in Nat /\ inboundQ[e] \in Nat
  BY DEF Rows, TypeOK
<1>7. IsFiniteSet(Storing(f))
  BY WorkersAssumption, FS_Subset DEF Storing
<1> QED
  BY <1>2, <1>3, <1>4, <1>5, <1>6, <1>7, TotalIsNat, FS_CardinalityType

\* 1 for a row of f; 1 for a worker that may store f.
One(e, f) == IF event[e].fact = f THEN 1 ELSE 0
In(w, f)  == IF w \in Storing(f) THEN 1 ELSE 0

\* A task that enters or leaves a lane counts for the fact of its row.
LEMMA LaneCounts ==
    ASSUME TypeOK, NEW q \in [Events -> Nat], NEW p \in [Events -> Nat], NEW e \in Events, NEW f,
           p[e] = q[e] + 1, \A k \in Events \ {e} : p[k] = q[k]
    PROVE  /\ Total(p, Rows(f)) \in Nat /\ Total(q, Rows(f)) \in Nat
           /\ Total(p, Rows(f)) = Total(q, Rows(f)) + One(e, f)
<1>1. IsFiniteSet(Rows(f)) /\ Rows(f) \subseteq Events
  BY AccountTerms DEF Rows
<1>2. \A k \in Rows(f) : p[k] \in Nat /\ q[k] \in Nat
  BY <1>1
<1>3. Total(p, Rows(f)) \in Nat /\ Total(q, Rows(f)) \in Nat
  BY <1>1, <1>2, TotalIsNat
<1>4. CASE event[e].fact # f
  <2>1. \A k \in Rows(f) : p[k] = q[k]
    BY <1>1, <1>4 DEF Rows
  <2>2. Total(p, Rows(f)) = Total(q, Rows(f))
    BY <2>1, TotalSame
  <2> QED
    BY <1>3, <1>4, <2>2 DEF One
<1>5. CASE event[e].fact = f
  <2>1. e \in Rows(f)
    BY <1>5 DEF Rows
  <2>2. \A k \in Rows(f) \ {e} : p[k] = q[k]
    BY <1>1
  <2>3. Total(p, Rows(f)) = Total(q, Rows(f)) + 1
    BY <1>1, <1>2, <2>1, <2>2, TotalUp
  <2> QED
    BY <1>3, <1>5, <2>3 DEF One
<1> QED
  BY <1>3, <1>4, <1>5

\* One task more waits for ingest or in the inbound lane, or one less.
LEMMA LanesCount ==
    ASSUME TypeOK, NEW e \in Events, NEW f, Rows(f)' = Rows(f)
    PROVE  /\ ingestQ' = [ingestQ EXCEPT ![e] = @ - 1] /\ ingestQ[e] > 0 =>
                /\ Total(ingestQ, Rows(f))' \in Nat
                /\ Total(ingestQ, Rows(f)) =
                     Total(ingestQ, Rows(f))' + One(e, f)
           /\ inboundQ' = [inboundQ EXCEPT ![e] = @ - 1] /\ inboundQ[e] > 0 =>
                /\ Total(inboundQ, Rows(f))' \in Nat
                /\ Total(inboundQ, Rows(f)) =
                     Total(inboundQ, Rows(f))' + One(e, f)
           /\ inboundQ' = [inboundQ EXCEPT ![e] = @ + 1] =>
                /\ Total(inboundQ, Rows(f))' \in Nat
                /\ Total(inboundQ, Rows(f))' =
                     Total(inboundQ, Rows(f)) + One(e, f)
<1>1. ingestQ \in [Events -> Nat] /\ inboundQ \in [Events -> Nat]
  BY DEF TypeOK
<1>2. PICK p, q : p = ingestQ' /\ q = inboundQ'
  OBVIOUS
<1>3. Total(ingestQ, Rows(f))' = Total(p, Rows(f)) /\ Total(inboundQ, Rows(f))' = Total(q, Rows(f))
  BY <1>2
<1>4. ASSUME ingestQ' = [ingestQ EXCEPT ![e] = @ - 1], ingestQ[e] > 0
      PROVE  /\ Total(p, Rows(f)) \in Nat
             /\ Total(ingestQ, Rows(f)) = Total(p, Rows(f)) + One(e, f)
  <2>1. p \in [Events -> Nat] /\ ingestQ[e] = p[e] + 1 /\ \A k \in Events \ {e} : ingestQ[k] = p[k]
    BY <1>1, <1>2, <1>4
  <2> HIDE DEF Events
  <2> QED
    BY <1>1, <2>1, LaneCounts
<1>5. ASSUME inboundQ' = [inboundQ EXCEPT ![e] = @ - 1], inboundQ[e] > 0
      PROVE  /\ Total(q, Rows(f)) \in Nat
             /\ Total(inboundQ, Rows(f)) = Total(q, Rows(f)) + One(e, f)
  <2>1. q \in [Events -> Nat] /\ inboundQ[e] = q[e] + 1 /\ \A k \in Events \ {e} : inboundQ[k] = q[k]
    BY <1>1, <1>2, <1>5
  <2> HIDE DEF Events
  <2> QED
    BY <1>1, <2>1, LaneCounts
<1>6. ASSUME inboundQ' = [inboundQ EXCEPT ![e] = @ + 1]
      PROVE  /\ Total(q, Rows(f)) \in Nat
             /\ Total(q, Rows(f)) = Total(inboundQ, Rows(f)) + One(e, f)
  <2>1. q \in [Events -> Nat] /\ q[e] = inboundQ[e] + 1 /\ \A k \in Events \ {e} : q[k] = inboundQ[k]
    BY <1>1, <1>2, <1>6
  <2> HIDE DEF Events
  <2> QED
    BY <1>1, <2>1, LaneCounts
<1> QED
  BY <1>3, <1>4, <1>5, <1>6

\* The same of the process lane.
LEMMA ProcessLaneCounts ==
    ASSUME TypeOK, NEW e \in Events, NEW a \in Attempts, NEW f, Rows(f)' = Rows(f)
    PROVE  /\ processQ' = [processQ EXCEPT ![e][a] = @ + 1] =>
                /\ Total(ProcessLane, Rows(f) \X Attempts)' \in Nat
                /\ Total(ProcessLane, Rows(f) \X Attempts)' =
                     Total(ProcessLane, Rows(f) \X Attempts) + One(e, f)
           /\ processQ' = [processQ EXCEPT ![e][a] = @ - 1] /\ processQ[e][a] > 0 =>
                /\ Total(ProcessLane, Rows(f) \X Attempts)' \in Nat
                /\ Total(ProcessLane, Rows(f) \X Attempts) =
                     Total(ProcessLane, Rows(f) \X Attempts)' + One(e, f)
<1> DEFINE K == Rows(f) \X Attempts
<1>1. IsFiniteSet(K) /\ K \subseteq Events \X Attempts /\ Total(ProcessLane, K) \in Nat
  BY AccountTerms DEF Rows
<1>2. PICK q : q = ProcessLane'
  OBVIOUS
<1>3. ProcessLane \in [Events \X Attempts -> Nat]
  BY AccountTerms
<1>4. Total(ProcessLane, K)' = Total(q, K)
  BY <1>2
<1>5. \A p \in K : q[p] = processQ'[p[1]][p[2]] /\ ProcessLane[p] = processQ[p[1]][p[2]]
  BY <1>1, <1>2 DEF ProcessLane
<1>6. \A p \in K : p[1] \in Events /\ p[2] \in Attempts /\ p = <<p[1], p[2]>>
  BY <1>1
<1>7. <<e, a>> \in K <=> event[e].fact = f
  BY DEF Rows
<1>8. processQ \in [Events -> [Attempts -> Nat]]
  BY DEF TypeOK
<1>9. ASSUME processQ' = [processQ EXCEPT ![e][a] = @ + 1]
      PROVE  /\ Total(q, K) \in Nat
             /\ Total(q, K) = Total(ProcessLane, K) + One(e, f)
  <2>0. \A x \in Events, y \in Attempts :
          processQ'[x][y] = IF <<x, y>> = <<e, a>> THEN processQ[x][y] + 1 ELSE processQ[x][y]
    BY <1>8, <1>9
  <2> HIDE DEF K
  <2>1. \A p \in K : q[p] = IF p = <<e, a>> THEN ProcessLane[p] + 1 ELSE ProcessLane[p]
    <3> SUFFICES ASSUME NEW p \in K
                 PROVE  q[p] = IF p = <<e, a>> THEN ProcessLane[p] + 1 ELSE ProcessLane[p]
      OBVIOUS
    <3>1. PICK x \in Events, y \in Attempts : p = <<x, y>>
      BY <1>6
    <3>2. q[p] = processQ'[x][y] /\ ProcessLane[p] = processQ[x][y]
      BY <1>5, <3>1
    <3> QED
      BY <2>0, <3>1, <3>2
  <2> USE DEF K
  <2>2. CASE <<e, a>> \in K
    <3>1. Total(q, K) = Total(ProcessLane, K) + 1
      BY <1>1, <1>3, <2>1, <2>2, TotalUp
    <3> QED
      BY <1>1, <1>7, <2>2, <3>1 DEF One
  <2>3. CASE <<e, a>> \notin K
    <3>1. \A p \in K : q[p] = ProcessLane[p]
      BY <2>1, <2>3
    <3>2. Total(q, K) = Total(ProcessLane, K)
      BY <3>1, TotalSame
    <3> QED
      BY <1>1, <1>7, <2>3, <3>2 DEF One
  <2> QED
    BY <2>2, <2>3
<1>10. ASSUME processQ' = [processQ EXCEPT ![e][a] = @ - 1], processQ[e][a] > 0
       PROVE  /\ Total(q, K) \in Nat
              /\ Total(ProcessLane, K) = Total(q, K) + One(e, f)
  <2>0. \A x \in Events, y \in Attempts :
          processQ'[x][y] = IF <<x, y>> = <<e, a>> THEN processQ[x][y] - 1 ELSE processQ[x][y]
    BY <1>8, <1>10
  <2> HIDE DEF K
  <2>1. \A p \in K : q[p] = IF p = <<e, a>> THEN ProcessLane[p] - 1 ELSE ProcessLane[p]
    <3> SUFFICES ASSUME NEW p \in K
                 PROVE  q[p] = IF p = <<e, a>> THEN ProcessLane[p] - 1 ELSE ProcessLane[p]
      OBVIOUS
    <3>1. PICK x \in Events, y \in Attempts : p = <<x, y>>
      BY <1>6
    <3>2. q[p] = processQ'[x][y] /\ ProcessLane[p] = processQ[x][y]
      BY <1>5, <3>1
    <3> QED
      BY <2>0, <3>1, <3>2
  <2> USE DEF K
  <2>2. CASE <<e, a>> \in K
    <3>1. ProcessLane[<<e, a>>] > 0
      BY <1>5, <1>10, <2>2
    <3>2. \A p \in K : q[p] \in Nat /\ (p # <<e, a>> => ProcessLane[p] = q[p])
      BY <1>1, <1>3, <2>1, <3>1
    <3>3. ProcessLane[<<e, a>>] = q[<<e, a>>] + 1
      BY <1>1, <1>3, <2>1, <2>2, <3>1
    <3>4. Total(ProcessLane, K) = Total(q, K) + 1
      BY <1>1, <2>2, <3>2, <3>3, TotalUp
    <3>5. Total(q, K) \in Nat
      BY <1>1, <3>2, TotalIsNat
    <3> QED
      BY <1>7, <2>2, <3>4, <3>5 DEF One
  <2>3. CASE <<e, a>> \notin K
    <3>1. \A p \in K : q[p] = ProcessLane[p]
      BY <2>1, <2>3
    <3>2. Total(q, K) = Total(ProcessLane, K)
      BY <3>1, TotalSame
    <3> QED
      BY <1>1, <1>7, <2>3, <3>2 DEF One
  <2> QED
    BY <2>2, <2>3
<1> QED
  BY <1>4, <1>9, <1>10

\* A worker that takes or leaves a task counts for the fact of its row.
LEMMA StoringCounts ==
    ASSUME TypeOK, NEW w \in Workers, NEW f, \A v \in Workers \ {w} : work'[v] = work[v],
           \A e \in Events : event'[e].fact = event[e].fact,
           \A v \in Workers : work[v].step # "idle" => work[v].event \in Events
    PROVE  /\ Cardinality(Storing(f))' \in Nat
           /\ Cardinality(Storing(f))' + In(w, f)
                = Cardinality(Storing(f)) + In(w, f)'
<1>1. IsFiniteSet(Storing(f)) /\ Cardinality(Storing(f)) \in Nat
  BY AccountTerms
<1>2. \A v \in Workers \ {w} : v \in Storing(f)' <=> v \in Storing(f)
  BY DEF Storing
<1>3. Storing(f) \subseteq Workers /\ Storing(f)' \subseteq Workers
  BY DEF Storing
<1>4. PICK S : S = Storing(f)'
  OBVIOUS
<1>5. Cardinality(Storing(f))' = Cardinality(S)
  BY <1>4
<1>6. Cardinality(S) \in Nat
  <2>1. IsFiniteSet(S)
    BY <1>3, <1>4, WorkersAssumption, FS_Subset
  <2> QED
    BY <2>1, FS_CardinalityType
<1>7. CASE w \in S /\ w \notin Storing(f)
  <2>1. S = Storing(f) \cup {w}
    BY <1>2, <1>3, <1>4, <1>7
  <2>2. Cardinality(S) = Cardinality(Storing(f)) + 1
    BY <1>1, <1>7, <2>1, FS_AddElement
  <2> QED
    BY <1>1, <1>4, <1>5, <1>7, <2>2 DEF In
<1>8. CASE w \notin S /\ w \in Storing(f)
  <2>1. S = Storing(f) \ {w}
    BY <1>2, <1>3, <1>4, <1>8
  <2>2. Cardinality(S) = Cardinality(Storing(f)) - 1
    BY <1>1, <1>8, <2>1, FS_RemoveElement
  <2> QED
    BY <1>1, <1>4, <1>5, <1>8, <1>6, <2>2 DEF In
<1>9. CASE w \in S <=> w \in Storing(f)
  <2>1. S \subseteq Workers /\ \A v \in Workers : v \in S <=> v \in Storing(f)
    BY <1>2, <1>3, <1>4, <1>9
  <2>2. S = Storing(f)
    BY <1>3, <2>1
  <2> QED
    BY <1>1, <1>4, <1>5, <1>9, <2>2 DEF In
<1> QED
  BY <1>5, <1>7, <1>8, <1>9, <1>6

\* A row keeps its fact in all steps but its delivery.
LEMMA FactsStay ==
    ASSUME TypeOK, [Next]_vars, \A f \in Facts : ~ Deliver(f)
    PROVE  \A e \in Events : event'[e].fact = event[e].fact
<1> SUFFICES ASSUME NEW e \in Events PROVE event'[e].fact = event[e].fact
  OBVIOUS
<1>1. event \in [Events -> EventRow]
  BY DEF TypeOK
<1>2. ASSUME NEW w \in Workers, Continue(w) PROVE event'[e].fact = event[e].fact
  <2>1. CASE ProcessDuplicate(w)
    BY <1>1, <2>1 DEF ProcessDuplicate, EventRow
  <2>2. CASE ProcessApply(w)
    BY <1>1, <2>2 DEF ProcessApply, EventRow
  <2>3. CASE ProcessRoute(w)
    BY <1>1, <2>3 DEF ProcessRoute, EventRow
  <2>4. CASE DeadLetter(w)
    BY <1>1, <2>4 DEF DeadLetter, EventRow
  <2>5. CASE ProcessRead(w) \/ ProcessDispatch(w)
    BY <2>5 DEF ProcessRead, ProcessDispatch
  <2>6. CASE ProcessNotFound(w)
    BY <2>6 DEF ProcessNotFound
  <2>7. CASE InboundStore(w)
    BY <2>7 DEF InboundStore
  <2>8. CASE InboundCollides(w)
    BY <2>8 DEF InboundCollides
  <2> QED
    BY <1>2, <2>1, <2>2, <2>3, <2>4, <2>5, <2>6, <2>7, <2>8 DEF Continue
<1>3. CASE Begin
  BY <1>3 DEF Begin, Ingest, InboundSkip, ProcessSkip, InboundBegin, ProcessBegin
<1>4. CASE Failure
  BY <1>4 DEF Failure, Crash, Redeliver
<1>5. CASE StoreWamid \/ MarkRead \/ DeleteContact
  BY <1>5 DEF StoreWamid, MarkRead, DeleteContact
<1>6. CASE UNCHANGED vars
  BY <1>6 DEF vars
<1> QED
  BY <1>2, <1>3, <1>4, <1>5, <1>6 DEF Next, Request

\* A worker works on a row.
LEMMA WorkersRows ==
    ASSUME TypeOK, JobsMakeSense, NEW w \in Workers, work[w].step # "idle"
    PROVE  work[w].event \in 1 .. received /\ work[w].event \in Events /\ received \in 0 .. MaxEvents
BY Bounds DEF JobsMakeSense, MakesSense, TypeOK

\* A delivery adds a row to its fact; it is due for the delivery, or for the
\* fault that lost its task or its answer.
LEMMA DeliverAccount ==
    ASSUME TypeOK, KnownRows, JobsMakeSense, Accounted, NEW g \in Facts, Deliver(g)
    PROVE  Accounted'
<1> SUFFICES ASSUME NEW f \in Inbounds PROVE (copies[f] + Due(f) <= 1 + faults)'
  BY DEF Accounted
<1> DEFINE n == received + 1
           L == Rows(f) \ {n}
<1>0. /\ Total(ingestQ, Rows(f)) \in Nat /\ Total(inboundQ, Rows(f)) \in Nat
      /\ Total(ProcessLane, Rows(f) \X Attempts) \in Nat /\ Cardinality(Storing(f)) \in Nat
  BY AccountTerms
<1>1. n \in Events /\ ~ (n <= received) /\ n > received
  BY Bounds DEF Deliver, TypeOK
<1>2. /\ event' = [event EXCEPT ![n] = [fact |-> g, status |-> "received", dead |-> 0]]
      /\ UNCHANGED <<processQ, inboundQ, work, copies>>
  BY DEF Deliver, inbox
<1>3. Rows(f)' = IF f = g THEN L \cup {n} ELSE L
  BY <1>1, <1>2 DEF Rows, TypeOK
<1>4. ingestQ[n] = 0 /\ inboundQ[n] = 0 /\ \A a \in Attempts : processQ[n][a] = 0
  <2>1. inboundQ[n] \in Nat
    BY <1>1 DEF TypeOK
  <2> QED
    BY <1>1, <2>1 DEF KnownRows
<1>5. PICK K : K = Rows(f)' /\ K \subseteq Events /\ L \subseteq K /\ L \subseteq Rows(f)
               /\ K \ L \subseteq {n} /\ Rows(f) \ L \subseteq {n}
  BY <1>1, <1>3 DEF Rows
<1>6. Total(inboundQ, Rows(f))' = Total(inboundQ, Rows(f))
  <2>1. Total(inboundQ, K) = Total(inboundQ, L) /\ Total(inboundQ, Rows(f)) = Total(inboundQ, L)
    BY <1>4, <1>5, TotalSkips
  <2> QED
    BY <1>2, <1>5, <2>1
<1>7. Total(ProcessLane, Rows(f) \X Attempts)' = Total(ProcessLane, Rows(f) \X Attempts)
  <2>1. /\ \A p \in (K \X Attempts) \ (L \X Attempts) : ProcessLane[p] = 0
        /\ \A p \in (Rows(f) \X Attempts) \ (L \X Attempts) : ProcessLane[p] = 0
    BY <1>1, <1>4, <1>5 DEF ProcessLane, Rows
  <2>2. L \X Attempts \subseteq K \X Attempts /\ L \X Attempts \subseteq Rows(f) \X Attempts
    BY <1>5
  <2>3. /\ Total(ProcessLane, K \X Attempts) = Total(ProcessLane, L \X Attempts)
        /\ Total(ProcessLane, Rows(f) \X Attempts) = Total(ProcessLane, L \X Attempts)
    BY <2>1, <2>2, TotalSkips
  <2>4. ProcessLane' = ProcessLane
    BY <1>2 DEF ProcessLane
  <2> QED
    BY <1>5, <2>3, <2>4
<1>8. Storing(f)' = Storing(f)
  <2>1. \A w \in Workers : work[w].step # "idle" => work[w].event # n /\ work[w].event \in Events
    BY <1>1, WorkersRows
  <2>2. \A w \in Workers : work[w].step # "idle" =>
          event'[work[w].event].fact = event[work[w].event].fact
    BY <1>2, <2>1 DEF TypeOK
  <2> QED
    BY <1>2, <2>2 DEF Storing
<1>9. Total(ingestQ, Rows(f)) = Total(ingestQ, L)
  BY <1>4, <1>5, TotalSkips
<1>10. ASSUME UNCHANGED ingestQ
       PROVE  Total(ingestQ, Rows(f))' = Total(ingestQ, Rows(f))
  <2>1. Total(ingestQ, K) = Total(ingestQ, L)
    BY <1>4, <1>5, TotalSkips
  <2> QED
    BY <1>5, <1>9, <1>10, <2>1
<1>11. ASSUME ingestQ' = [ingestQ EXCEPT ![n] = @ + 1]
       PROVE  Total(ingestQ, Rows(f))' = Total(ingestQ, Rows(f)) + (IF f = g THEN 1 ELSE 0)
  <2>1. PICK q : q = ingestQ'
    OBVIOUS
  <2>2. /\ ingestQ \in [Events -> Nat] /\ q[n] = 1 /\ \A x \in Events \ {n} : q[x] = ingestQ[x]
    BY <1>1, <1>4, <1>11, <2>1 DEF TypeOK
  <2>3. Total(q, L) = Total(ingestQ, L)
    BY <2>2, <1>5, TotalSame
  <2>4. ASSUME f = g PROVE Total(q, K) = Total(ingestQ, L) + 1
    <3>1. K = L \cup {n}
      BY <1>3, <1>5, <2>4
    <3>2. Total(ingestQ, K) = Total(ingestQ, L)
      BY <1>4, <1>5, TotalSkips
    <3>3. IsFiniteSet(K)
      BY <3>1, AccountTerms, FS_Subset, FS_AddElement
    <3>4. \A x \in K : ingestQ[x] \in Nat
      BY <1>5, <2>2
    <3>5. n \in K /\ q[n] = ingestQ[n] + 1 /\ \A x \in K \ {n} : q[x] = ingestQ[x]
      BY <1>4, <1>5, <2>2, <3>1
    <3> QED
      BY <3>2, <3>3, <3>4, <3>5, TotalUp
  <2>5. ASSUME f # g PROVE Total(q, K) = Total(ingestQ, L)
    BY <1>3, <1>5, <2>3, <2>5
  <2>6. Total(ingestQ, Rows(f))' = Total(q, K)
    BY <1>5, <2>1
  <2> QED
    BY <1>0, <1>9, <2>4, <2>5, <2>6
<1>12. /\ copies' = copies /\ copies[f] \in Nat /\ faults \in Nat
       /\ Cardinality(Storing(f))' = Cardinality(Storing(f))
  BY <1>2, <1>8, Bounds DEF TypeOK
<1>13. copies[f] + Due(f) <= 1 + faults
  BY DEF Accounted
<1>14. CASE acked' = acked /\ ingestQ' = ingestQ /\ faults' = faults + 1
  BY <1>0, <1>6, <1>7, <1>10, <1>12, <1>13, <1>14 DEF Due
<1>15. CASE /\ acked' = acked /\ faults' = faults + 1
            /\ ingestQ' = [ingestQ EXCEPT ![n] = @ + 1]
  BY <1>0, <1>6, <1>7, <1>11, <1>12, <1>13, <1>15 DEF Due
<1>16. CASE /\ acked' = acked \cup {g}
            /\ (g \in acked /\ faults' = faults + 1) \/ (g \notin acked /\ faults' = faults)
            /\ ingestQ' = [ingestQ EXCEPT ![n] = @ + 1]
  BY <1>0, <1>6, <1>7, <1>11, <1>12, <1>13, <1>16 DEF Due
<1> QED
  BY <1>14, <1>15, <1>16 DEF Deliver, Fault, history

\* What counts for f when the lanes other than one, and the deliveries, stay.
LEMMA AccountNumbers ==
    ASSUME TypeOK, Accounted, NEW f \in Inbounds
    PROVE  /\ Total(ingestQ, Rows(f)) \in Nat /\ Total(inboundQ, Rows(f)) \in Nat
           /\ Total(ProcessLane, Rows(f) \X Attempts) \in Nat /\ Cardinality(Storing(f)) \in Nat
           /\ copies[f] \in Nat /\ faults \in Nat
           /\ copies[f] + Due(f) <= 1 + faults
<1>1. copies[f] \in Nat /\ faults \in Nat
  BY Bounds DEF TypeOK
<1> QED
  BY <1>1, AccountTerms DEF Accounted

\* Rows that keep their facts are the same rows; what is not touched counts as much.
LEMMA CountsStay ==
    ASSUME TypeOK, JobsMakeSense, NEW f, \A e \in Events : event'[e].fact = event[e].fact
    PROVE  /\ Rows(f)' = Rows(f)
           /\ ingestQ' = ingestQ => Total(ingestQ, Rows(f))' = Total(ingestQ, Rows(f))
           /\ inboundQ' = inboundQ => Total(inboundQ, Rows(f))' = Total(inboundQ, Rows(f))
           /\ processQ' = processQ => Total(ProcessLane, Rows(f) \X Attempts)'
                                        = Total(ProcessLane, Rows(f) \X Attempts)
           /\ work' = work => Cardinality(Storing(f))' = Cardinality(Storing(f))
<1>1. Rows(f)' = Rows(f)
  BY DEF Rows
<1>2. ASSUME processQ' = processQ PROVE ProcessLane' = ProcessLane
  BY <1>2 DEF ProcessLane
<1>3. ASSUME work' = work PROVE Storing(f)' = Storing(f)
  BY <1>3, WorkersRows DEF Storing
<1> QED
  BY <1>1, <1>2, <1>3

\* Taking a task spends its place in the lane; an ingest task that dies after it
\* has handed on, spends a fault.
LEMMA BeginAccount ==
    ASSUME TypeOK, JobsMakeSense, Accounted, Begin, [Next]_vars,
           \A e \in Events : event'[e].fact = event[e].fact
    PROVE  Accounted'
<1> SUFFICES ASSUME NEW f \in Inbounds PROVE (copies[f] + Due(f) <= 1 + faults)'
  BY DEF Accounted
<1>0. /\ Total(ingestQ, Rows(f)) \in Nat /\ Total(inboundQ, Rows(f)) \in Nat
      /\ Total(ProcessLane, Rows(f) \X Attempts) \in Nat /\ Cardinality(Storing(f)) \in Nat
      /\ copies[f] \in Nat /\ faults \in Nat
      /\ copies[f] + Due(f) <= 1 + faults
  BY AccountNumbers, Zenon
<1>1. ASSUME NEW e \in Events, Ingest(e) PROVE (copies[f] + Due(f) <= 1 + faults)'
  <2>1. /\ processQ' = [processQ EXCEPT ![e][1] = @ + 1] /\ 1 \in Attempts
        /\ UNCHANGED <<inboundQ, work, copies, acked>>
    BY <1>1, Bounds DEF Ingest, inbox
  <2>2. Total(ProcessLane, Rows(f) \X Attempts)' =
          Total(ProcessLane, Rows(f) \X Attempts) + One(e, f)
    BY <2>1, CountsStay, ProcessLaneCounts
  <2>3. CASE UNCHANGED ingestQ /\ faults' = faults + 1
    BY <1>0, <2>1, <2>2, <2>3, CountsStay DEF Due, One
  <2>4. CASE ingestQ' = [ingestQ EXCEPT ![e] = @ - 1] /\ UNCHANGED faults
    <3>1. /\ Total(ingestQ, Rows(f))' \in Nat
          /\ Total(ingestQ, Rows(f)) =
               Total(ingestQ, Rows(f))' + One(e, f)
      BY <1>1, <2>4, CountsStay, LanesCount DEF Ingest
    <3> QED
      BY <1>0, <2>1, <2>2, <2>4, <3>1, CountsStay DEF Due, One
  <2> QED
    BY <1>1, <2>3, <2>4 DEF Ingest, Fault, history
<1>2. ASSUME NEW e \in Events, NEW a \in Attempts, processQ[e][a] > 0,
             processQ' = [processQ EXCEPT ![e][a] = @ - 1],
             UNCHANGED <<ingestQ, inboundQ, copies, acked, faults>>,
             Cardinality(Storing(f))' \in Nat,
             Cardinality(Storing(f))' <=
               Cardinality(Storing(f)) + One(e, f)
      PROVE  (copies[f] + Due(f) <= 1 + faults)'
  <2>1. /\ Total(ProcessLane, Rows(f) \X Attempts)' \in Nat
        /\ Total(ProcessLane, Rows(f) \X Attempts) =
             Total(ProcessLane, Rows(f) \X Attempts)' + One(e, f)
    BY <1>2, CountsStay, ProcessLaneCounts
  <2>2. /\ Total(ingestQ, Rows(f))' = Total(ingestQ, Rows(f))
        /\ Total(inboundQ, Rows(f))' = Total(inboundQ, Rows(f))
    BY <1>2, CountsStay
  <2>3. One(e, f) \in {0, 1}
    BY DEF One
  <2> QED
    BY <1>0, <1>2, <2>1, <2>2, <2>3 DEF Due
<1>3. ASSUME NEW e \in Events, inboundQ[e] > 0, inboundQ' = [inboundQ EXCEPT ![e] = @ - 1],
             UNCHANGED <<ingestQ, processQ, copies, acked, faults>>,
             Cardinality(Storing(f))' \in Nat,
             Cardinality(Storing(f))' <=
               Cardinality(Storing(f)) + One(e, f)
      PROVE  (copies[f] + Due(f) <= 1 + faults)'
  <2>1. /\ Total(inboundQ, Rows(f))' \in Nat
        /\ Total(inboundQ, Rows(f)) =
             Total(inboundQ, Rows(f))' + One(e, f)
    BY <1>3, CountsStay, LanesCount
  <2>2. /\ Total(ingestQ, Rows(f))' = Total(ingestQ, Rows(f))
        /\ Total(ProcessLane, Rows(f) \X Attempts)' = Total(ProcessLane, Rows(f) \X Attempts)
    BY <1>3, CountsStay
  <2>3. One(e, f) \in {0, 1}
    BY DEF One
  <2> QED
    BY <1>0, <1>3, <2>1, <2>2, <2>3 DEF Due
<1>4. ASSUME NEW e \in Events, NEW a \in Attempts, ProcessSkip(e, a)
      PROVE  (copies[f] + Due(f) <= 1 + faults)'
  <2>1. UNCHANGED <<ingestQ, inboundQ, copies, acked, faults, work>> /\ processQ[e][a] > 0
    BY <1>4 DEF ProcessSkip, inbox, history
  <2>2. processQ' = [processQ EXCEPT ![e][a] = @ - 1]
    BY <1>4 DEF ProcessSkip
  <2>3. /\ Cardinality(Storing(f))' \in Nat
        /\ Cardinality(Storing(f))' <=
             Cardinality(Storing(f)) + One(e, f)
    <3>1. Cardinality(Storing(f))' = Cardinality(Storing(f)) /\ One(e, f) \in {0, 1}
      BY <2>1, CountsStay DEF One
    <3> QED
      BY <1>0, <3>1
  <2> QED
    BY <1>2, <2>1, <2>2, <2>3
<1>5. ASSUME NEW e \in Events, InboundSkip(e) PROVE (copies[f] + Due(f) <= 1 + faults)'
  <2>1. UNCHANGED <<ingestQ, processQ, copies, acked, faults, work>> /\ inboundQ[e] > 0
    BY <1>5 DEF InboundSkip, inbox, history
  <2>2. inboundQ' = [inboundQ EXCEPT ![e] = @ - 1]
    BY <1>5 DEF InboundSkip
  <2>3. /\ Cardinality(Storing(f))' \in Nat
        /\ Cardinality(Storing(f))' <=
             Cardinality(Storing(f)) + One(e, f)
    <3>1. Cardinality(Storing(f))' = Cardinality(Storing(f)) /\ One(e, f) \in {0, 1}
      BY <2>1, CountsStay DEF One
    <3> QED
      BY <1>0, <3>1
  <2> QED
    BY <1>3, <2>1, <2>2, <2>3
<1>6. ASSUME NEW w \in Workers, NEW job, Take(w, job), NEW e \in Events, job.event = e
      PROVE  /\ Cardinality(Storing(f))' \in Nat
             /\ Cardinality(Storing(f))' <=
                  Cardinality(Storing(f)) + One(e, f)
  <2>1. work' = [work EXCEPT ![w] = job] /\ work[w].step = "idle"
    BY <1>6 DEF Take
  <2>2. w \notin Storing(f) /\ (w \in Storing(f)' => event[e].fact = f)
    BY <1>6, <2>1 DEF Storing, TypeOK
  <2>3. \A v \in Workers \ {w} : work'[v] = work[v]
    BY <2>1 DEF TypeOK
  <2>4. /\ Cardinality(Storing(f))' \in Nat
        /\ Cardinality(Storing(f))' + In(w, f)
             = Cardinality(Storing(f)) + In(w, f)'
    BY <2>3, WorkersRows, StoringCounts
  <2> QED
    BY <1>0, <2>2, <2>4 DEF One, In
<1>7. ASSUME NEW w \in Workers, NEW e \in Events, NEW a \in Attempts, ProcessBegin(w, e, a)
      PROVE  (copies[f] + Due(f) <= 1 + faults)'
  <2>1. PICK job : Take(w, job) /\ job.event = e
    <3>1. Take(w, [Idle EXCEPT !.step = IF event[e].fact \in Poison THEN "bury" ELSE "read",
                               !.event = e, !.attempt = a])
      BY <1>7 DEF ProcessBegin
    <3>2. [Idle EXCEPT !.step = IF event[e].fact \in Poison THEN "bury" ELSE "read",
                               !.event = e, !.attempt = a].event = e
      BY DEF Idle
    <3> QED
      BY <3>1, <3>2
  <2>2. /\ Cardinality(Storing(f))' \in Nat
        /\ Cardinality(Storing(f))' <=
             Cardinality(Storing(f)) + One(e, f)
    BY <1>6, <2>1
  <2> QED
    BY <1>2, <1>7, <2>2 DEF ProcessBegin, Take, inbox
<1>8. ASSUME NEW w \in Workers, NEW e \in Events, InboundBegin(w, e)
      PROVE  (copies[f] + Due(f) <= 1 + faults)'
  <2>1. PICK job : Take(w, job) /\ job.event = e
    <3>1. Take(w, [Idle EXCEPT !.lane = "inbound", !.step = "store", !.event = e,
                               !.contact = contact, !.thread = thread.exists,
                               !.unread = thread.unread])
      BY <1>8 DEF InboundBegin
    <3>2. [Idle EXCEPT !.lane = "inbound", !.step = "store", !.event = e,
                       !.contact = contact, !.thread = thread.exists,
                       !.unread = thread.unread].event = e
      BY DEF Idle
    <3> QED
      BY <3>1, <3>2
  <2>2. /\ Cardinality(Storing(f))' \in Nat
        /\ Cardinality(Storing(f))' <=
             Cardinality(Storing(f)) + One(e, f)
    BY <1>6, <2>1
  <2> QED
    BY <1>3, <1>8, <2>2 DEF InboundBegin, Take, inbox
<1> QED
  BY <1>1, <1>4, <1>5, <1>7, <1>8 DEF Begin

\* A step of a running task: it stays what it was, hands on to the inbound lane,
\* or stores.
LEMMA ContinueAccount ==
    ASSUME TypeOK, JobsMakeSense, Accounted, NEW w \in Workers, Continue(w),
           \A e \in Events : event'[e].fact = event[e].fact
    PROVE  Accounted'
<1> SUFFICES ASSUME NEW f \in Inbounds PROVE (copies[f] + Due(f) <= 1 + faults)'
  BY DEF Accounted
<1> DEFINE e == work[w].event
<1>0. /\ Total(ingestQ, Rows(f)) \in Nat /\ Total(inboundQ, Rows(f)) \in Nat
      /\ Total(ProcessLane, Rows(f) \X Attempts) \in Nat /\ Cardinality(Storing(f)) \in Nat
      /\ copies[f] \in Nat /\ faults \in Nat
      /\ copies[f] + Due(f) <= 1 + faults
  BY AccountNumbers, Zenon
<1>1. work[w].step # "idle"
  BY DEF Continue, ProcessRead, ProcessNotFound, ProcessDuplicate, ProcessApply, ProcessRoute,
         ProcessDispatch, DeadLetter, InboundStore, InboundCollides
<1>2. e \in Events /\ event'[e].fact = event[e].fact
  BY <1>1, WorkersRows
<1>3. /\ Cardinality(Storing(f))' \in Nat
      /\ Cardinality(Storing(f))' + In(w, f) = Cardinality(Storing(f)) + In(w, f)'
  BY OthersStay, WorkersRows, StoringCounts
<1>4. Rows(f)' = Rows(f)
  BY CountsStay
<1>5. ASSUME UNCHANGED <<ingestQ, inboundQ, copies, acked, faults>>,
             Total(ProcessLane, Rows(f) \X Attempts)' = Total(ProcessLane, Rows(f) \X Attempts),
             work'[w] = Idle \/ work'[w].event = e,
             work'[w].step \in {"read", "route", "dispatch", "store"} =>
               work[w].step \in {"read", "route", "dispatch", "store"}
      PROVE  (copies[f] + Due(f) <= 1 + faults)'
  <2>1. w \in Storing(f)' => w \in Storing(f)
    BY <1>2, <1>5 DEF Storing, Idle
  <2>2. Cardinality(Storing(f))' <= Cardinality(Storing(f))
    BY <1>0, <1>3, <2>1 DEF In
  <2>3. /\ Total(ingestQ, Rows(f))' = Total(ingestQ, Rows(f))
        /\ Total(inboundQ, Rows(f))' = Total(inboundQ, Rows(f))
    BY <1>5, CountsStay
  <2> QED
    BY <1>0, <1>3, <1>5, <2>2, <2>3 DEF Due
<1>6. CASE ProcessRead(w) \/ ProcessRoute(w) \/ InboundCollides(w)
  <2>1. UNCHANGED <<ingestQ, inboundQ, processQ, copies, acked, faults>>
    BY <1>6 DEF ProcessRead, ProcessRoute, InboundCollides, inbox, history, lanes
  <2>2. work'[w].event = e
    BY <1>6 DEF ProcessRead, ProcessRoute, InboundCollides, Proceed, TypeOK, Job
  <2>3. work[w].step \in {"read", "route"} \/ work'[w].step = "bury"
    BY <1>6 DEF ProcessRead, ProcessRoute, InboundCollides, Proceed, TypeOK, Job
  <2> QED
    BY <1>5, <2>1, <2>2, <2>3, CountsStay
<1>7. CASE ProcessDuplicate(w) \/ ProcessApply(w) \/ DeadLetter(w)
  <2>1. UNCHANGED <<ingestQ, inboundQ, processQ, copies, acked, faults>>
    BY <1>7 DEF ProcessDuplicate, ProcessApply, DeadLetter, inbox, history, lanes
  <2>2. work'[w] = Idle /\ work'[w].step = "idle"
    <3>1. Finish(w)
      BY <1>7 DEF ProcessDuplicate, ProcessApply, DeadLetter
    <3>2. work'[w] = Idle
      BY <3>1 DEF Finish, TypeOK
    <3> QED
      BY <3>2 DEF Idle
  <2> QED
    BY <1>5, <2>1, <2>2, CountsStay
<1>8. CASE ProcessNotFound(w)
  <2>1. UNCHANGED <<ingestQ, inboundQ, copies, acked, faults>>
    BY <1>8 DEF ProcessNotFound, inbox, history
  <2>2. work[w].step = "read" /\ (work'[w] = Idle \/ work'[w].event = e)
    BY <1>8 DEF ProcessNotFound, Proceed, Finish, TypeOK, Job
  <2>3. One(e, f) = 0
    BY <1>8, FactKinds DEF ProcessNotFound, One
  <2>4. CASE UNCHANGED processQ
    BY <1>5, <2>1, <2>2, <2>4, CountsStay
  <2>5. CASE ~ UNCHANGED processQ
    <3>1. PICK a \in Attempts : processQ' = [processQ EXCEPT ![e][a] = @ + 1]
      <4>1. work[w].attempt \in Attempts
        BY DEF TypeOK, Job
      <4>2. /\ work[w].attempt < AttemptCap
            /\ processQ' = [processQ EXCEPT ![e][work[w].attempt + 1] = @ + 1]
        BY <1>8, <2>5 DEF ProcessNotFound
      <4>3. work[w].attempt + 1 \in Attempts
        BY <4>1, <4>2, Bounds
      <4> QED
        BY <4>2, <4>3
    <3>2. Total(ProcessLane, Rows(f) \X Attempts)' = Total(ProcessLane, Rows(f) \X Attempts)
      <4>1. Total(ProcessLane, Rows(f) \X Attempts)'
              = Total(ProcessLane, Rows(f) \X Attempts) + One(e, f)
        BY <1>2, <1>4, <3>1, ProcessLaneCounts
      <4> QED
        BY <1>0, <2>3, <4>1
    <3> QED
      BY <1>5, <2>1, <2>2, <3>2
  <2> QED
    BY <2>4, <2>5
<1>9. CASE ProcessDispatch(w)
  <2>1. UNCHANGED <<ingestQ, processQ, copies, acked, faults>>
    BY <1>9 DEF ProcessDispatch, inbox, history
  <2>2. work[w].step = "dispatch" /\ work'[w].step = "idle"
    BY <1>9 DEF ProcessDispatch, Finish, TypeOK, Idle
  <2>3. In(w, f) = One(e, f) /\ In(w, f)' = 0 /\ One(e, f) \in {0, 1}
    BY <2>2 DEF In, One, Storing
  <2>4. /\ Total(inboundQ, Rows(f))' \in Nat
        /\ Total(inboundQ, Rows(f))' = Total(inboundQ, Rows(f)) + One(e, f)
    BY <1>2, <1>4, <1>9, LanesCount DEF ProcessDispatch
  <2>5. /\ Total(ingestQ, Rows(f))' = Total(ingestQ, Rows(f))
        /\ Total(ProcessLane, Rows(f) \X Attempts)' = Total(ProcessLane, Rows(f) \X Attempts)
    BY <2>1, CountsStay
  <2> QED
    BY <1>0, <1>3, <2>1, <2>3, <2>4, <2>5 DEF Due
<1>10. CASE InboundStore(w)
  <2>1. UNCHANGED <<ingestQ, processQ, inboundQ, acked, faults>>
    BY <1>10 DEF InboundStore, lanes, history
  <2>2. work[w].step = "store" /\ work'[w].step = "idle"
    BY <1>10 DEF InboundStore, Finish, TypeOK, Idle
  <2>3. In(w, f) = One(e, f) /\ In(w, f)' = 0 /\ One(e, f) \in {0, 1}
    BY <2>2 DEF In, One, Storing
  <2>4. copies'[f] = copies[f] + One(e, f)
    <3>1. copies' = [copies EXCEPT ![event[e].fact] = @ + 1] /\ copies \in [Inbounds -> Nat]
      BY <1>10 DEF InboundStore, TypeOK
    <3> QED
      BY <3>1 DEF One
  <2>5. /\ Total(ingestQ, Rows(f))' = Total(ingestQ, Rows(f))
        /\ Total(inboundQ, Rows(f))' = Total(inboundQ, Rows(f))
        /\ Total(ProcessLane, Rows(f) \X Attempts)' = Total(ProcessLane, Rows(f) \X Attempts)
    BY <2>1, CountsStay
  <2> QED
    BY <1>0, <1>3, <2>1, <2>3, <2>4, <2>5 DEF Due
<1> QED
  BY <1>6, <1>7, <1>8, <1>9, <1>10 DEF Continue

\* A task that comes once more costs a fault.
LEMMA FailureAccount ==
    ASSUME TypeOK, JobsMakeSense, Accounted, Failure,
           \A e \in Events : event'[e].fact = event[e].fact
    PROVE  Accounted'
<1> SUFFICES ASSUME NEW f \in Inbounds PROVE (copies[f] + Due(f) <= 1 + faults)'
  BY DEF Accounted
<1>0. /\ Total(ingestQ, Rows(f)) \in Nat /\ Total(inboundQ, Rows(f)) \in Nat
      /\ Total(ProcessLane, Rows(f) \X Attempts) \in Nat /\ Cardinality(Storing(f)) \in Nat
      /\ copies[f] \in Nat /\ faults \in Nat
      /\ copies[f] + Due(f) <= 1 + faults
  BY AccountNumbers, Zenon
<1>1. PICK w \in Workers : Crash(w) \/ Redeliver(w)
  BY DEF Failure
<1> DEFINE e == work[w].event
<1>2. /\ work[w].step # "idle" /\ Requeue(w) /\ faults' = faults + 1
      /\ UNCHANGED <<ingestQ, copies, acked>>
  BY <1>1 DEF Crash, Redeliver, Fault, inbox
<1>3. e \in Events /\ work[w].attempt \in Attempts
  BY <1>2, WorkersRows DEF TypeOK, Job
<1>4. Rows(f)' = Rows(f) /\ Total(ingestQ, Rows(f))' = Total(ingestQ, Rows(f))
  BY <1>2, CountsStay
<1>5. Cardinality(Storing(f))' \in Nat /\ Cardinality(Storing(f))' <= Cardinality(Storing(f))
  <2>1. CASE Crash(w)
    <3>1. work'[w].step = "idle" /\ \A v \in Workers \ {w} : work'[v] = work[v]
      BY <2>1 DEF Crash, Finish, Idle, TypeOK
    <3>2. /\ Cardinality(Storing(f))' \in Nat
          /\ Cardinality(Storing(f))' + In(w, f) = Cardinality(Storing(f)) + In(w, f)'
      BY <3>1, WorkersRows, StoringCounts
    <3>3. In(w, f) \in {0, 1} /\ In(w, f)' = 0
      BY <3>1 DEF In, Storing
    <3> QED
      BY <1>0, <3>2, <3>3
  <2>2. CASE Redeliver(w)
    <3>1. Cardinality(Storing(f))' = Cardinality(Storing(f))
      BY <2>2, CountsStay DEF Redeliver
    <3> QED
      BY <1>0, <3>1
  <2> QED
    BY <1>1, <2>1, <2>2
<1>6. One(e, f) \in {0, 1}
  BY DEF One
<1>7. CASE work[w].lane = "process"
  <2>1. processQ' = [processQ EXCEPT ![e][work[w].attempt] = @ + 1] /\ inboundQ' = inboundQ
    BY <1>2, <1>7 DEF Requeue
  <2>2. /\ Total(ProcessLane, Rows(f) \X Attempts)' \in Nat
        /\ Total(ProcessLane, Rows(f) \X Attempts)' =
             Total(ProcessLane, Rows(f) \X Attempts) + One(e, f)
    BY <1>3, <1>4, <2>1, ProcessLaneCounts
  <2>3. Total(inboundQ, Rows(f))' = Total(inboundQ, Rows(f))
    BY <2>1, CountsStay
  <2> QED
    BY <1>0, <1>2, <1>4, <1>5, <1>6, <2>2, <2>3 DEF Due
<1>8. CASE work[w].lane # "process"
  <2>1. inboundQ' = [inboundQ EXCEPT ![e] = @ + 1] /\ processQ' = processQ
    BY <1>2, <1>8 DEF Requeue
  <2>2. /\ Total(inboundQ, Rows(f))' \in Nat
        /\ Total(inboundQ, Rows(f))' = Total(inboundQ, Rows(f)) + One(e, f)
    BY <1>3, <1>4, <2>1, LanesCount
  <2>3. Total(ProcessLane, Rows(f) \X Attempts)' = Total(ProcessLane, Rows(f) \X Attempts)
    BY <2>1, CountsStay
  <2> QED
    BY <1>0, <1>2, <1>4, <1>5, <1>6, <2>2, <2>3 DEF Due
<1> QED
  BY <1>7, <1>8

\* The account is kept by every step.
LEMMA NextAccount ==
    ASSUME TypeOK, KnownRows, JobsMakeSense, Accounted, [Next]_vars
    PROVE  Accounted'
<1>1. ASSUME NEW g \in Facts, Deliver(g) PROVE Accounted'
  BY <1>1, DeliverAccount
<1>2. CASE \A g \in Facts : ~ Deliver(g)
  <2>1. \A e \in Events : event'[e].fact = event[e].fact
    BY <1>2, FactsStay
  <2>2. CASE UNCHANGED <<lanes, work, copies, acked, faults>>
    <3> SUFFICES ASSUME NEW f \in Inbounds PROVE (copies[f] + Due(f) <= 1 + faults)'
      BY DEF Accounted
    <3>1. /\ Total(ingestQ, Rows(f))' = Total(ingestQ, Rows(f))
          /\ Total(inboundQ, Rows(f))' = Total(inboundQ, Rows(f))
          /\ Total(ProcessLane, Rows(f) \X Attempts)' = Total(ProcessLane, Rows(f) \X Attempts)
          /\ Cardinality(Storing(f))' = Cardinality(Storing(f))
      BY <2>1, <2>2, CountsStay DEF lanes
    <3>2. copies[f] + Due(f) <= 1 + faults
      BY DEF Accounted
    <3> QED
      BY <2>2, <3>1, <3>2 DEF Due
  <2>3. CASE StoreWamid \/ MarkRead \/ DeleteContact
    BY <2>2, <2>3 DEF StoreWamid, MarkRead, DeleteContact, inbox, history
  <2>4. CASE UNCHANGED vars
    BY <2>2, <2>4 DEF vars, inbox, history
  <2> QED
    BY <1>2, <2>1, <2>3, <2>4, BeginAccount, ContinueAccount, FailureAccount DEF Next, Request
<1> QED
  BY <1>1, <1>2

\* The copies of all messages count one more with each one stored, and the badge
\* one more than what its task has read.
LEMMA NextBadges ==
    ASSUME TypeOK, JobsMakeSense, BadgesAreBacked, [Next]_vars
    PROVE  BadgesAreBacked'
<1> DEFINE T == Total(copies, Inbounds)
<1>0. IsFiniteSet(Inbounds) /\ \A f \in Inbounds : copies[f] \in Nat
  BY FactsAssumption DEF TypeOK
<1>1. T \in Nat
  BY <1>0, TotalIsNat
<1>2. thread.unread \in Nat /\ \A w \in Workers : work[w].unread \in Nat
  BY DEF TypeOK, Job
<1>3. thread.unread <= T /\ \A w \in Workers : work[w].unread <= T
  BY DEF BadgesAreBacked, UnreadIsBacked
<1>4. ASSUME NEW w \in Workers, InboundStore(w) PROVE BadgesAreBacked'
  <2>1. PICK c : c = copies'
    OBVIOUS
  <2>2. event[work[w].event].fact \in Inbounds
    BY <1>4 DEF InboundStore, JobsMakeSense, MakesSense
  <2>3. /\ c[event[work[w].event].fact] = copies[event[work[w].event].fact] + 1
        /\ \A f \in Inbounds \ {event[work[w].event].fact} : c[f] = copies[f]
    BY <1>4, <2>1, <2>2 DEF InboundStore, TypeOK
  <2>4. Total(c, Inbounds) = T + 1
    BY <1>0, <2>2, <2>3, TotalUp
  <2>5. T' = T + 1
    BY <2>1, <2>4
  <2>6. thread'.unread = work[w].unread + 1
    BY <1>4 DEF InboundStore
  <2>7. \A v \in Workers : work'[v].unread \in {0, work[v].unread}
    BY <1>4 DEF InboundStore, Finish, Idle, TypeOK
  <2> QED
    BY <1>1, <1>2, <1>3, <2>5, <2>6, <2>7 DEF BadgesAreBacked, UnreadIsBacked
<1>5. ASSUME UNCHANGED copies, thread'.unread \in {0, thread.unread},
             \A v \in Workers : work'[v].unread \in {0, work[v].unread, thread.unread}
      PROVE  BadgesAreBacked'
  <2>1. T' = T
    BY <1>5
  <2> QED
    BY <1>1, <1>3, <1>5, <2>1 DEF BadgesAreBacked, UnreadIsBacked
<1>6. CASE UNCHANGED <<copies, thread, work>>
  BY <1>5, <1>6
<1>7. CASE Request
  BY <1>5, <1>6, <1>7 DEF Request, StoreWamid, MarkRead, DeleteContact, Deliver, inbox, TypeOK
<1>8. CASE Begin
  <2>1. ASSUME NEW w \in Workers, NEW job, Take(w, job), job.unread \in {0, thread.unread},
               UNCHANGED <<copies, thread>>
        PROVE  BadgesAreBacked'
    <3>1. \A v \in Workers : work'[v].unread \in {0, work[v].unread, thread.unread}
      BY <2>1 DEF Take, TypeOK
    <3> QED
      BY <1>5, <2>1, <3>1
  <2>2. ASSUME NEW w \in Workers, NEW e \in Events, InboundBegin(w, e) PROVE BadgesAreBacked'
    <3>1. [Idle EXCEPT !.lane = "inbound", !.step = "store", !.event = e,
                       !.contact = contact, !.thread = thread.exists,
                       !.unread = thread.unread].unread = thread.unread
      BY DEF Idle
    <3> QED
      BY <2>1, <2>2, <3>1 DEF InboundBegin, inbox
  <2>3. ASSUME NEW w \in Workers, NEW e \in Events, NEW a \in Attempts, ProcessBegin(w, e, a)
        PROVE  BadgesAreBacked'
    <3>1. [Idle EXCEPT !.step = IF event[e].fact \in Poison THEN "bury" ELSE "read",
                       !.event = e, !.attempt = a].unread = 0
      BY DEF Idle
    <3> QED
      BY <2>1, <2>3, <3>1 DEF ProcessBegin, inbox
  <2> QED
    BY <1>6, <1>8, <2>2, <2>3 DEF Begin, Ingest, InboundSkip, ProcessSkip, inbox
<1>9. ASSUME NEW w \in Workers, Continue(w), ~ InboundStore(w) PROVE BadgesAreBacked'
  <2>1. /\ UNCHANGED <<copies, thread>>
        /\ Finish(w) \/ work'[w].unread = work[w].unread
    <3>1. CASE ProcessRead(w)
      BY <3>1 DEF ProcessRead, Proceed, TypeOK, Job, inbox
    <3>2. CASE ProcessNotFound(w)
      BY <3>2 DEF ProcessNotFound, Proceed, TypeOK, Job, inbox
    <3>3. CASE ProcessDuplicate(w) \/ ProcessApply(w) \/ DeadLetter(w) \/ ProcessDispatch(w)
      BY <3>3 DEF ProcessDuplicate, ProcessApply, DeadLetter, ProcessDispatch, inbox
    <3>4. CASE ProcessRoute(w) \/ InboundCollides(w)
      BY <3>4 DEF ProcessRoute, InboundCollides, Proceed, TypeOK, Job, inbox
    <3> QED
      BY <1>9, <3>1, <3>2, <3>3, <3>4 DEF Continue
  <2>2. work'[w].unread \in {0, work[w].unread}
    BY <2>1 DEF Finish, Idle, TypeOK
  <2>3. \A v \in Workers : work'[v].unread \in {0, work[v].unread}
    BY <1>9, <2>2, OthersStay
  <2> QED
    BY <1>5, <2>1, <2>3
<1>10. CASE Failure
  <2>1. UNCHANGED <<copies, thread>>
    BY <1>10 DEF Failure, Crash, Redeliver, inbox
  <2>2. \A v \in Workers : work'[v].unread \in {0, work[v].unread}
    BY <1>10 DEF Failure, Crash, Redeliver, Finish, Idle, TypeOK
  <2> QED
    BY <1>5, <2>1, <2>2
<1> QED
  BY <1>4, <1>6, <1>7, <1>8, <1>9, <1>10 DEF Next, vars, inbox

\* At first no task waits, nothing is stored, and every message is yet to come.
LEMMA InitAccount == Init => Accounted /\ BadgesAreBacked
<1> SUFFICES ASSUME Init PROVE Accounted /\ BadgesAreBacked
  OBVIOUS
<1>1. ASSUME NEW K, NEW c, \A k \in K : c[k] = 0 PROVE Total(c, K) = 0
  <2>1. \A k \in K : 1 .. c[k] = {}
    BY <1>1
  <2>2. UNION {{k} \X (1 .. c[k]) : k \in K} = {}
    BY <2>1
  <2> QED
    BY <2>2, FS_EmptySet DEF Total
<1>2. ASSUME NEW f \in Inbounds PROVE copies[f] + Due(f) <= 1 + faults
  <2>1. copies[f] = 0 /\ faults = 0 /\ f \notin acked
    BY DEF Init
  <2>2. Total(ingestQ, Rows(f)) = 0 /\ Total(inboundQ, Rows(f)) = 0
    BY <1>1 DEF Init, Rows
  <2>3. \A p \in Rows(f) \X Attempts : ProcessLane[p] = 0
    BY DEF Init, ProcessLane, Rows
  <2>4. Total(ProcessLane, Rows(f) \X Attempts) = 0
    BY <1>1, <2>3
  <2>5. Storing(f) = {}
    BY DEF Init, Storing, Idle
  <2>6. Cardinality(Storing(f)) = 0
    BY <2>5, FS_EmptySet
  <2> QED
    BY <2>1, <2>2, <2>4, <2>6 DEF Due
<1>3. Total(copies, Inbounds) = 0
  BY <1>1 DEF Init
<1>4. thread.unread = 0 /\ \A w \in Workers : work[w].unread = 0
  <2>1. thread \in [exists : BOOLEAN, unread : {0}]
    BY DEF Init
  <2> QED
    BY <2>1 DEF Init, Idle
<1> QED
  BY <1>2, <1>3, <1>4 DEF Accounted, BadgesAreBacked, UnreadIsBacked

\* The invariant holds initially.
LEMMA InitIInv == Init => IInv
<1> SUFFICES ASSUME Init PROVE IInv
  OBVIOUS
<1>1. TypeOK
  BY InitTypeOK
<1>2. KnownRows
  BY DEF Init, KnownRows
<1>3. \A w \in Workers : work[w].step = "idle"
  BY DEF Init, Idle
<1>4. JobsMakeSense /\ SerialReadsHold
  BY <1>3 DEF JobsMakeSense, SerialReadsHold
<1>5. VerdictsHaveEvidence
  BY DEF Init, VerdictsHaveEvidence, NoEvent
<1>6. SerialStoresOnce
  <2>1. thread.unread = 0
    BY DEF Init
  <2> QED
    BY <2>1 DEF Init, SerialStoresOnce
<1> QED
  BY <1>1, <1>2, <1>4, <1>5, <1>6, InitAccount DEF IInv

\* The invariant is inductive.
LEMMA NextIInv == ASSUME IInv, [Next]_vars PROVE IInv'
BY NextType, NextKnown, NextJobs, NextVerdicts, NextSerial, NextAccount, NextBadges DEF IInv

-----------------------------------------------------------------------------
(* Theorems.                                                               *)

\* Whatever arrives, dies or runs twice, IInv holds of the pipeline.
THEOREM IInvHolds == Spec => []IInv
<1>1. Init => IInv
  BY InitIInv
<1>2. IInv /\ [Next]_vars => IInv'
  BY NextIInv
<1> QED
  BY <1>1, <1>2, PTL DEF Spec

\* The types hold for every set of facts and workers and every bound.
THEOREM TypeCorrect == Spec => []TypeOK
<1>1. IInv => TypeOK
  BY DEF IInv
<1> QED
  BY <1>1, IInvHolds, PTL

\* Every verdict of webhook_events has its evidence in the history or in the dead
\* letters, for every number of workers and faults.
THEOREM VerdictsAreTrue == Spec => []VerdictsHaveEvidence
<1>1. IInv => VerdictsHaveEvidence
  BY DEF IInv
<1> QED
  BY <1>1, IInvHolds, PTL

\* With one task at a time apply_inbound stores a message once, and the badge hides
\* none, whatever is lost, repeated or redelivered.
THEOREM SerialInboxIsRight == Spec => []SerialStoresOnce
<1>1. IInv => SerialStoresOnce
  BY DEF IInv
<1> QED
  BY <1>1, IInvHolds, PTL

\* With one task at a time apply_status only moves a delivery forward.
THEOREM SerialDeliveryIsOneWay == Spec => SerialMovesForward
<1>1. ASSUME IInv, [Next]_vars, ~overlap' PROVE MovesOnward
  <2>1. CASE message'.status = message.status
    BY <2>1 DEF MovesOnward
  <2>2. ASSUME NEW w \in Workers, ProcessApply(w) PROVE MovesOnward
    <3> PICK f : f = event[work[w].event].fact
      OBVIOUS
    <3>1. f \in MessageStatus /\ message.status \in MessageStatus
      <4>1. work[w].step = "apply"
        BY <2>2 DEF ProcessApply
      <4>2. f \in Receipts
        BY <1>1, <4>1 DEF IInv, JobsMakeSense, MakesSense
      <4> QED
        BY <1>1, <4>2, FactKinds DEF IInv, TypeOK
    <3>2. work[w].status = message.status
      BY <1>1, <2>2, OverlapStays DEF ProcessApply, IInv, SerialReadsHold
    <3>3. message'.status = message.status
            \/ (message'.status = f /\ advances(message.status, f))
      BY <2>2, <3>2 DEF ProcessApply, IInv, TypeOK
    <3> QED
      BY <2>1, <3>1, <3>3, AdvancesIsOnward DEF MovesOnward
  <2>3. message'.status = message.status \/ \E w \in Workers : ProcessApply(w)
    <3>1. CASE UNCHANGED message
      BY <3>1
    <3>2. CASE UNCHANGED vars \/ Request
      <4>1. CASE StoreWamid
        BY <1>1, <4>1 DEF StoreWamid, IInv, TypeOK
      <4> QED
        BY <3>1, <3>2, <4>1 DEF vars, ledger, Request, Deliver, MarkRead, DeleteContact
    <3>3. CASE Begin \/ Failure
      BY <3>1, <3>3 DEF Begin, Ingest, InboundSkip, ProcessSkip, InboundBegin, ProcessBegin,
         Failure, Crash, Redeliver, ledger
    <3>4. ASSUME NEW w \in Workers, Continue(w) PROVE UNCHANGED message \/ ProcessApply(w)
      BY <3>4 DEF Continue, ProcessRead, ProcessNotFound, ProcessDuplicate, ProcessRoute,
         ProcessDispatch, DeadLetter, InboundStore, InboundCollides, ledger
    <3> QED
      BY <1>1, <3>1, <3>2, <3>3, <3>4 DEF Next
  <2> QED
    BY <2>1, <2>2, <2>3
<1>2. IInv /\ [Next]_vars => [~overlap' => MovesOnward]_vars
  BY <1>1
<1> QED
  BY <1>2, IInvHolds, PTL DEF Spec, SerialMovesForward

\* An inbound message is stored at most once plus once for every fault: the lanes
\* alone never store one twice, on however many workers.
THEOREM CopiesHaveACause == Spec => []CopiesAreAccounted
<1>1. IInv => CopiesAreAccounted
  <2> SUFFICES ASSUME IInv, NEW f \in Inbounds PROVE copies[f] <= 1 + faults
    BY DEF CopiesAreAccounted
  <2>1. TypeOK /\ Accounted
    BY DEF IInv
  <2>2. /\ Total(ingestQ, Rows(f)) \in Nat /\ Total(inboundQ, Rows(f)) \in Nat
        /\ Total(ProcessLane, Rows(f) \X Attempts) \in Nat /\ Cardinality(Storing(f)) \in Nat
        /\ copies[f] \in Nat /\ faults \in Nat
        /\ copies[f] + Due(f) <= 1 + faults
    BY <2>1, AccountNumbers
  <2> QED
    BY <2>2 DEF Due
<1> QED
  BY <1>1, IInvHolds, PTL

\* The badge never counts more messages than were stored, although every task
\* writes what it read plus one.
THEOREM BadgeIsBacked == Spec => []UnreadIsBacked
<1>1. IInv => UnreadIsBacked
  BY DEF IInv, BadgesAreBacked
<1> QED
  BY <1>1, IInvHolds, PTL

=============================================================================
