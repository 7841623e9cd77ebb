-------------------------- MODULE WebhookPipeline --------------------------
(***************************************************************************)
(* The inbound stream of one conversation: the webhook request that        *)
(* persists what Meta delivers, the ingest, process and inbound tasks that *)
(* apply it, the dead letters, and what they keep: the delivery status of  *)
(* one outbound message, the inbound messages stored, and the thread's     *)
(* unread badge.                                                           *)
(*                                                                         *)
(* A task is cut at its commits.  Within a transaction the rows are read   *)
(* first (MySQL's snapshot) and written at the commit, so every            *)
(* transaction that decides on what it read is two actions; what another   *)
(* task commits in between is overwritten, not seen.  A delivery carries   *)
(* one event here: a batch is several deliveries.                          *)
(***************************************************************************)
EXTENDS Naturals, FiniteSets

CONSTANTS
    Inbounds,    \* wamids of the customer's messages
    Receipts,    \* status callbacks of one outbound message that may arrive
    Poison,      \* events of an unknown type, or for a number nobody owns
    Workers,     \* workers of the webhook and inbound lanes
    AttemptCap,  \* attempts of the TRANSIENT_PROC class
    FaultKinds,  \* the kinds of fault the environment may inject
    MaxEvents,   \* bound: event rows
    MaxFaults,   \* bound: faults
    MaxReads,    \* bound: times the thread is marked read
    MaxDeletes   \* bound: times the contact is deleted

MessageStatus == {"accepted", "sent", "delivered", "read", "failed"}

ASSUME FactsAssumption ==
    /\ Receipts \subseteq MessageStatus
    /\ Inbounds \cap MessageStatus = {}
    /\ Poison \cap (Inbounds \cup MessageStatus) = {}
    /\ IsFiniteSet(Inbounds)

ASSUME WorkersAssumption == IsFiniteSet(Workers)

ASSUME BoundsAssumption ==
    /\ AttemptCap \in Nat \ {0}
    /\ {MaxEvents, MaxFaults, MaxReads, MaxDeletes} \subseteq Nat

\* drop:      the request dies after its commit: no task, and no 200
\* unheard:   the 200 is lost
\* repeat:    Meta sends an event again that was acknowledged
\* crash:     a worker dies; its task was not acknowledged and comes again
\* redeliver: the broker delivers the task of a live worker again
ASSUME FaultsAssumption ==
    FaultKinds \subseteq {"drop", "unheard", "repeat", "crash", "redeliver"}

\* What Meta reports.  The event id of a message is its wamid, that of a status
\* callback the wamid and the status: one id for each fact.
Facts    == Inbounds \cup Receipts \cup Poison
Events   == 1 .. MaxEvents
Attempts == 1 .. AttemptCap

VARIABLES
    event,      \* webhook_events: the fact, the status, its dead letters
    received,   \* how many event rows exist
    acked,      \* the facts Meta has had a 200 for
    ingestQ,    \* ingest_webhook_events tasks waiting, per event
    processQ,   \* process_webhook_event tasks waiting, per event and attempt
    inboundQ,   \* process_inbound_message tasks waiting, per event
    work,       \* what each worker is doing
    message,    \* the outbound message: its status, whether it has a wamid
    log,        \* message_status_history: entries written on behalf of each event
    contact,    \* the sender's row in contacts
    thread,     \* conversations: whether the thread exists, its unread badge
    copies,     \* messages: rows per inbound wamid
    fresh,      \* history: messages stored since the thread was last read
    faults,     \* history: faults so far
    reads,      \* history: times the thread was marked read
    deletes,    \* history: times the contact was deleted
    overlap     \* history: whether two tasks were ever in progress together

lanes   == <<ingestQ, processQ, inboundQ>>
ledger  == <<message, log>>
inbox   == <<contact, thread, copies, fresh>>
history == <<faults, reads, deletes, overlap>>
vars    == <<event, received, acked, lanes, work, ledger, inbox, history>>

-----------------------------------------------------------------------------

WH_SETTLED == {"processed", "duplicate"}
EventStatus == {"none", "received", "processed", "failed", "duplicate"}
ContactState == {"unknown", "live", "deleted"}

NoFact == "none"
EventRow == [fact : Facts \cup {NoFact}, status : EventStatus, dead : Nat]
NoEvent == [fact |-> NoFact, status |-> "none", dead |-> 0]

Step == {"idle", "read", "mark", "apply", "route", "dispatch", "store", "bury"}

\* A task in progress: its lane and event, the next transaction, and what it
\* read in the one that is open.
Job == [lane : {"process", "inbound"}, step : Step, event : 0 .. MaxEvents,
        attempt : Attempts, status : MessageStatus, contact : ContactState,
        thread : BOOLEAN, unread : Nat]

Idle == [lane |-> "process", step |-> "idle", event |-> 0, attempt |-> 1,
         status |-> "accepted", contact |-> "unknown", thread |-> FALSE, unread |-> 0]

STATUS_RANK == [accepted |-> 0, sent |-> 1, delivered |-> 2, read |-> 3]

\* (mutated) Compares nothing: the last callback to arrive wins.
advances_Always(current, incoming) == current # "failed" /\ incoming # current

\* A delivery status only moves forward; failed is terminal, from any live one.
advances(current, incoming) ==
    /\ current # "failed"
    /\ incoming # "failed" => STATUS_RANK[incoming] > STATUS_RANK[current]

TypeOK ==
    /\ event \in [Events -> EventRow]
    /\ received \in 0 .. MaxEvents
    /\ acked \subseteq Facts
    /\ ingestQ \in [Events -> Nat]
    /\ processQ \in [Events -> [Attempts -> Nat]]
    /\ inboundQ \in [Events -> Nat]
    /\ work \in [Workers -> Job]
    /\ message \in [status : MessageStatus, wamid : BOOLEAN]
    /\ log \in [Events -> Nat]
    /\ contact \in ContactState
    /\ thread \in [exists : BOOLEAN, unread : Nat]
    /\ copies \in [Inbounds -> Nat]
    /\ fresh \in Nat
    /\ faults \in 0 .. MaxFaults
    /\ reads \in 0 .. MaxReads
    /\ deletes \in 0 .. MaxDeletes
    /\ overlap \in BOOLEAN

\* The outbound message has been handed to the channel and its wamid is about to
\* be stored; the contact may be known, and may have a thread.
Init ==
    /\ event = [e \in Events |-> NoEvent]
    /\ received = 0
    /\ acked = {}
    /\ ingestQ = [e \in Events |-> 0]
    /\ processQ = [e \in Events |-> [a \in Attempts |-> 0]]
    /\ inboundQ = [e \in Events |-> 0]
    /\ work = [w \in Workers |-> Idle]
    /\ message = [status |-> "accepted", wamid |-> FALSE]
    /\ log = [e \in Events |-> 0]
    /\ contact \in {"unknown", "live"}
    /\ thread \in [exists : IF contact = "live" THEN BOOLEAN ELSE {FALSE}, unread : {0}]
    /\ copies = [f \in Inbounds |-> 0]
    /\ fresh = 0
    /\ faults = 0
    /\ reads = 0
    /\ deletes = 0
    /\ overlap = FALSE

Fault(kind) ==
    /\ kind \in FaultKinds
    /\ faults < MaxFaults
    /\ faults' = faults + 1
    /\ UNCHANGED <<reads, deletes, overlap>>

-----------------------------------------------------------------------------
(* The webhook request, and the commit of a send that it races with.       *)

\* Persist, then enqueue, then answer 200.  Meta sends again what was not
\* acknowledged.
Deliver(f) ==
    /\ received < MaxEvents
    /\ received' = received + 1
    /\ event' = [event EXCEPT ![received + 1] =
                   [fact |-> f, status |-> "received", dead |-> 0]]
    /\ \/ /\ f \in acked => Fault("repeat")
          /\ f \notin acked => UNCHANGED history
          /\ acked' = acked \cup {f}
          /\ ingestQ' = [ingestQ EXCEPT ![received + 1] = @ + 1]
       \/ /\ Fault("unheard")
          /\ f \notin acked
          /\ ingestQ' = [ingestQ EXCEPT ![received + 1] = @ + 1]
          /\ UNCHANGED acked
       \/ /\ Fault("drop")
          /\ f \notin acked
          /\ UNCHANGED <<acked, ingestQ>>
    /\ UNCHANGED <<processQ, inboundQ, work, ledger, inbox>>

\* The send task commits the wamid the channel gave it.
StoreWamid ==
    /\ ~message.wamid
    /\ message' = [message EXCEPT !.wamid = TRUE]
    /\ UNCHANGED <<event, received, acked, lanes, work, log, inbox, history>>

-----------------------------------------------------------------------------
(* The ingest lane.                                                        *)

\* One process task per event; an ingest task that dies comes again.
Ingest(e) ==
    /\ ingestQ[e] > 0
    /\ processQ' = [processQ EXCEPT ![e][1] = @ + 1]
    /\ \/ ingestQ' = [ingestQ EXCEPT ![e] = @ - 1] /\ UNCHANGED history
       \/ Fault("crash") /\ UNCHANGED ingestQ
    /\ UNCHANGED <<event, received, acked, inboundQ, work, ledger, inbox>>

-----------------------------------------------------------------------------
(* The process lane.                                                       *)

\* A task begins on an idle worker.
Take(w, job) ==
    /\ work[w].step = "idle"
    /\ work' = [work EXCEPT ![w] = job]
    /\ overlap' = (overlap \/ \E v \in Workers \ {w} : work[v].step # "idle")
    /\ UNCHANGED <<faults, reads, deletes>>

Proceed(w, step) == work' = [work EXCEPT ![w].step = step]
Finish(w)        == work' = [work EXCEPT ![w] = Idle]

\* An event that is settled is not applied again.
ProcessSkip(e, a) ==
    /\ processQ[e][a] > 0
    /\ event[e].status \in WH_SETTLED
    /\ processQ' = [processQ EXCEPT ![e][a] = @ - 1]
    /\ UNCHANGED <<event, received, acked, ingestQ, inboundQ, work, ledger, inbox, history>>

\* The attempt is counted in a commit of its own.  An event of an unknown type or
\* for a number nobody owns is not worth a retry.
ProcessBegin(w, e, a) ==
    /\ processQ[e][a] > 0
    /\ event[e].status \notin WH_SETTLED
    /\ processQ' = [processQ EXCEPT ![e][a] = @ - 1]
    /\ Take(w, [Idle EXCEPT !.step = IF event[e].fact \in Poison THEN "bury" ELSE "read",
                            !.event = e, !.attempt = a])
    /\ UNCHANGED <<event, received, acked, ingestQ, inboundQ, ledger, inbox>>

\* has_processed_sibling: the same fact was applied on behalf of another row.
Sibling(e) == \E x \in Events \ {e} :
    event[x].fact = event[e].fact /\ event[x].status = "processed"

\* What the transaction reads decides what it will write.
ProcessRead(w) ==
    LET e == work[w].event
        f == event[e].fact
    IN
    /\ work[w].step = "read"
    /\ \/ Sibling(e) /\ Proceed(w, "mark")
       \/ ~Sibling(e) /\ f \in Inbounds /\ Proceed(w, "route")
       \/ /\ ~Sibling(e) /\ f \in Receipts /\ message.wamid
          /\ work' = [work EXCEPT ![w].step = "apply", ![w].status = message.status]
    /\ UNCHANGED <<event, received, acked, lanes, ledger, inbox, history>>

\* (mutated) An exhausted event is given up.
ProcessNotFound_GivesUp(w) ==
    LET e == work[w].event
        a == work[w].attempt
    IN
    /\ work[w].step = "read"
    /\ ~Sibling(e) /\ event[e].fact \in Receipts /\ ~message.wamid
    /\ Finish(w)
    /\ processQ' = IF a < AttemptCap THEN [processQ EXCEPT ![e][a + 1] = @ + 1] ELSE processQ
    /\ UNCHANGED <<event, received, acked, ingestQ, inboundQ, ledger, inbox, history>>

\* MessageNotFound: the send has not stored the wamid yet.  Another attempt, or
\* the dead letters.
ProcessNotFound(w) ==
    LET e == work[w].event
        a == work[w].attempt
    IN
    /\ work[w].step = "read"
    /\ ~Sibling(e) /\ event[e].fact \in Receipts /\ ~message.wamid
    /\ \/ /\ a < AttemptCap
          /\ Finish(w)
          /\ processQ' = [processQ EXCEPT ![e][a + 1] = @ + 1]
       \/ /\ a >= AttemptCap
          /\ Proceed(w, "bury")
          /\ UNCHANGED processQ
    /\ UNCHANGED <<event, received, acked, ingestQ, inboundQ, ledger, inbox, history>>

ProcessDuplicate(w) ==
    /\ work[w].step = "mark"
    /\ event' = [event EXCEPT ![work[w].event].status = "duplicate"]
    /\ Finish(w)
    /\ UNCHANGED <<received, acked, lanes, ledger, inbox, history>>

\* (mutated) A stale transition is not logged.
ProcessApply_LogsAdvances(w) ==
    LET e == work[w].event
        f == event[e].fact
    IN
    /\ work[w].step = "apply"
    /\ log' = IF advances(work[w].status, f) THEN [log EXCEPT ![e] = @ + 1] ELSE log
    /\ message' = IF advances(work[w].status, f)
                  THEN [message EXCEPT !.status = f] ELSE message
    /\ event' = [event EXCEPT ![e].status = "processed"]
    /\ Finish(w)
    /\ UNCHANGED <<received, acked, lanes, inbox, history>>

\* The callback is logged, applied if it moves the status this task read forward,
\* and settled, in one commit.
ProcessApply(w) ==
    LET e == work[w].event
        f == event[e].fact
    IN
    /\ work[w].step = "apply"
    /\ log' = [log EXCEPT ![e] = @ + 1]
    /\ message' = IF advances(work[w].status, f)
                  THEN [message EXCEPT !.status = f] ELSE message
    /\ event' = [event EXCEPT ![e].status = "processed"]
    /\ Finish(w)
    /\ UNCHANGED <<received, acked, lanes, inbox, history>>

\* (mutated) The inbound task is enqueued before the commit too.
ProcessRoute_Eager(w) ==
    /\ work[w].step = "route"
    /\ event' = [event EXCEPT ![work[w].event].status = "processed"]
    /\ inboundQ' = [inboundQ EXCEPT ![work[w].event] = @ + 1]
    /\ Proceed(w, "dispatch")
    /\ UNCHANGED <<received, acked, ingestQ, processQ, ledger, inbox, history>>

\* An inbound message is settled here, and handed to the inbound lane after the
\* commit.
ProcessRoute(w) ==
    /\ work[w].step = "route"
    /\ event' = [event EXCEPT ![work[w].event].status = "processed"]
    /\ Proceed(w, "dispatch")
    /\ UNCHANGED <<received, acked, lanes, ledger, inbox, history>>

ProcessDispatch(w) ==
    /\ work[w].step = "dispatch"
    /\ inboundQ' = [inboundQ EXCEPT ![work[w].event] = @ + 1]
    /\ Finish(w)
    /\ UNCHANGED <<event, received, acked, ingestQ, processQ, ledger, inbox, history>>

\* The event is isolated in webhook_dead_letter, whatever its row says by now.
DeadLetter(w) ==
    /\ work[w].step = "bury"
    /\ event' = [event EXCEPT ![work[w].event].dead = @ + 1,
                              ![work[w].event].status = "failed"]
    /\ Finish(w)
    /\ UNCHANGED <<received, acked, lanes, ledger, inbox, history>>

-----------------------------------------------------------------------------
(* The inbound lane.                                                       *)

\* A message that is stored is not stored again.
InboundSkip(e) ==
    /\ inboundQ[e] > 0
    /\ copies[event[e].fact] > 0
    /\ inboundQ' = [inboundQ EXCEPT ![e] = @ - 1]
    /\ UNCHANGED <<event, received, acked, ingestQ, processQ, work, ledger, inbox, history>>

\* (mutated) Does not look for the message first.
InboundBegin_Unchecked(w, e) ==
    /\ inboundQ[e] > 0
    /\ inboundQ' = [inboundQ EXCEPT ![e] = @ - 1]
    /\ Take(w, [Idle EXCEPT !.lane = "inbound", !.step = "store", !.event = e,
                            !.contact = contact, !.thread = thread.exists,
                            !.unread = thread.unread])
    /\ UNCHANGED <<event, received, acked, ingestQ, processQ, ledger, inbox>>

\* The task finds no message of that wamid; it reads the contact and the thread
\* in the same snapshot.
InboundBegin(w, e) ==
    /\ inboundQ[e] > 0
    /\ copies[event[e].fact] = 0
    /\ inboundQ' = [inboundQ EXCEPT ![e] = @ - 1]
    /\ Take(w, [Idle EXCEPT !.lane = "inbound", !.step = "store", !.event = e,
                            !.contact = contact, !.thread = thread.exists,
                            !.unread = thread.unread])
    /\ UNCHANGED <<event, received, acked, ingestQ, processQ, ledger, inbox>>

\* The contact or the thread this task would insert exists by now, or the contact
\* exists and is deleted: the unique keys span both.
Collides(w) ==
    \/ work[w].contact # "live" /\ contact # "unknown"
    \/ ~work[w].thread /\ thread.exists

\* (mutated) The badge counts the thread being opened as well.
InboundStore_CountsTwice(w) ==
    /\ work[w].step = "store"
    /\ ~Collides(w)
    /\ contact' = IF work[w].contact = "live" THEN contact ELSE "live"
    /\ thread' = [exists |-> TRUE, unread |-> work[w].unread + 2]
    /\ copies' = [copies EXCEPT ![event[work[w].event].fact] = @ + 1]
    /\ fresh' = fresh + 1
    /\ Finish(w)
    /\ UNCHANGED <<event, received, acked, lanes, ledger, history>>

\* Contact, thread, badge and message in one commit; the badge is what was read,
\* plus one.
InboundStore(w) ==
    /\ work[w].step = "store"
    /\ ~Collides(w)
    /\ contact' = IF work[w].contact = "live" THEN contact ELSE "live"
    /\ thread' = [exists |-> TRUE, unread |-> work[w].unread + 1]
    /\ copies' = [copies EXCEPT ![event[work[w].event].fact] = @ + 1]
    /\ fresh' = fresh + 1
    /\ Finish(w)
    /\ UNCHANGED <<event, received, acked, lanes, ledger, history>>

\* The integrity error is of no class worth a retry: the message is buried.
InboundCollides(w) ==
    /\ work[w].step = "store"
    /\ Collides(w)
    /\ Proceed(w, "bury")
    /\ UNCHANGED <<event, received, acked, lanes, ledger, inbox, history>>

-----------------------------------------------------------------------------
(* The operator, and what can go wrong with a running task.                *)

MarkRead ==
    /\ reads < MaxReads
    /\ thread.unread # 0
    /\ thread' = [thread EXCEPT !.unread = 0]
    /\ fresh' = 0
    /\ reads' = reads + 1
    /\ UNCHANGED <<event, received, acked, lanes, work, ledger, contact, copies,
                   faults, deletes, overlap>>

DeleteContact ==
    /\ deletes < MaxDeletes
    /\ contact = "live"
    /\ contact' = "deleted"
    /\ deletes' = deletes + 1
    /\ UNCHANGED <<event, received, acked, lanes, work, ledger, thread, copies, fresh,
                   faults, reads, overlap>>

\* The task w works on waits in its lane once more.
Requeue(w) ==
    LET e == work[w].event
        a == work[w].attempt
    IN
    IF work[w].lane = "process"
    THEN processQ' = [processQ EXCEPT ![e][a] = @ + 1] /\ UNCHANGED inboundQ
    ELSE inboundQ' = [inboundQ EXCEPT ![e] = @ + 1] /\ UNCHANGED processQ

Crash(w) ==
    /\ work[w].step # "idle"
    /\ Fault("crash")
    /\ Requeue(w)
    /\ Finish(w)
    /\ UNCHANGED <<event, received, acked, ingestQ, ledger, inbox>>

Redeliver(w) ==
    /\ work[w].step # "idle"
    /\ Fault("redeliver")
    /\ Requeue(w)
    /\ UNCHANGED <<event, received, acked, ingestQ, work, ledger, inbox>>

-----------------------------------------------------------------------------

Request == StoreWamid \/ MarkRead \/ DeleteContact \/ \E f \in Facts : Deliver(f)

\* A task is taken, or found to have nothing to do.
Begin ==
    \/ \E e \in Events : Ingest(e) \/ InboundSkip(e)
    \/ \E e \in Events, a \in Attempts : ProcessSkip(e, a)
    \/ \E w \in Workers, e \in Events : InboundBegin(w, e)
    \/ \E w \in Workers, e \in Events, a \in Attempts : ProcessBegin(w, e, a)

\* The next step of a task a worker has begun.
Continue(w) ==
    \/ ProcessRead(w) \/ ProcessNotFound(w) \/ ProcessDuplicate(w)
    \/ ProcessApply(w) \/ ProcessRoute(w) \/ ProcessDispatch(w) \/ DeadLetter(w)
    \/ InboundStore(w) \/ InboundCollides(w)

Failure == \E w \in Workers : Crash(w) \/ Redeliver(w)

Next == Request \/ Begin \/ (\E w \in Workers : Continue(w)) \/ Failure

Spec == Init /\ [][Next]_vars

\* Workers take what waits and go on with what they took.  Meta need not send
\* anything, and the send may never store its wamid.
Fairness == WF_vars(Begin) /\ \A w \in Workers : WF_vars(Continue(w))

FairSpec == Spec /\ Fairness

-----------------------------------------------------------------------------
(* Properties.                                                             *)

\* The fact of e was logged on behalf of another row.
LoggedElsewhere(e) ==
    \E x \in Events \ {e} : event[x].fact = event[e].fact /\ log[x] > 0

\* An event's verdict is never a durable lie, whatever died or ran twice: a
\* processed callback is in the history, a duplicate one is there on behalf of
\* another row, what failed is in the dead letters, and the message's status is
\* one that some logged callback reported.
VerdictsHaveEvidence ==
    /\ \A e \in Events :
        /\ event[e].status = "failed" => event[e].dead > 0
        /\ event[e].fact \in Receipts =>
             /\ event[e].status = "processed" => log[e] > 0
             /\ event[e].status = "duplicate" => LoggedElsewhere(e)
    /\ message.status # "accepted" =>
         \E e \in Events : event[e].fact = message.status /\ log[e] > 0

\* An inbound message is stored once, and once more at most for every fault: no
\* interleaving of the lanes on its own stores it twice.
CopiesAreAccounted == \A f \in Inbounds : copies[f] <= 1 + faults

\* What the keys count together: the size of a set with count[k] members for
\* each key k.
Total(count, keys) == Cardinality(UNION {{k} \X (1 .. count[k]) : k \in keys})

\* The badge never counts more messages than were stored.
UnreadIsBacked == thread.unread <= Total(copies, Inbounds)

\* As long as no two tasks ran together, whatever else went wrong, a message is
\* stored once and the badge hides none that came since the thread was last read.
SerialStoresOnce ==
    ~overlap => fresh <= thread.unread /\ \A f \in Inbounds : copies[f] <= 1

\* Where a delivery may still go from each status: it is a one-way street.
Onward == [accepted  |-> {"sent", "delivered", "read", "failed"},
           sent      |-> {"delivered", "read", "failed"},
           delivered |-> {"read", "failed"},
           read      |-> {"failed"},
           failed    |-> {}]

MovesOnward == message'.status \in Onward[message.status] \cup {message.status}

\* As long as no two tasks ran together, the delivery status only moves forward,
\* in whatever order the callbacks arrive and however often.
SerialMovesForward == [][~overlap' => MovesOnward]_vars

\* What was applied, or is kept for a human.
Recorded(f) ==
    \/ f \in Inbounds /\ copies[f] > 0
    \/ \E e \in Events : event[e].fact = f /\ (log[e] > 0 \/ event[e].dead > 0)

\* What Meta was told is received ends up applied or in the dead letters, however
\* the lanes interleave and whatever is delivered twice, as long as no worker dies.
AckedIsRecorded == \A f \in Facts : f \in acked ~> Recorded(f)

-----------------------------------------------------------------------------
(* The inductive invariant of WebhookPipelineProofs.                       *)

\* Nothing waits or is logged for a row that does not exist, and only inbound
\* messages wait in the inbound lane.
KnownRows ==
    \A e \in Events :
        /\ e > received => ingestQ[e] = 0 /\ log[e] = 0 /\ event[e] = NoEvent
        /\ e > received => \A a \in Attempts : processQ[e][a] = 0
        /\ inboundQ[e] > 0 => e <= received /\ event[e].fact \in Inbounds

\* The worker is at a step that fits its event, and has found what it goes by.
MakesSense(w) ==
    LET e == work[w].event IN
    /\ e \in 1 .. received
    /\ work[w].step = "apply" => event[e].fact \in Receipts
    /\ work[w].step \in {"route", "dispatch", "store"} \/ work[w].lane = "inbound" =>
         event[e].fact \in Inbounds
    /\ work[w].step = "mark" /\ event[e].fact \in Receipts => LoggedElsewhere(e)

JobsMakeSense == \A w \in Workers : work[w].step # "idle" => MakesSense(w)

\* As long as no two tasks ran together, at most one is in progress, and what it
\* has read is still true.
SerialReadsHold ==
    ~overlap => \A w \in Workers : work[w].step # "idle" =>
        /\ \A v \in Workers \ {w} : work[v].step = "idle"
        /\ work[w].step = "apply" => work[w].status = message.status
        /\ work[w].step = "store" =>
             copies[event[work[w].event].fact] = 0 /\ fresh <= work[w].unread

\* The rows of a fact, and the tasks on them that may still store it.
Rows(f) == {e \in Events : event[e].fact = f}

Storing(f) == {w \in Workers : /\ work[w].step \in {"read", "route", "dispatch", "store"}
                               /\ event[work[w].event].fact = f}

\* The process lane as one count per row and attempt.
ProcessLane == [p \in Events \X Attempts |-> processQ[p[1]][p[2]]]

\* What may still become a copy of f: the delivery Meta has had no 200 for, and
\* each task that waits or runs on a row of f.
Due(f) ==
    (IF f \in acked THEN 0 ELSE 1) + Total(ingestQ, Rows(f))
        + Total(ProcessLane, Rows(f) \X Attempts) + Total(inboundQ, Rows(f))
        + Cardinality(Storing(f))

\* Copies stored and copies due never exceed the first delivery and one more for
\* every fault.
Accounted == \A f \in Inbounds : copies[f] + Due(f) <= 1 + faults

\* Neither the badge nor what a task has read of it counts more than was stored.
BadgesAreBacked ==
    UnreadIsBacked /\ \A w \in Workers : work[w].unread <= Total(copies, Inbounds)

\* What every step preserves.
IInv ==
    /\ TypeOK
    /\ KnownRows
    /\ JobsMakeSense
    /\ VerdictsHaveEvidence
    /\ SerialReadsHold
    /\ SerialStoresOnce
    /\ Accounted
    /\ BadgesAreBacked

=============================================================================
