-------------------------- MODULE CampaignDispatch --------------------------
(***************************************************************************)
(* One campaign on the send fabric: the control task that slices its       *)
(* roster into batches, the batch tasks that fan recipients out, the       *)
(* per-recipient send task, the durable retry rows and their scanner, and  *)
(* the operator's start, pause, resume, cancel and retry.                  *)
(*                                                                         *)
(* A send task is cut at every commit it makes: between two of its steps   *)
(* any other task or request may run, the worker may die (the broker then  *)
(* delivers the task again, acks_late) or the task may be parked by an     *)
(* unexpected error.  A task keeps the campaign and recipient it read when *)
(* it began, as its database session does; it writes only the columns it   *)
(* changed.  A request reads and checks in one action and commits in a     *)
(* later one, with no lock and no version in between, and so does the      *)
(* retry scanner: two of them can act on the same reading.  The rows of a  *)
(* plan or of a batch task are read and written in one transaction, which  *)
(* is one action here.                                                     *)
(***************************************************************************)
EXTENDS Naturals, FiniteSets, FiniteSetsExt

CONSTANTS
    NumRecipients,  \* size of the roster; recipients are numbered by id
    BatchSize,      \* BATCH_SIZE, recipients per checkpoint
    Workers,        \* send workers
    Requests,       \* the operator's (or the tick's) requests in flight at once
    Scanners,       \* runs of scan_campaign_retries at once
    AttemptCaps,    \* attempt caps of the failure classes, 0 for a terminal one
    Rejecting,      \* whether SendService.accept may refuse a recipient
    ScannerRuns,    \* whether anything enqueues scan_campaign_retries
    FaultKinds,     \* the kinds of fault the environment may inject
    MaxMessages,    \* bound: ledger rows the campaign may create
    MaxBatches,     \* bound: checkpoints
    MaxFaults,      \* bound: crashes, redeliveries, parked tasks, lost answers
    MaxPauses,      \* bound: pauses
    MaxCancels,     \* bound: cancellations (a cancelled campaign may come back)
    MaxReruns,      \* bound: manual retries of the failed recipients
    MaxOverlaps     \* bound: requests and scans that act on what has gone

ASSUME BoundsAssumption ==
    /\ NumRecipients \in Nat \ {0}
    /\ BatchSize \in Nat \ {0}
    /\ {MaxMessages, MaxBatches, MaxFaults, MaxPauses, MaxCancels, MaxReruns, MaxOverlaps}
           \subseteq Nat

ASSUME WorkersAssumption == IsFiniteSet(Workers)

ASSUME FlagsAssumption ==
    /\ AttemptCaps \subseteq Nat
    /\ Rejecting \in BOOLEAN
    /\ ScannerRuns \in BOOLEAN

\* crash:     a worker dies and the broker delivers its task again
\* redeliver: the broker delivers the task of a live worker again
\* park:      a task ends in the dead letters on an error not worth retrying
\* drop:      a process dies after its commit and before it enqueues
\* unheard:   the channel takes a message and the answer is lost
\* flush:     the broker loses every task that waits
ASSUME FaultsAssumption ==
    FaultKinds \subseteq {"crash", "redeliver", "park", "drop", "unheard", "flush"}

Recipients == 1 .. NumRecipients
Messages   == 1 .. MaxMessages
Batches    == 1 .. MaxBatches

VARIABLES
    campaign,   \* campaigns.status
    rec,        \* campaign_recipients: status, message_id, batch_id, retry_count (0 is NULL)
    batch,      \* campaign_batches.status, "none" while the row does not exist
    retries,    \* pending rows of campaign_retry_queue per recipient, and how many there were
    ledger,     \* messages: whose it is, its status, whether it has a wamid
    accepted,   \* how many ledger rows exist
    planQ,      \* dispatch_campaign tasks waiting in campaigns.control
    fanQ,       \* dispatch_campaign_batch tasks waiting, per batch
    sendQ,      \* send and retry tasks waiting, per recipient
    asked,      \* the requests that have checked the campaign and not committed
    scans,      \* what each run of the retry scanner has selected and not claimed
    work,       \* what each send worker is doing
    calls,      \* history: messages the channel took, per recipient
    faults,     \* history: faults so far
    pauses,     \* history: pauses so far
    cancels,    \* history: cancellations so far
    reruns,     \* history: manual retries so far
    overlaps    \* history: starts, resumes and claims of what was no longer there

rows    == <<rec, batch, retries, ledger, accepted>>
queues  == <<planQ, fanQ, sendQ>>
readers == <<asked, scans>>
history == <<calls, faults, pauses, cancels, reruns, overlaps>>
vars    == <<campaign, rows, queues, readers, work, history>>

-----------------------------------------------------------------------------

DISPATCHABLE == {"draft", "scheduled"}
SENDING      == {"queued", "running"}
TERMINAL     == {"completed", "cancelled", "failed"}
CampaignStatus == DISPATCHABLE \cup SENDING \cup TERMINAL \cup {"paused"}

\* A send task leaves these recipients alone ("cancelled" is not among them).
SETTLED == {"sent", "delivered", "read", "failed"}
\* What counts_by_status and count_unsettled call outstanding.
OWED == {"pending", "queued"}
RecipientStatus == SETTLED \cup OWED \cup {"cancelled"}

Recipient == [status : RecipientStatus, message : 0 .. MaxMessages,
              batch : 0 .. MaxBatches, attempts : Nat]
BatchStatus == {"none", "pending", "in_progress", "done"}
\* Rows are numbered as they are written; what becomes of a claimed row is not
\* read by anything.
RetryRows == [pending : SUBSET Nat, written : Nat]
Message == [owner : 0 .. NumRecipients, status : {"none", "accepted", "failed"},
            wamid : BOOLEAN]

\* Where a send task stands: the next transaction or call it will make.
Step == {"idle", "accept", "link", "call", "receipt", "sent", "failed",
         "settle", "close", "progress"}

\* A worker's session: the columns it read, or wrote since.
Job == [step : Step, recipient : 0 .. NumRecipients, campaign : CampaignStatus,
        message : 0 .. MaxMessages, batch : 0 .. MaxBatches, attempts : Nat]

Idle == [step |-> "idle", recipient |-> 0, campaign |-> "draft",
         message |-> 0, batch |-> 0, attempts |-> 0]

\* A recipient no plan has touched.
Untouched == [status |-> "pending", message |-> 0, batch |-> 0, attempts |-> 0]

\* A request between its check and its commit: what its session read of the
\* rows its verb writes.  `rows` are the recipients it will write, `held` their
\* columns that were not NULL, `due` the retry rows, `running` whether a retry
\* found the campaign running.
Verbs == {"start", "pause", "resume", "cancel", "retry"}
Columns == {"message", "batch", "attempts"}
Request == [verb : Verbs \cup {"none"}, running : BOOLEAN, rows : SUBSET Recipients,
            held : [Recipients -> SUBSET Columns], due : [Recipients -> SUBSET Nat]]

NoRequest == [verb |-> "none", running |-> FALSE, rows |-> {},
              held |-> [r \in Recipients |-> {}], due |-> [r \in Recipients |-> {}]]

\* A retry row, by its recipient and its number.
RetryRow == Recipients \X Nat

Outstanding == {r \in Recipients : rec[r].status \in OWED}

TypeOK ==
    /\ campaign \in CampaignStatus
    /\ rec \in [Recipients -> Recipient]
    /\ batch \in [Batches -> BatchStatus]
    /\ retries \in [Recipients -> RetryRows]
    /\ \A r \in Recipients : retries[r].pending \subseteq 1 .. retries[r].written
    /\ ledger \in [Messages -> Message]
    /\ accepted \in 0 .. MaxMessages
    /\ planQ \in Nat
    /\ fanQ \in [Batches -> Nat]
    /\ sendQ \in [Recipients -> Nat]
    /\ asked \in [Requests -> Request]
    /\ scans \in [Scanners -> SUBSET RetryRow]
    /\ work \in [Workers -> Job]
    /\ calls \in [Recipients -> Nat]
    /\ faults \in 0 .. MaxFaults
    /\ pauses \in 0 .. MaxPauses
    /\ cancels \in 0 .. MaxCancels
    /\ reruns \in 0 .. MaxReruns
    /\ overlaps \in 0 .. MaxOverlaps

Init ==
    /\ campaign \in DISPATCHABLE
    /\ rec = [r \in Recipients |-> Untouched]
    /\ batch = [b \in Batches |-> "none"]
    /\ retries = [r \in Recipients |-> [pending |-> {}, written |-> 0]]
    /\ ledger = [m \in Messages |-> [owner |-> 0, status |-> "none", wamid |-> FALSE]]
    /\ accepted = 0
    /\ planQ = 0
    /\ fanQ = [b \in Batches |-> 0]
    /\ sendQ = [r \in Recipients |-> 0]
    /\ asked = [q \in Requests |-> NoRequest]
    /\ scans = [s \in Scanners |-> {}]
    /\ work = [w \in Workers |-> Idle]
    /\ calls = [r \in Recipients |-> 0]
    /\ faults = 0
    /\ pauses = 0
    /\ cancels = 0
    /\ reruns = 0
    /\ overlaps = 0

\* One more fault, within the bound on faults.
Fault(kind) ==
    /\ kind \in FaultKinds
    /\ faults < MaxFaults
    /\ faults' = faults + 1

-----------------------------------------------------------------------------
(* The operator's requests.  A request reads the campaign, checks its      *)
(* status, and commits later whatever the status has become by then; only  *)
(* what differs from its reading is written.  Then it enqueues the control *)
(* task; the process can die in between, and then the task was never       *)
(* enqueued.  That the task arrives late is the queue's doing.             *)

\* The status each verb asks for.
Allows(verb, status) ==
    \/ verb = "start"  /\ status \in DISPATCHABLE
    \/ verb = "pause"  /\ status \in SENDING
    \/ verb = "resume" /\ status = "paused"
    \/ verb = "cancel" /\ status \notin TERMINAL
    \/ verb = "retry"  /\ status # "cancelled"

WithStatus(status) == {r \in Recipients : rec[r].status = status}

\* What the check of each verb reads, besides the campaign's status.
Reading(verb) ==
    CASE verb = "cancel" ->
           [NoRequest EXCEPT !.verb = verb, !.rows = WithStatus("pending"),
                             !.due = [r \in Recipients |-> retries[r].pending]]
      [] verb = "retry" ->
           [NoRequest EXCEPT !.verb = verb, !.running = (campaign = "running"),
                             !.rows = WithStatus("failed"),
                             !.held = [r \in Recipients |->
                                IF rec[r].status = "failed"
                                THEN {c \in Columns : rec[r][c] # 0} ELSE {}]]
      [] OTHER -> [NoRequest EXCEPT !.verb = verb]

\* A request passes its check.  (One that could not commit within the bounds is
\* not looked at.)
Ask(q, verb) ==
    /\ asked[q].verb = "none"
    /\ Allows(verb, campaign)
    /\ verb = "retry" => WithStatus("failed") # {}
    /\ verb = "pause" => pauses < MaxPauses
    /\ verb = "cancel" => cancels < MaxCancels
    /\ verb = "retry" => reruns < MaxReruns
    /\ asked' = [asked EXCEPT ![q] = Reading(verb)]
    /\ UNCHANGED <<campaign, rows, queues, scans, work, history>>

\* It fails after the check (the template has been paused, the number is gone).
Withdraw(q) ==
    /\ asked[q].verb # "none"
    /\ asked' = [asked EXCEPT ![q] = NoRequest]
    /\ UNCHANGED <<campaign, rows, queues, scans, work, history>>

Answer(q, verb) ==
    /\ asked[q].verb = verb
    /\ asked' = [asked EXCEPT ![q] = NoRequest]

EnqueuePlan ==
    \/ planQ' = planQ + 1 /\ UNCHANGED faults
    \/ Fault("drop") /\ UNCHANGED planQ

\* One more overlap, within the bound, when what the check found is gone.
Overlap(gone) ==
    \/ ~gone /\ UNCHANGED overlaps
    \/ gone /\ overlaps < MaxOverlaps /\ overlaps' = overlaps + 1

Start(q) ==
    /\ Answer(q, "start")
    /\ campaign' = "queued"
    /\ EnqueuePlan
    /\ Overlap(~ Allows("start", campaign))
    /\ UNCHANGED <<rows, fanQ, sendQ, scans, work, calls, pauses, cancels, reruns>>

Pause(q) ==
    /\ Answer(q, "pause")
    /\ pauses < MaxPauses
    /\ campaign' = "paused"
    /\ pauses' = pauses + 1
    /\ UNCHANGED <<rows, queues, scans, work, calls, faults, cancels, reruns, overlaps>>

Resume(q) ==
    /\ Answer(q, "resume")
    /\ campaign' = "running"
    /\ EnqueuePlan
    /\ Overlap(~ Allows("resume", campaign))
    /\ UNCHANGED <<rows, fanQ, sendQ, scans, work, calls, pauses, cancels, reruns>>

\* The recipients and the retry rows it saw pending are dropped.
Cancel(q) ==
    /\ Answer(q, "cancel")
    /\ cancels < MaxCancels
    /\ campaign' = "cancelled"
    /\ cancels' = cancels + 1
    /\ rec' = [r \in Recipients |->
                 IF r \in asked[q].rows
                 THEN [rec[r] EXCEPT !.status = "cancelled"] ELSE rec[r]]
    /\ retries' = [r \in Recipients |-> [retries[r] EXCEPT !.pending = @ \ asked[q].due[r]]]
    /\ UNCHANGED <<batch, ledger, accepted, queues, scans, work, calls, faults, pauses,
                   reruns, overlaps>>

\* A failed recipient is put back: the columns that held something are cleared.
Reset(row, held) ==
    [status   |-> "pending",
     message  |-> IF "message" \in held THEN 0 ELSE row.message,
     batch    |-> IF "batch" \in held THEN 0 ELSE row.batch,
     attempts |-> IF "attempts" \in held THEN 0 ELSE row.attempts]

\* A campaign that was read running is not written.
RetryFailed(q) ==
    /\ Answer(q, "retry")
    /\ reruns < MaxReruns
    /\ rec' = [r \in Recipients |->
                 IF r \in asked[q].rows THEN Reset(rec[r], asked[q].held[r]) ELSE rec[r]]
    /\ campaign' = IF asked[q].running THEN campaign ELSE "running"
    /\ reruns' = reruns + 1
    /\ EnqueuePlan
    /\ UNCHANGED <<batch, retries, ledger, accepted, fanQ, sendQ, scans, work, calls,
                   pauses, cancels, overlaps>>

-----------------------------------------------------------------------------
(* The control lane.  A task that dies while it enqueues has enqueued a    *)
(* prefix, and is delivered again.                                         *)

\* The checkpoint a planned recipient goes into: the next free index, one slice
\* of BatchSize after the other, in id order.
Slice(unbatched, r) ==
    LET last     == Max({0} \cup {b \in Batches : batch[b] # "none"})
        position == Cardinality({x \in unbatched : x < r})
    IN  last + 1 + (position \div BatchSize)

Plan ==
    LET unbatched == {r \in Recipients : rec[r].status = "pending" /\ rec[r].batch = 0}
        created   == {Slice(unbatched, r) : r \in unbatched}
        owing     == created \cup {b \in Batches : batch[b] \in {"pending", "in_progress"}}
    IN
    /\ planQ > 0
    /\ created \subseteq Batches
    /\ rec' = [r \in Recipients |->
                 IF r \in unbatched
                 THEN [rec[r] EXCEPT !.batch = Slice(unbatched, r)] ELSE rec[r]]
    /\ batch' = [b \in Batches |-> IF b \in created THEN "pending" ELSE batch[b]]
    /\ campaign' = "running"
    /\ \/ /\ planQ' = planQ - 1
          /\ fanQ' = [b \in Batches |-> IF b \in owing THEN fanQ[b] + 1 ELSE fanQ[b]]
          /\ UNCHANGED faults
       \/ /\ Fault("crash")
          /\ \E k \in 0 .. MaxBatches :
               fanQ' = [b \in Batches |->
                          IF b \in owing /\ b <= k THEN fanQ[b] + 1 ELSE fanQ[b]]
          /\ UNCHANGED planQ
    /\ UNCHANGED <<retries, ledger, accepted, sendQ, readers, work, calls,
                   pauses, cancels, reruns, overlaps>>

FanOut(b) ==
    LET owing == {r \in Recipients : rec[r].batch = b /\ rec[r].status = "pending"} IN
    /\ fanQ[b] > 0
    /\ batch' = [batch EXCEPT ![b] = "in_progress"]
    /\ \/ /\ fanQ' = [fanQ EXCEPT ![b] = @ - 1]
          /\ sendQ' = [r \in Recipients |->
                         IF r \in owing THEN sendQ[r] + 1 ELSE sendQ[r]]
          /\ UNCHANGED faults
       \/ /\ Fault("crash")
          /\ \E k \in 0 .. NumRecipients :
               sendQ' = [r \in Recipients |->
                           IF r \in owing /\ r <= k THEN sendQ[r] + 1 ELSE sendQ[r]]
          /\ UNCHANGED fanQ
    /\ UNCHANGED <<campaign, rec, retries, ledger, accepted, planQ, readers, work, calls,
                   pauses, cancels, reruns, overlaps>>

PendingRows == UNION {{r} \X retries[r].pending : r \in Recipients}

\* A run of the scanner selects rows that are due.
ScanRead(s) ==
    /\ ScannerRuns
    /\ scans[s] = {}
    /\ \E due \in SUBSET PendingRows \ {{}} : scans' = [scans EXCEPT ![s] = due]
    /\ UNCHANGED <<campaign, rows, queues, asked, work, history>>

\* (mutated) The scan enqueues a due row and leaves it pending.
ScanClaim_Unmarked(s, r, i) ==
    /\ <<r, i>> \in scans[s]
    /\ scans' = [scans EXCEPT ![s] = @ \ {<<r, i>>}]
    /\ sendQ[r] < 2
    /\ sendQ' = [sendQ EXCEPT ![r] = @ + 1]
    /\ UNCHANGED <<campaign, rows, planQ, fanQ, asked, work, history>>

\* It marks them one by one, each in a commit of its own, whether or not they
\* are still pending, then enqueues them; one that dies in between leaves a
\* marked row that nothing takes up.
ScanClaim(s, r, i) ==
    /\ <<r, i>> \in scans[s]
    /\ scans' = [scans EXCEPT ![s] = @ \ {<<r, i>>}]
    /\ retries' = [retries EXCEPT ![r].pending = @ \ {i}]
    /\ Overlap(i \notin retries[r].pending)
    /\ \/ sendQ' = [sendQ EXCEPT ![r] = @ + 1] /\ UNCHANGED faults
       \/ Fault("drop") /\ UNCHANGED sendQ
    /\ UNCHANGED <<campaign, rec, batch, ledger, accepted, planQ, fanQ, asked, work, calls,
                   pauses, cancels, reruns>>

-----------------------------------------------------------------------------
(* The send task.                                                          *)

\* A settled recipient is left alone, and a campaign that is not sending halts
\* the task; either way the task is done.
SendDecline(r) ==
    /\ sendQ[r] > 0
    /\ rec[r].status \in SETTLED \/ campaign \notin SENDING
    /\ sendQ' = [sendQ EXCEPT ![r] = @ - 1]
    /\ UNCHANGED <<campaign, rows, planQ, fanQ, readers, work, history>>

\* Where a task goes first: accept a message unless the recipient has one, and
\* call the channel unless that message already has a wamid or failed.
FirstStep(r) ==
    LET m == rec[r].message IN
    IF m = 0 THEN "accept"
    ELSE IF ledger[m].wamid THEN "sent"
    ELSE IF ledger[m].status = "failed" THEN "failed"
    ELSE "call"

SendBegin(w, r) ==
    /\ work[w].step = "idle"
    /\ sendQ[r] > 0
    /\ rec[r].status \notin SETTLED
    /\ campaign \in SENDING
    /\ sendQ' = [sendQ EXCEPT ![r] = @ - 1]
    /\ work' = [work EXCEPT ![w] =
                  [step |-> FirstStep(r), recipient |-> r, campaign |-> campaign,
                   message |-> rec[r].message, batch |-> rec[r].batch,
                   attempts |-> rec[r].attempts]]
    /\ UNCHANGED <<campaign, rows, planQ, fanQ, readers, history>>

\* SendService.accept: the ledger row is committed on its own.
SendAccept(w) ==
    /\ work[w].step = "accept"
    /\ accepted < MaxMessages
    /\ accepted' = accepted + 1
    /\ ledger' = [ledger EXCEPT ![accepted + 1] =
                    [owner |-> work[w].recipient, status |-> "accepted", wamid |-> FALSE]]
    /\ work' = [work EXCEPT ![w].step = "link", ![w].message = accepted + 1]
    /\ UNCHANGED <<campaign, rec, batch, retries, queues, readers, history>>

\* accept refused (opted out, template not sendable, number paused, reference
\* gone): the recipient fails and the task returns at once.
SendReject(w) ==
    /\ work[w].step = "accept"
    /\ Rejecting
    /\ rec' = [rec EXCEPT ![work[w].recipient].status = "failed"]
    /\ work' = [work EXCEPT ![w] = Idle]
    /\ UNCHANGED <<campaign, batch, retries, ledger, accepted, queues, readers, history>>

\* (mutated) Links the row inserted last, by whichever worker.
SendLink_LastInserted(w) ==
    /\ work[w].step = "link"
    /\ rec' = [rec EXCEPT ![work[w].recipient].message = accepted,
                          ![work[w].recipient].status = "queued"]
    /\ work' = [work EXCEPT ![w].step = "call"]
    /\ UNCHANGED <<campaign, batch, retries, ledger, accepted, queues, readers, history>>

\* The recipient is tied to its ledger row, in a commit after the row's own.
SendLink(w) ==
    /\ work[w].step = "link"
    /\ rec' = [rec EXCEPT ![work[w].recipient].message = work[w].message,
                          ![work[w].recipient].status = "queued"]
    /\ work' = [work EXCEPT ![w].step = "call"]
    /\ UNCHANGED <<campaign, batch, retries, ledger, accepted, queues, readers, history>>

\* The channel takes the message; its id is not stored yet.
SendCall(w) ==
    /\ work[w].step = "call"
    /\ calls' = [calls EXCEPT ![work[w].recipient] = @ + 1]
    /\ work' = [work EXCEPT ![w].step = "receipt"]
    /\ UNCHANGED <<campaign, rows, queues, readers, faults, pauses, cancels, reruns, overlaps>>

\* The rate gate refuses for good (marketing on a RED number): the message fails.
SendRefused(w) ==
    /\ work[w].step = "call"
    /\ ledger' = [ledger EXCEPT ![work[w].message].status = "failed"]
    /\ work' = [work EXCEPT ![w].step = "failed"]
    /\ UNCHANGED <<campaign, rec, batch, retries, accepted, queues, readers, history>>

\* (mutated) The attempt is counted and no retry row is written.
RecordAttempt_NoRow(r, attempt) ==
    /\ rec' = [rec EXCEPT ![r].attempts = attempt]
    /\ UNCHANGED retries

\* The attempt is counted, and a re-attempt is due.
RecordAttempt(r, attempt) ==
    /\ rec' = [rec EXCEPT ![r].attempts = attempt]
    /\ retries' = [retries EXCEPT ![r].pending = @ \cup {retries[r].written + 1},
                                  ![r].written = @ + 1]

\* No attempt is left: the recipient fails and its retry rows are closed.
Exhaust(r) ==
    /\ rec' = [rec EXCEPT ![r].status = "failed"]
    /\ retries' = [retries EXCEPT ![r].pending = {}]

\* (mutated) The error path returns without refreshing the progress.
SendError_NoRefresh(w) ==
    LET r       == work[w].recipient
        attempt == work[w].attempts + 1
    IN
    /\ work[w].step = "call"
    /\ \E cap \in AttemptCaps :
         IF attempt < cap THEN RecordAttempt(r, attempt) ELSE Exhaust(r)
    /\ \/ UNCHANGED <<calls, faults>>
       \/ Fault("unheard") /\ calls' = [calls EXCEPT ![r] = @ + 1]
    /\ work' = [work EXCEPT ![w] = Idle]
    /\ UNCHANGED <<campaign, batch, ledger, accepted, queues, readers, pauses, cancels,
                   reruns, overlaps>>

\* deliver raised (throttled, or a channel error): another attempt is recorded,
\* or the recipient fails for good.  The answer may be lost after the channel
\* took the message.
SendError(w) ==
    LET r       == work[w].recipient
        attempt == work[w].attempts + 1
    IN
    /\ work[w].step = "call"
    /\ \E cap \in AttemptCaps :
         IF attempt < cap THEN RecordAttempt(r, attempt) ELSE Exhaust(r)
    /\ \/ UNCHANGED <<calls, faults>>
       \/ Fault("unheard") /\ calls' = [calls EXCEPT ![r] = @ + 1]
    /\ work' = [work EXCEPT ![w].step = "progress"]
    /\ UNCHANGED <<campaign, batch, ledger, accepted, queues, readers, pauses, cancels,
                   reruns, overlaps>>

\* (mutated) The channel's id is not stored.
SendReceipt_NotStored(w) ==
    /\ work[w].step = "receipt"
    /\ work' = [work EXCEPT ![w].step = "sent"]
    /\ UNCHANGED <<campaign, rows, queues, readers, history>>

\* The channel's id is committed on the ledger row, before the outcome.
SendReceipt(w) ==
    /\ work[w].step = "receipt"
    /\ ledger' = [ledger EXCEPT ![work[w].message].wamid = TRUE]
    /\ work' = [work EXCEPT ![w].step = "sent"]
    /\ UNCHANGED <<campaign, rec, batch, retries, accepted, queues, readers, history>>

SendOutcome(w) ==
    /\ work[w].step \in {"sent", "failed"}
    /\ rec' = [rec EXCEPT ![work[w].recipient].status = work[w].step]
    /\ work' = [work EXCEPT ![w].step = "settle"]
    /\ UNCHANGED <<campaign, batch, retries, ledger, accepted, queues, readers, history>>

\* The recipient's live retry rows are closed, as succeeded or as exhausted.
SendSettle(w) ==
    /\ work[w].step = "settle"
    /\ retries' = [retries EXCEPT ![work[w].recipient].pending = {}]
    /\ work' = [work EXCEPT ![w].step = "close"]
    /\ UNCHANGED <<campaign, rec, batch, ledger, accepted, queues, readers, history>>

\* (mutated) The campaign is completed with the batch, whatever the others owe.
SendProgress_OwnBatch(w) ==
    LET b == work[w].batch IN
    /\ work[w].step \in {"close", "progress"}
    /\ batch' = IF /\ work[w].step = "close"
                   /\ b # 0
                   /\ \A r \in Outstanding : rec[r].batch # b
                THEN [batch EXCEPT ![b] = "done"] ELSE batch
    /\ campaign' = IF /\ \A r \in Outstanding : rec[r].batch # b
                      /\ work[w].campaign = "running"
                   THEN "completed" ELSE campaign
    /\ work' = [work EXCEPT ![w] = Idle]
    /\ UNCHANGED <<rec, retries, ledger, accepted, queues, readers, history>>

\* Close the batch when nothing in it is owed (not on the error path), and
\* complete the campaign when nothing in the roster is, if it was running when
\* this task read it.
SendProgress(w) ==
    LET b == work[w].batch IN
    /\ work[w].step \in {"close", "progress"}
    /\ batch' = IF /\ work[w].step = "close"
                   /\ b # 0
                   /\ \A r \in Outstanding : rec[r].batch # b
                THEN [batch EXCEPT ![b] = "done"] ELSE batch
    /\ campaign' = IF Outstanding = {} /\ work[w].campaign = "running"
                   THEN "completed" ELSE campaign
    /\ work' = [work EXCEPT ![w] = Idle]
    /\ UNCHANGED <<rec, retries, ledger, accepted, queues, readers, history>>

-----------------------------------------------------------------------------
(* What can go wrong with a running send task.                             *)

\* The worker dies, or a step raises an error the task retries on: the task was
\* not acknowledged, and is delivered again.
Crash(w) ==
    /\ work[w].step # "idle"
    /\ Fault("crash")
    /\ sendQ' = [sendQ EXCEPT ![work[w].recipient] = @ + 1]
    /\ work' = [work EXCEPT ![w] = Idle]
    /\ UNCHANGED <<campaign, rows, planQ, fanQ, readers, calls, pauses, cancels, reruns,
                   overlaps>>

\* The broker takes the worker for lost and delivers the task to another one
\* while the first still runs.
Redeliver(w) ==
    /\ work[w].step # "idle"
    /\ Fault("redeliver")
    /\ sendQ' = [sendQ EXCEPT ![work[w].recipient] = @ + 1]
    /\ UNCHANGED <<campaign, rows, planQ, fanQ, readers, work, calls, pauses, cancels,
                   reruns, overlaps>>

\* A step raises an error that is not worth retrying: the task ends in the
\* dead letters.
Park(w) ==
    /\ work[w].step # "idle"
    /\ Fault("park")
    /\ work' = [work EXCEPT ![w] = Idle]
    /\ UNCHANGED <<campaign, rows, queues, readers, calls, pauses, cancels, reruns, overlaps>>

\* A run of the scanner dies before it has claimed all it selected.
ScanDies(s) ==
    /\ scans[s] # {}
    /\ Fault("crash")
    /\ scans' = [scans EXCEPT ![s] = {}]
    /\ UNCHANGED <<campaign, rows, queues, asked, work, calls, pauses, cancels, reruns, overlaps>>

\* The broker loses its queues; nothing rebuilds them from the tables.
Flush ==
    /\ Fault("flush")
    /\ planQ' = 0
    /\ fanQ' = [b \in Batches |-> 0]
    /\ sendQ' = [r \in Recipients |-> 0]
    /\ UNCHANGED <<campaign, rows, readers, work, calls, pauses, cancels, reruns, overlaps>>

-----------------------------------------------------------------------------

Operator ==
    \E q \in Requests :
        \/ (\E verb \in Verbs : Ask(q, verb)) \/ Withdraw(q)
        \/ Start(q) \/ Pause(q) \/ Resume(q) \/ Cancel(q) \/ RetryFailed(q)

Control ==
    \/ Plan
    \/ \E b \in Batches : FanOut(b)
    \/ \E s \in Scanners : ScanRead(s)
    \/ \E s \in Scanners : \E row \in scans[s] : ScanClaim(s, row[1], row[2])

\* The steps of a send task once a worker has begun it.
Continue(w) ==
    \/ SendAccept(w) \/ SendReject(w) \/ SendLink(w)
    \/ SendCall(w) \/ SendRefused(w) \/ SendError(w)
    \/ SendReceipt(w) \/ SendOutcome(w) \/ SendSettle(w) \/ SendProgress(w)

Send ==
    \/ \E r \in Recipients : SendDecline(r)
    \/ \E w \in Workers, r \in Recipients : SendBegin(w, r)
    \/ \E w \in Workers : Continue(w)

Failure ==
    \/ Flush
    \/ \E s \in Scanners : ScanDies(s)
    \/ \E w \in Workers : Crash(w) \/ Redeliver(w) \/ Park(w)

Next == Operator \/ Control \/ Send \/ Failure

Spec == Init /\ [][Next]_vars

\* The workers and the scanner keep running: a task waiting in a lane is taken
\* in the end, and a task begun moves on.  Nothing obliges the operator to act
\* or a fault to happen.
Fairness ==
    /\ WF_vars(Control)
    /\ WF_vars(\E r \in Recipients : SendDecline(r))
    /\ WF_vars(\E w \in Workers, r \in Recipients : SendBegin(w, r))
    /\ \A w \in Workers : WF_vars(Continue(w))

FairSpec == Spec /\ Fairness

-----------------------------------------------------------------------------
(* Properties.                                                             *)

\* The send tasks that may still call the channel for r.
Callers(r) == {w \in Workers : /\ work[w].recipient = r
                              /\ work[w].step \in {"accept", "link", "call"}}

\* No task waits, no worker is busy, no re-attempt is scheduled.
Quiet ==
    /\ planQ = 0
    /\ \A b \in Batches : fanQ[b] = 0
    /\ \A r \in Recipients : sendQ[r] = 0 /\ retries[r].pending = {}
    /\ \A w \in Workers : work[w].step = "idle"

\* So far no fault, no pause, no cancellation, no manual retry, and no start,
\* resume or scan that acted on what another had taken: each recipient has had
\* one task at a time.
Undisturbed == faults = 0 /\ pauses = 0 /\ cancels = 0 /\ reruns = 0 /\ overlaps = 0

\* What a duplicate may have behind it.
Causes == faults + pauses + reruns + overlaps

\* A message row is only ever linked to, and worked on for, the recipient it
\* was accepted for: two workers that accept at the same time never cross
\* their ids (send_recipient, _accept).
MessagesBelong ==
    /\ \A r \in Recipients : rec[r].message # 0 => ledger[rec[r].message].owner = r
    /\ \A w \in Workers : work[w].message # 0 =>
         ledger[work[w].message].owner = work[w].recipient

\* A recipient is reported sent only when the channel acknowledged a message
\* of its own, whichever task wrote the outcome and whatever died on the way.
SentWasAcknowledged ==
    \A r \in Recipients : rec[r].status = "sent" =>
        \E m \in Messages : ledger[m].owner = r /\ ledger[m].wamid

\* The channel takes a recipient's message once, and once more at most for
\* every fault, pause or manual retry, and for every start, resume or claim
\* that acts on a reading another has overtaken: however the send tasks
\* interleave, a duplicate has one of these behind it.
DuplicatesAreAccounted ==
    \A r \in Recipients : calls[r] <= 1 + Causes

\* Undisturbed, a campaign left running with nothing in any lane owes nobody:
\* no interleaving of batches, sends and re-attempts strands a recipient.
NobodyStranded ==
    Undisturbed /\ campaign = "running" /\ Quiet => Outstanding = {}

\* Undisturbed, a completed campaign owes nobody, and a batch that is done has
\* no recipient that is still owed.
CompletedOwesNobody ==
    Undisturbed =>
        /\ campaign = "completed" => Outstanding = {}
        /\ \A b \in Batches : batch[b] = "done" =>
             \A r \in Outstanding : rec[r].batch # b

\* Undisturbed, an outcome is final: a task that reads a recipient before
\* another one settles it never writes over the outcome.
OutcomeIsFinal ==
    [][\A r \in Recipients :
         Undisturbed' /\ rec[r].status \in SETTLED => rec'[r].status = rec[r].status]_vars

\* Undisturbed, a campaign that was started completes in the end: batches, sends
\* and re-attempts all drain.  It ends uncompleted, but owing nobody, only when a
\* recipient was refused at accept (and so failed without a message).
StartedEnds ==
    campaign = "queued" ~>
        \/ campaign = "completed"
        \/ Outstanding = {} /\ \E r \in Recipients : rec[r].status = "failed" /\ rec[r].message = 0
        \/ ~Undisturbed

-----------------------------------------------------------------------------
(* The inductive invariant behind the safety properties.                   *)

\* Message rows are numbered as they are accepted; what is not accepted yet
\* belongs to nobody.
LedgerGrows == \A m \in Messages : ledger[m].owner # 0 => m <= accepted

\* Every message id held by a row or a worker is that of an accepted message of
\* the same recipient.
Linked ==
    /\ \A r \in Recipients : rec[r].message # 0 =>
         rec[r].message <= accepted /\ ledger[rec[r].message].owner = r
    /\ \A w \in Workers : work[w].message # 0 =>
         work[w].message <= accepted /\ ledger[work[w].message].owner = work[w].recipient

\* A busy worker works for somebody, on a message unless it is yet to accept
\* one, and is about to report only what the channel acknowledged.
JobsMakeSense ==
    \A w \in Workers :
        /\ work[w].step # "idle" => work[w].recipient \in Recipients
        /\ work[w].step \notin {"idle", "accept"} => work[w].message # 0
        /\ work[w].step = "sent" => ledger[work[w].message].wamid

\* No batch task waits for a checkpoint that does not exist.
FannedBatchesExist == \A b \in Batches : batch[b] = "none" => fanQ[b] = 0

\* 1 while the campaign is still to be started, or resumed.
Dormant == IF campaign \in DISPATCHABLE \cup {"paused"} THEN 1 ELSE 0

\* The batch tasks that wait for r's checkpoint.
Fanned(r) == IF rec[r].batch = 0 THEN 0 ELSE fanQ[rec[r].batch]

\* The re-attempts that wait for the scanner.
Due(r) == Cardinality(retries[r].pending)

\* What may still become a call for r: the campaign's start or resume, the tasks
\* in the three lanes, the re-attempts due, and the workers about to call.
Chances(r) ==
    Dormant + planQ + Fanned(r) + sendQ[r] + Due(r) + Cardinality(Callers(r))

\* Calls made and chances left never exceed the first attempt and one more for
\* every fault, pause, manual retry and overlap.
Accounted ==
    \A r \in Recipients : calls[r] + Chances(r) <= 1 + Causes

\* The send tasks that have yet to write an outcome, or another attempt, for r.
Working(r) == {w \in Workers :
                 /\ work[w].recipient = r
                 /\ work[w].step \in {"accept", "link", "call", "receipt", "sent", "failed"}}

\* What there is that will see to r.
Carried(r) ==
    Dormant + planQ + Fanned(r) + sendQ[r] + Due(r) + Cardinality(Working(r))

\* A recipient that is owed has one thing that will see to it, and no other has
\* any: the first is why nobody is stranded, the second why outcomes are final.
OneEach == \A r \in Recipients : Carried(r) = IF r \in Outstanding THEN 1 ELSE 0

\* Before the one plan of an undisturbed campaign nothing was touched; before
\* its batch is fanned out, no recipient was.
UntouchedBefore ==
    /\ Dormant + planQ > 0 =>
         /\ \A r \in Recipients : rec[r].status = "pending" /\ rec[r].batch = 0
         /\ \A b \in Batches : batch[b] = "none"
    /\ \A r \in Recipients : Fanned(r) > 0 => rec[r].status = "pending"

\* What closes a recipient's retry rows has written its outcome.
ClosedIsSettled ==
    \A w \in Workers : work[w].step \in {"settle", "close"} =>
        rec[work[w].recipient].status \in SETTLED

\* Behind NobodyStranded, CompletedOwesNobody and OutcomeIsFinal.
Orderly ==
    /\ campaign \in DISPATCHABLE \cup SENDING \cup {"completed"}
    /\ OneEach
    /\ UntouchedBefore
    /\ ClosedIsSettled

\* TypeOK, SentWasAcknowledged and what keeps them, the account, and the order of
\* an undisturbed campaign, in one formula that every step preserves.
IInv ==
    /\ TypeOK
    /\ LedgerGrows
    /\ Linked
    /\ JobsMakeSense
    /\ SentWasAcknowledged
    /\ FannedBatchesExist
    /\ Accounted
    /\ Undisturbed => Orderly
    /\ CompletedOwesNobody

-----------------------------------------------------------------------------
(* What the repository says of the campaign and the code does not keep.    *)

\* The duplicate column of the recovery table, and the promise of a resume:
\* the channel takes each recipient's message at most once.
SentOnce == \A r \in Recipients : calls[r] <= 1

=============================================================================
