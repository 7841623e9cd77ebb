# Formal models of Vi Reactivation

TLA+ modules, TLC runs and TLAPS proofs about this repository: a self-hosted
WhatsApp business platform with a backend (FastAPI, SQLAlchemy on MySQL, Celery
on Redis) and a console (React, React Query). Paths below are relative to
`src/backend/app`, or to `src/frontend/src` in the sections on the console,
unless they start with `docs/`.

## 1. Inventory

Backend:

| Part | State | Operations | What is hard | What makes it correct |
| --- | --- | --- | --- | --- |
| Campaign dispatch (`services/campaign_*`, `crm/campaign_tasks.py`) | `campaigns`, `campaign_recipients`, `campaign_batches`, `campaign_retry_queue`; three queue lanes | start, pause, resume, cancel, retry failed; plan, fan out, send, scan | at-least-once tasks cut at several commits, stale sessions, operator against workers, two workers on one recipient | nobody is sent to twice without a cause, nobody is stranded, outcomes are final |
| Single sends (`api/v1/endpoints/messages.py`, `services/send_service.py`) | `messages` without and with a `wamid` | accept, react, deliver, fail | the channel call cannot be rolled back; the row, the key and the task are three stores | told of a message means it is tried; taken once |
| Idempotency keys (`core/idempotency.py`) | one Redis key per request | begin, complete, release | concurrent retries, expiry, handlers that die | one message per key |
| Inbound webhooks and ledger (`services/webhook_service.py`, `services/message_service.py`) | `webhook_events`, `webhook_dead_letter`, `messages`, `message_status_history` | ingest, process, apply status, apply inbound, dead-letter | duplicates, reordering, check-then-insert, crash between commit and dispatch | each fact applied once, statuses forward only, acknowledged means recorded |
| Conversations and inbox (`services/conversation_service.py`, `services/inbox_service.py`) | thread, unread counter, service window | open for inbound, mark read, assign | read-modify-write counters | the badge never hides nor invents a message |
| KYC and reactivation cases (`services/vi_domain_service.py`, `services/contact_document_service.py`) | `kyc_cases`, `kyc_decisions`, checklist, `reactivation_cases`, documents | create, prepare, refer documents, review, approve, move | versions compared in memory under concurrent requests | separation of duties, a decision stays and was backed |
| Authentication (`services/auth_service.py`) | refresh-token families | login, refresh, logout | rotation with reuse detection, several tabs | one page never trips the reuse detection |
| Campaign schedules (`services/campaign_schedule_service.py`) | `campaign_schedules.next_run_at` | schedule, tick | overlapping ticks, a crash between claim and fire | each slot fired once |
| Rate gate (`services/rate_gate.py`) | token bucket and tier window in Redis | acquire | budget at its limit, local fallback | the tier cap is kept |
| Queue engine (`queue/`, `services/job_service.py`) | `job_metadata`, `dead_letter` | start, finish, retry, park, replay, cancel | redelivery, last writer wins | at-least-once, bounded attempts |
| Automation (`services/automation_runtime_service.py`) | runs and step attempts | create, execute, fail | resumption of a half-done run | a step done is not done again |
| Tasks, notifications (`services/task_service.py`) | due dates, notices | edit, dispatch due notices | scan against edit | one notice per due date |
| Bulk, import, export (`services/bulk_service.py`, ...) | job progress | run | re-run of a half-done job | counts are of one run |
| Media (`services/media_ingest_service.py`) | assets, usage counts | download, link | deduplication of concurrent downloads | a used asset is kept |
| Contacts, segments, templates, users, roles, analytics | rows | CRUD in one transaction | little a model of the server would add | - |

Console:

| Part | State | Operations | What is hard | What makes it correct |
| --- | --- | --- | --- | --- |
| Data cache (`lib/queryClient.ts`, `features/*/api.ts`) | one cache entry per query key, its fetch, mutations under way | mount, poll, fetch, mutate, invalidate, fill | answers out of order, invalidations that name too little, lost answers | a user reads what he wrote; a view never goes back |
| Record screens (`features/*`) | the copy shown, forms and drafts, requests sent | offer, open, type, save, press, refetch | controls judged on a stale copy, whole-record saves, drafts re-seeded | offers are accepted, nobody's change is undone, what was typed survives |
| Session (`lib/auth`, `lib/api/client.ts`) | access token per tab, refresh token per browser | boot, sign in, refresh, replay, sign out | one exchange for many requests, several tabs, answers after sign-out | one exchange, nothing shown after it, no wait for ever |
| Navigation (`App.tsx`, `routes/guards.tsx`, `components/layout`) | the location, the page asked for | open, redirect, follow a link, sign in and return | gates of links and pages written apart | ways in end where asked; links shown are open |
| Lists, wizards, charts | local state | filter, fill in, render | rendering, validation | - |

The parts meet in four ways. A request commits its rows and then enqueues a
task. A task commits its rows step by step and enqueues others; the broker
delivers it at least once (`acks_late`, `reject_on_worker_lost` in
`queue/celery_app.py`). The database is shared: sessions are opened with
`expire_on_commit=False, autoflush=False` (`db/session.py`), so a task goes on
with the rows it read first, and MySQL's REPEATABLE READ lets two transactions
overwrite each other's read-modify-writes. And the console holds copies of what
the server has, which it renews by polling and after its own writes.

## 2. Plan

| Order | Module | Subject | Abstract specification | Proofs |
| --- | --- | --- | --- | --- |
| 1 | `CampaignDispatch` | campaign from start to completion | - | `CampaignDispatchProofs` |
| 2 | `WebhookPipeline` | delivery to ledger | - | `WebhookPipelineProofs` |
| 3 | `ServerCache`, `ConsoleQueries` | the console's copies of the server | `ForwardCopy` | `ServerCacheProofs` |
| 4 | `RecordScreens`, `ScreenTables` | controls and forms against handlers | - | `RecordScreensProofs` |
| 5 | `ConsoleSession` | tabs, tokens, rotation | - | `ConsoleSessionProofs` |
| 6 | `ConsolePages`, `ConsoleRoutes` | guards, redirects, links | - | `ConsolePagesProofs` |
| 7 | `MessageSends` | sends behind idempotency keys | - | `MessageSendsProofs` |
| 8 | `KycCases` | concurrent commands on a case | - | `KycCasesProofs` |

All are written. `ConsoleQueries`, `ScreenTables` and `ConsoleRoutes` are tables of
what each feature of the console does, read by the module they are composed with;
the `MC` modules add the lists of known exceptions and the symmetry.

What is left: every safety invariant and action property of the passing runs is
stated by a theorem. To do are a proof that the console's own link tables keep the
two rules of `ConsolePages` for every set of codes (6); a model of the schedule's
tick; and abstract specifications of the campaign (1) and of a keyed send (7).

## 3. CampaignDispatch

One campaign with a roster of `NumRecipients`, sent by `Workers`.

| Variable | Code |
| --- | --- |
| `campaign` | `campaigns.status` |
| `rec[r]` | `campaign_recipients`: `status`, `message_id`, `batch_id`, `retry_count` |
| `batch[b]` | `campaign_batches.status`, `none` before the row exists |
| `retries[r]` | rows of `campaign_retry_queue` by number: which are pending, how many were written |
| `ledger[m]`, `accepted` | `messages`: owner, `accepted` or `failed`, whether a `wamid` is stored |
| `planQ`, `fanQ[b]`, `sendQ[r]` | tasks waiting in the control, batch and send lanes |
| `asked[q]` | a request that has checked the campaign and not committed, with the rows its session read |
| `scans[s]` | what a run of the retry scanner has selected and not claimed |
| `work[w]` | the session of the send task on worker `w`: where it stands and what it read |
| `calls`, `faults`, `pauses`, `cancels`, `reruns`, `overlaps` | history |

Actions are the operator's requests (`Ask`, then `Start`, `Pause`, `Resume`,
`Cancel`, `RetryFailed` or `Withdraw`), the control lane (`Plan`, `FanOut`,
`ScanRead`, `ScanClaim`), the send task cut at each of its commits and at the
channel call (`SendBegin` ... `SendProgress`), and faults (`Crash`, `Redeliver`,
`Park`, `ScanDies`, `Flush`, a process that dies before it enqueues, an answer that
is lost).

No request locks the campaign or names a version in its UPDATE
(`services/campaign_dispatch_service.py:121`, `services/campaign_lifecycle_service.py:79`),
so a request is two actions: `Ask` reads and checks, the verb's own action commits
whatever the status has become. Two starts, a start and a tick, or two resumes that
overlap both pass and both enqueue a plan. In the same way a scan selects due rows
(`ScanRead`) and marks them later, one commit after the other (`ScanClaim`), so two
scans that overlap enqueue one re-attempt twice. `overlaps` counts the starts,
resumes and claims that acted on what was no longer there.

What is abstracted, and why it is sound for the properties:

- A plan or batch task reads and writes its rows in one transaction and is one
  action, as are a send task's progress and settling. Their reads are a snapshot,
  and what could come in between is another task's queue entry, which arriving
  later stands for. `dispatch_campaign` enqueues after its commit; that a task waits
  in its queue covers the time in between, and a crash while enqueueing leaves any
  prefix of the tasks and redelivers the control task.
- A request keeps of its reading what its commit depends on: the recipients it will
  write, which of their columns were set (an unchanged column is not in the
  UPDATE), the retry rows it saw pending, and whether a retry found the campaign
  running, in which case it does not write the status. Under REPEATABLE READ a later
  SELECT of the same transaction sees no more than the first.
- A session's stale view is kept where it matters: the campaign's status, the
  recipient's message, batch and retry count as read by `SendBegin`.
  SQLAlchemy writes only changed columns, so an action sets only the fields the
  code assigns.
- The progress counters, the terminal retry rows (`succeeded`, `exhausted`,
  `cancelled`), timestamps, audit rows and backoff delays are left out. A
  due row is due at once; the scanner may take it at any later time.
- `AttemptCaps` stands for the attempt limits of the failure classes in
  `queue/retry.py`; which class an error has is a choice.
- Delivery reports of the webhook lane (`delivered`, `read`) do not touch the
  recipient row and are not part of this module.

### Properties

- `MessagesBelong`: two workers that accept at once never cross their ids.
- `SentWasAcknowledged`: `sent` is written only after the channel acknowledged
  a message of that recipient, under every fault.
- `DuplicatesAreAccounted`: the channel takes a recipient's message at most once
  plus once for every fault, pause, manual retry and overlap. This is what the code
  does keep of "nothing repeats": a plain double click on Start may send twice, and
  the account says that each extra message has one such cause.
- `NobodyStranded`, `CompletedOwesNobody`, `OutcomeIsFinal`, `StartedEnds`: what
  holds while no fault, no operator and no overlap interferes (`Undisturbed`), in
  every interleaving of two workers.

### Runs

| Run | Instance | Shows |
| --- | --- | --- |
| `undisturbed` | 3 recipients, batches of 2, 2 workers, refusals, errors, one re-attempt | the four properties above and `MessagesBelong` |
| `faults` | 1 recipient, 2 workers, 2 requests and 2 scans at once, 2 messages; any two of: a fault of any kind, a pause, a cancellation, a manual retry, an overlap | `IInv`, `SentWasAcknowledged`, `DuplicatesAreAccounted` |
| `resume_resends` | 1 pause | violates `SentOnce` |

Bounds: three recipients in batches of two give two checkpoints of different
sizes, so the last recipient of a batch and of the campaign settle in every
order; two workers suffice for every race between a pair of tasks; an attempt
cap of 2 gives one re-attempt and an exhaustion, 0 a terminal error. In `faults`
one recipient is enough because its properties speak of one recipient at a
time and recipients share only the campaign's status; `MaxMessages = 2` lets two
workers each accept a message. Reaching `MaxMessages` only stops further
accepts. Two requests and two scans make every overlap of a pair. Each kind of
disturbance is bounded by one, and `MaxTroubles` (`MCCampaignDispatch`, an
`ACTION_CONSTRAINT`) by two together, those in the making included: a request asked
for that can only disturb, or a selection already overtaken, counts as one, so no
path is cut in the middle. In `undisturbed` one request and one scan at a time are
enough, as without a second there is nothing to overlap with. The runs have 361,653
and 1,092,370 states. Deadlock is not checked: a campaign that is over leaves
nothing to do. Symmetry on workers and requests is used in the runs without
liveness.

`resume_resends` is a disagreement between the code and what the repository says of
it; `PROJECT.json` quotes the lines. The same model shows others, on which no run
is spent:

- Two starts (a double click, or a tick beside an operator), two resumes, or two
  scans that overlap send a recipient its message twice, and write one outcome over
  the other.
- A plan task that arrives after a cancellation sets the campaign to running, and a
  send task that read the campaign before it completes it
  (`models/campaign.py:74`, "Nothing more will ever be sent from these").
- A due re-attempt claimed by the scanner and declined because the campaign is
  paused is never made again: resume plans pending recipients only.
- A campaign (or a batch) whose last outstanding recipient is refused at accept
  stays running: `send_recipient` returns before it refreshes the progress.
- The beat schedule has no entry for `scan_campaign_retries` and nothing enqueues
  it. `ScannerRuns` is the assumption that a deployment does.
- A crash between the channel's answer and the commit of the `wamid` sends again.
- A flush of the queues is not reconciled from the tables (docs/design/06, section
  18, speaks of a task that does not exist).

### Fairness

`StartedEnds` assumes weak fairness of each worker's next step, of taking a
waiting task, and of the control lane and scanner: the broker delivers what it
holds and workers run what they took. Nothing obliges the operator to act or a
fault to happen. No channel outcome is obliged either: an error is followed by
another attempt only up to the cap, so the task drains whatever the channel
answers.

### Proofs (`CampaignDispatchProofs`)

Checked by tlapm for every roster, batch size, number of workers and bound,
from the assumptions named in `CampaignDispatch` (`BoundsAssumption`,
`WorkersAssumption`, `FlagsAssumption`, `FaultsAssumption`).

- `TypeCorrect`: `Spec => []TypeOK`.
- `MessagesNeverCross`, `SentIsAcknowledged`: from `Links`, which says that
  every message id held by a row or a worker is that of an accepted row of the
  same recipient, and that a worker about to report `sent` holds a row whose
  `wamid` is stored. `SentWasAcknowledged` alone is not inductive: the evidence
  lives in the worker between its receipt and its outcome.
- `DuplicatesHaveACause`: from `Accounted`, an account with two sides. What was
  called plus what may still become a call (`Chances`: a start or resume to
  come, tasks in the three lanes, due rows, workers about to call) never exceeds
  1 + faults + pauses + manual retries + overlaps (`Causes`). Every step moves a
  chance from one lane to the next, spends it, or pays for a new one: the first
  start or resume of several turns the one to come into a plan, the others make a
  plan out of nothing and are counted; the same with the claims of one due row.
  Retry rows are numbered so that a claim is either of a row that is there, and takes
  it, or of one that is gone.
- `CompletedCampaignOwesNobody`, `NobodyIsStranded`, `OutcomesAreFinal`: from
  `Orderly`, which holds while no fault and no operator interferes. Its heart is
  `OneEach`: what will see to a recipient (`Carried`: a start to come, its tasks in
  the three lanes, a due row, a worker that has yet to write) counts one if the
  recipient is owed and none if it is not; an overlap would make it two, and ends
  what is claimed. That each owed recipient has at least
  one carrier is why nobody is stranded when every lane is empty; that nobody has
  more than one, and the settled none, is why no outcome is written over. None of
  the three is inductive alone: each speaks of one lane, and the carrier moves
  from lane to lane. `UntouchedBefore` (a recipient is pending until its batch is
  fanned out) keeps the plan's guards from dropping one, `ClosedIsSettled` the
  last writes of a send from reopening one.
- `IInvHolds`: the conjunction `IInv` of all these, which the `faults` run also
  checks.

Only model-checked: `StartedEnds` (liveness is out of the prover's reach).

## 4. WebhookPipeline

One conversation: what Meta delivers about one customer and one outbound message,
the three lanes `webhooks.ingest`, `webhooks.process` and `inbound.process`, and
the tables they write.

| Variable | Code |
| --- | --- |
| `event[e]`, `received` | rows of `webhook_events` (the fact, `status`) and how many dead letters `webhook_dead_letter` holds for each |
| `acked` | what Meta has had a 200 for; it sends the rest again |
| `ingestQ`, `processQ[e][a]`, `inboundQ` | tasks waiting, in the process lane per attempt |
| `work[w]` | the task on worker `w`: its next transaction and what the open one has read |
| `message`, `log[e]` | the outbound row (`status`, whether `wamid` is stored), its `message_status_history` |
| `contact`, `thread`, `copies[f]` | the sender's `contacts` row, the `conversations` row with its `unread_count`, the inbound rows of `messages` |
| `fresh`, `faults`, `reads`, `deletes`, `overlap` | history |

`WebhookService.process` commits the attempt count first and decides in a second
transaction: `ProcessBegin`, then `ProcessRead` (sibling, message status) and a
write (`ProcessDuplicate`, `ProcessApply`, `ProcessRoute`); the hand-over after the
commit is `ProcessDispatch`. An unknown `wamid` is retried up to `AttemptCap` and
then buried (`ProcessNotFound`, `DeadLetter`). `MessageService.apply_inbound` is one
transaction: `InboundBegin` takes its snapshot, `InboundStore` is its commit,
`InboundCollides` the integrity error of `uq_contacts_org_waid` or
`uq_conv_number_contact`, which `queue/retry.py` gives no class and so no retry.

Abstractions:

- A delivery carries one event; a batch is several deliveries. The fact of an
  event stands for its `event_id`: the adapter derives one id from a message, and
  one from a `wamid` and a status.
- `webhook_events.attempts` is a counter nobody decides on, and is left out; so are
  the media lane, the 24-hour window, previews, and the database's own transient
  errors. The ingest task enqueues in one action, repeated if its worker dies.
- Only one outbound message and one sender: rows of others do not interact with
  these.

### Properties

- `VerdictsHaveEvidence`: no status of an event, nor of the message, is a durable
  lie, in spite of dead letters that overwrite the status blindly.
- `CopiesAreAccounted`: no inbound message is stored more often than once plus once
  for every fault. The `wamid` has no unique index; what limits the copies is how
  many tasks can exist at all.
- `UnreadIsBacked`: lost updates of the badge never make it count too much.
- `SerialStoresOnce`, `SerialMovesForward`: what the code does keep of exactly-once
  and of the one-way street. `overlap` records whether two tasks were ever in
  progress together; until then, crashes, repeats and reordering spoil neither the
  thread nor the status.
- `AckedIsRecorded`: whatever is delivered twice, an acknowledged event is applied
  or buried, unless a worker dies.

### Runs

| Run | Instance | Shows |
| --- | --- | --- |
| `webhook_faults` | 3 deliveries of 2 messages, 2 callbacks and a poison event; 2 workers, 2 attempts, 1 fault of any kind, 1 mark-read | the safety properties, and `IInv` |
| `webhook_live` | 2 deliveries of 2 messages and a callback, 1 fault other than a crash, 1 deletion | `AckedIsRecorded` |

Bounds: two deliveries meet in every race of the code (two rows of one fact, two
callbacks, two first messages of a customer), the third adds a bystander; two
attempts give a retry and an exhaustion. `received` stops at `MaxEvents`, which
only stops Meta. A contact deleted in between only turns messages away: it is left to
`webhook_live`, and the theorems hold for any number of deletions. Workers and inbound
messages are symmetric. Deadlock is not checked: when Meta is silent nothing is left
to do.

Disagreements the model shows and no run is spent on: of two callbacks of one
message processed at the same time the later commit may put the older status back,
for `apply_status` compares with what its transaction read and takes no lock
(`models/message.py:43`, "Delivery is a one-way street"; the property that holds is
`SerialMovesForward`); a worker that dies between settling an inbound event and
enqueueing its message loses the message, since the redelivered task finds the
event settled (docs/design/06, 11.4, "nothing is dropped"); two first messages of a customer at
the same time, or any message of a deleted contact, end in the dead letters, for
which no replay exists in the code (`models/conversation.py:54` calls the unique
key what makes upsert-on-inbound safe); two rows of one event processed together
are both applied (docs/design/06, 11.4, says a duplicate is not re-applied).

### Fairness

Weak fairness of taking a waiting task and of each worker's next step, as for the
campaign. Meta need not send anything again, the send need not ever store its
`wamid`, and the operator need not act.

### Proofs (`WebhookPipelineProofs`)

For all facts, workers, attempt caps and bounds, from `FactsAssumption` and
`BoundsAssumption`: `IInvHolds` shows `IInv`
inductive. Beside the properties themselves it needs these facts. `KnownRows`: no
task waits and nothing is logged for a row that does not exist yet, so a delivery
cannot change the fact of a row somebody works on. `JobsMakeSense`: the step of a
worker fits its event's fact, and one about to mark a duplicate has seen the fact
logged for another row. `SerialReadsHold`: a lone worker's reading is still true
when it commits. `VerdictsAreTrue`, `SerialInboxIsRight`, `SerialDeliveryIsOneWay`
and `TypeCorrect` follow.

`CopiesHaveACause` rests on an account, `Accounted`: the copies stored of a message
and what may still become one (`Due`: the delivery Meta has had no 200 for, every
task that waits or runs on a row of the message) never exceed one plus the faults.
A lane holds counts per row and attempt; `Total` is what they count together, as
the size of a set, so that the library's facts about cardinalities say what moving
one task does to the sum. `BadgeIsBacked` needs the same of what a task has read of
the badge and has yet to write (`BadgesAreBacked`): the increment goes with a copy.

Only model-checked: `AckedIsRecorded`.

## 5. ServerCache, ConsoleQueries, ForwardCopy

One React Query entry of the console: a copy of what the server has committed, the
request that fills it, and the mutations whose success handlers declare it out of
date. Entries share nothing but the server, so the state is that of one, `view`,
which `Init` picks; a run over all of `ConsoleQueries` is a run of every entry.

| Variable | Code |
| --- | --- |
| `view` | the query hook: its key, the data it reads on the server, whether it polls |
| `server` | how many writes are committed to that data |
| `data`, `marked`, `old` | the entry's data, `isInvalidated`, older than `staleTime` |
| `shown` | a mounted component observes it |
| `fetch` | the request under way and what the server answered it with |
| `call[w]` | a mutation under way: what its hook's `onSuccess` does to this entry |
| `due`, `losses`, `overtaken` | history: the newest write the user was told of, requests lost, a success that met a fetch it could not cancel |

`ConsoleQueries` is the table of the hooks in `features/*/api.ts`: the key of each
query, the data its handler reads, how it polls, and for each mutation the data its
handler writes and the keys `onSuccess` invalidates or sets. React Query itself is
not in the repository; the rules taken from it are listed at the head of
`ServerCache` and come from the options in `lib/queryClient.ts` (one retry of a
query, none of a mutation, no refetch on focus) and the calls the hooks make.

- `ReadYourWrites`: a view at rest holds every write its user was told of, except
  where a success met a fetch it could not cancel (the first load). Writes the
  console leaves to expire are the table `ConsoleLags` of `MCServerCache`, one line
  per dependency between features that no handler names: search, the timeline after
  anything but a document, the KYC board after a task, the pickers of the campaign
  wizard, a user's roles after a role changed, the audit trail after a cancelled job.
  Without a line the run fails, so the table is exactly the console's debt.
- `CopyMovesForward`: the entry implements `ForwardCopy`, an abstract copy that only
  moves to later states of the server, unless `setQueryData` can fill it.
- `WritesReachTheScreen`: what is on screen and behind catches up; a view that
  polls does so whatever was lost or overtaken.

Run `views`: every entry, two mutation calls at once, two writes, one loss. Two
calls are what a race of successes needs and two writes what order needs. Fairness:
the server answers a request and the answer is received (a loss is a step of its
own, bounded by `MaxLosses`), and an interval set without condition fires while the
component is on screen. Nothing obliges a user to act.

Proofs (`ServerCacheProofs`), for any tables and any number of calls:
`InductiveInvariant`, `TypesHold`, `WritesAreRead`, and the refinement
`ImplementsForwardCopy`. All four rest on `PromisesAreKept`, a statement
about the tables that says every promised write is covered or filled. `ReadYourWrites` is not inductive: a
quiet view needs the same of the answer still on its way, which is
`AnswersCarryTheWrites` (an answer under way was read after every announced write,
and data that lacks one is marked).

## 6. RecordScreens, ScreenTables

One record of the server and two operators who act on it from their screens.

| Variable | Code |
| --- | --- |
| `record` | the row: its status, `row_version`, the values of two fields and who wrote them |
| `held[o]` | the copy the operator's screens show |
| `may[o]` | permission codes |
| `form[o]` | the open form: the copy it was seeded from, the fields typed |
| `call[o]` | the request under way: verb, version and body sent, and what it was sent from |

`ScreenTables` has one record per kind of row the console edits and per control or
form on it: the states and permission the component requires, the states and
permission the handler requires, what becomes of the row, how the form holds its
draft, which version it sends and which fields. Every line was read off the
component and off the handler behind it, independently; the run compares them.

- `OffersAreAccepted`: a request sent from what is still the record is not refused.
- `UntouchedStays`: a save never rolls back a field its sender did not type in.
- `SeenBeforeReplaced`: a save replaces only values its form was showing.
- `TypedSurvives`: neither a refused save nor a refetch takes away what was typed.

The verbs that break one of them are the lists in `MCRecordScreens`; every verb not
listed is shown to keep it, and a listed one that kept it would be a line too many
only. The lists are the model's result:

| List | What the code does |
| --- | --- |
| `UnguardedVerbs` | task controls are shown to readers (`tasks:read`) and need `tasks:write`; a role is assigned under another permission than the dialog asks for; the pipeline board and the KYC screen leave transitions to the server; and a message or reaction from the inbox carries no `Idempotency-Key` (`features/inbox/api.ts:310-346`), which `require_key` of `core/idempotency.py` refuses with 422 |
| `EditsByCopy` | the draft is copied when the form opens, every field is sent, and the version is read from the newest copy at the time of saving: a refetch in between turns the version check into an overwrite |
| `EditsWithoutVersion` | segments, roles and pipelines take no version: the last writer wins |
| `BlindVerbs` | the same, and handlers that take a single field without a version |
| `ForgetfulVerbs` | `KeyValueEditor` clears its edits as it sends them; `AutomationBuilder`, the case panel and `VerificationPanel` copy the record into the form again after a refetch |

Run `screens`: every kind, two operators, two fields, at most one field typed per
form, versions up to 2, an operator who lacks at most one permission. One typed and
one untyped field are what the properties tell apart; a third version would repeat
the second. Operators and fields are symmetric. Deadlock is not checked: a deleted
record is offered nothing.

Proofs (`RecordScreensProofs`), for any tables, operators, fields and bounds. Each
property has a rule that a verb keeps or breaks by its line of the table alone:
`Guarded` (shown on the handler's conditions and permission), `Sparing` (sends only
what was typed, or the version it shows), `Sighted` (sends the version it shows),
`Keeping` (neither drops nor reseeds the draft). `GuardedIsAccepted`,
`SparingLeavesOthers`, `SightedReplacesSeen` and `KeepingKeepsTyped` say that a verb
that keeps the rule has the property, whatever the operators do at once: a new
screen need only be held against the four rules. `ConsoleKeeps` shows that the
console's tables keep them but for the verbs in the lists above, so its premise is
only that the constants are those tables (`Console`); operators and fields stay
arbitrary. The invariant `IInv` says that every copy, form and request under way is
of the record's past, that equal versions hold equal values, and how the version a
request names relates to what its form showed; the four properties speak of the
moment the request lands, and it is what was true when it was sent that decides.
TLC has found `IInv` to hold on the instance of `screens`; the run itself checks the
four properties.

## 7. ConsoleSession

Two tabs of one browser, the refresh token they share in `localStorage`, the access
token each keeps in memory, and the server's rotation (`services/auth_service.py`,
`refresh`), cut between its read and its commit.

| Variable | Code |
| --- | --- |
| `owner[f]`, `row[token]` | `refresh_tokens`: whose family, live or revoked (and by whose exchange, which is history) |
| `serving` | exchanges the server has not answered |
| `stored`, `access[t]`, `expired` | `tokenStore`; access tokens past their time |
| `status[t]`, `shown[t]` | `AuthStatus` and the `MeResponse` of `AuthProvider` |
| `data[t]`, `dropped[t]` | whose answers the query cache holds; queries whose entry was cleared under way |
| `sent[t]`, `waiting[t]`, `flight[t]`, `answer[t]` | requests, the callers of `refreshOnce`, `refreshInFlight` and its result |

- `ReuseIsAnothers`: reuse detection is never tripped by a page presenting one token
  twice; its requests share one exchange. (Two pages may: that is the model's
  `row[x.token]` naming another.)
- `SignedOutShowsNothing`: after a sign-out nothing of the session is on screen, and
  no answer under way puts it there.
- `EverythingSettles`: no splash and no request waits for ever.

Run `session`: two tabs, one query, one family of two tokens, two faults (a page
load, a lost request or answer). One family suffices for reuse, which is within a
family; two tokens give a rotation and a token that ran out, which is also what
stands for `expires_at`. Fairness: the server finishes what it serves, a request is
answered or fails, the bootstrap effect runs. The user need not do anything.

Proofs (`ConsoleSessionProofs`), for any users, tabs, queries and bounds:
`Inductive`, `TypeCorrect`, `ReuseNeedsAnother`, `SignedOutIsBlank`. The run checks
the whole of `IInv`. That a page never presents a token it has itself spent is true
only because of what the page does not know yet: `OneExchange` (a page has at most
one exchange at the server, the one it waits for), `AnswersAreNew` (a successor on
its way is stored nowhere and presented by nobody), `SpentIsReplaced` (if the token
stored was spent by a page, that page is about to replace it). For a signed-out page
`Quiet` says that what it still waits for is marked as dropped, so a late answer
finds no entry to fill.

A disagreement no run is spent on: a tab that refreshes after another user signed in
in the other tab presents that user's token, and shows that user's data under the
first one's name, for `refreshOnce` does not ask `/auth/me` again
(`AuthProvider.tsx:51` clears what was cached only when a session ends).

## 8. ConsolePages, ConsoleRoutes

Where a tab is and how it got there. `here` is the location, `from` the note the
guard leaves for the sign-in page, `status` and `user` what `AuthProvider` holds,
`codes` the permissions of each user, `stored` whose token the browser keeps;
`asked` and `via` are history. The router, the areas without content of their own
and the links are constants; `ConsoleRoutes` is the console's: `routes/router.tsx`
with the gates of each route, the sections of each shell and the links of the
components, each with the permission it is shown under and the parameters it
carries. `MCConsolePages` puts the two together, and TLC evaluates the assumptions
(`Entrances`, `LinksLead`, `SectionsAreListed`, `SectionsLead`, `NoneIsNothing`) on
the console's tables.

- `ArrivesWhereAsked`: by address, link or reload, through a restored session or a
  sign-in, the page asked for is shown (or the first section of it the user may read).
- `OfferedIsOpen`: a link shown leads to a page its reader may open, but for the list
  `OpenDoors`: a record's link in another area's rows, ways to start work in another
  area, tabs shown to whoever reads the area.
- `LinksArrive`: what a link carries is read by the page, but for `DeadLetters`:
  `import` on the contacts page, `task` on the tasks page, `case` on the pipeline.
- `NavigationSettles`: guards and index redirects never chase each other.

Run `pages`: one user holds everything or exactly what it takes to be offered some
link (every minimal way through its gates, given that who may write may read), the
other only `audit:read`. Links are gated by sets of codes, so a smallest set decides
each gate, and a larger one only opens more. Query strings are names: what they say
is not modelled. Fairness: `bootstrap` ends and a redirect that is rendered is done.

Proofs (`ConsolePagesProofs`), for any router, areas, links, users and codes that
satisfy those assumptions. `EveryWayArrives`: an area that leads on leads to a page
with content, and whoever is offered a section passes the area's gates
(`SectionsLead`), so there is at most one such step. `Located` says that the tab is
where it was asked to be or where that area opens, `Noted` that the guard's note
holds the page asked for and that there is then no session which a reload could
restore past it. `OfferedLinksAreOpen` and `LinksCarry`
take `OfferedIsOpen` and `LinksArrive` down to rules of the tables alone: who is
offered a link passes the gates of the page it opens (`OffersAreOpen`), and a link
carries only what its page reads and nothing to a page that leads on
(`OffersAreRead`), but for those listed. `Followed` carries them: who followed a link
was offered it and holds the same codes still. That the console's tables keep the
two rules is what following every link in `pages` shows, for the sets of codes of
`TeamRights`. TLC has found `IInv` to hold on the instance of `pages`; the run itself
checks the properties. `NavigationSettles` is only model-checked.

## 9. MessageSends

A single send from the client that asks for it, under an `Idempotency-Key`, to the
channel: four stores (Redis, MySQL, the queue, the channel) and no transaction over
them.

| Variable | Code |
| --- | --- |
| `entry[k]` | the Redis value of the key: absent, in flight, or the stored answer |
| `client[k]` | how often it has asked, whom it waits for, what it was told |
| `handler[h]` | the request handler between its calls (`begin`'s SET and GET, the service, `complete`, the enqueue) |
| `message[i]` | the row: whose, `accepted` or `failed`, whether a `wamid` is stored |
| `queue`, `job[w]` | send tasks waiting and running, with their attempt |
| `lapses`, `unclaimed`, `taken`, `unsure`, `orphans`, `faults` | history |

Faults: Redis not answering, a handler or worker dying anywhere, an answer of the
channel lost, a second delivery of a task. A refusal of the service (opt-out, window,
template, an error of the moment) is a choice of `Refuse`; a retryable failure or a
throttled call is `NotTaken`, a final one `Terminal`.

- `MessagesAreAccounted`: at most one message per key, plus one for every expiry and
  one for every request let through without a claim of its own.
- `TakenIsAccounted`: the channel takes a message once, but for calls whose end
  nobody knows; what reads `failed` was otherwise never taken.
- `ToldIsTried`: a client that was told of a message is not told in vain, unless the
  handler died between storing the answer and enqueueing.
- `ClaimsAreSettled`: no claim is held by nobody.

Runs: `sends` (one key asked for three times, two handlers, two workers, two
attempts, one expiry, one fault) and `sends_twice`, in which nothing expires and
nothing fails but a request. The latter violates `OneMessagePerKey`: `begin` goes
ahead when its GET finds nothing, which the code takes for an expiry; a release by
a handler that was refused does it too, and then a third request claims the key as
well. Keys share nothing, so one is enough; three tries are what the violation
needs. Deadlock is not checked: a client told of its message asks no more.

Fairness: a handler that serves goes on and a worker that has or can take a task
does. The client need not ask again.

Proofs (`MessageSendsProofs`), for any keys, handlers, workers and bounds:
`Inductive`, `MessagesPerKey` and `TakesAreAccounted`. The invariant is two accounts.
`ClaimsAreAccounted`: messages plus the requests that may yet accept one never
exceed the claim that stands plus the expiries and unclaimed requests so far.
`HandlersOwn` says that the message a handler holds is of the key it serves.
`CallsAreAccounted`: what the channel took of a message, plus whoever may still make
it take it (its handler, its tasks in the queue, workers yet to call), plus one if it
reads failed, never exceed one plus the calls whose end nobody knows. Counting a
failed row with those who may still call is what makes both halves of
`TakenIsAccounted` one inequality. `TasksAreOfMessages`: no task is of a row that
does not exist.

## 10. KycCases

A customer's KYC case beside the reactivation case it belongs to, commanded by
several users (`services/vi_domain_service.py`).

| Variable | Code |
| --- | --- |
| `kyc` | `kyc_cases`: status, `row_version`, requester, checks ticked |
| `checklist[p]`, `document[d]` | the referenced documents, and whether each is verified |
| `stage` | `reactivation_cases.stage` |
| `decisions` | rows of `kyc_decisions`, in order |
| `request[r]` | a command let through and not yet committed, with the rows its transaction read |
| `lost` | history: commits that wrote over rows newer than those they had read |

`_check_version` compares in memory; no row is locked and no UPDATE names the
version. `Check` is therefore the read and every guard, and a commit action writes
the columns that differ from what was read. A command that is refused writes nothing
and is no step.

- `FourEyes`: requester, reviewer and approver are three users in every interleaving.
- `ApprovalIsBacked`, `DecidedStays`: an approval was made once, of a complete case,
  and stays with its checklist, as long as no commit overwrote newer rows (`lost = 0`).
  The proviso is the result: without it both fail.

Run `cases`: three users (the roles are three), two requests at once, one check, one
purpose, one document, three stages (one of them closed), versions to 4, at most one
overwriting commit, and a transaction overtaken by at most one commit (`OneBehind`),
all named constants. Two requests give every race of a pair. Version 4 leaves room
for preparation, review, approval and one command more.

Disagreements no run is spent on: docs/design/27 promises a 409 on stale input, and
a decided case can be set back by an update that read before the decision;
`_validate_reactivation_gate` is defined and never called, so any open stage leads
anywhere; and `VerificationPanel` sends its whole form, which erases an appointment
set elsewhere.

Proofs (`KycCasesProofs`), for any users, requests, documents, stages and bounds:
`Inductive`, `SeparationOfDuties`, `ApprovalsAreBacked` and `DecidedIsFinal`.
`FourEyes` is not inductive, for a decision is
judged when it is let through and written later; `DecisionsInFlight` says the same of
those on their way, and it survives because decisions are only appended and the
requester of a case never changes. For the other two, `LetThrough` says what every
request under way found in the rows it read (an open case; for an approval all
checks and a whole checklist) and `NotYetApproved` that a case that is not approved
has no approval on record: a commit that overwrites nothing newer commits on rows
that are still those, so what was found is still true.

## 11. What is proved, and what is only model-checked

Eight modules hold theorems, all checked by tlapm: `CampaignDispatchProofs`,
`WebhookPipelineProofs`, `ServerCacheProofs`, `RecordScreensProofs`,
`ConsoleSessionProofs`, `ConsolePagesProofs`, `MessageSendsProofs` and
`KycCasesProofs`. Every safety invariant and action property of the passing runs is
stated by one of them, for every value of the constants. They rest on

- the `ASSUME`s of the modules they extend, which TLC evaluates in the runs;
- `PromisesAreKept` of `ServerCache`, a premise of its theorems that `CallsInRange`
  (part of `IInv`) checks on the console's tables in `views`;
- the rules of `RecordScreens`, premises of its theorems that `ConsoleKeeps` proves of
  the console's tables, with the lists of exceptions `MCRecordScreens` gives;
- the rules of `ConsolePages`, premises of two of its theorems, which the run `pages`
  tries by following every link.

Each theorem comes from an inductive invariant, `IInv`, that TLC found to hold first:
within the runs `faults`, `webhook_faults`, `views`, `session`, `sends` and `cases`,
and on the instances of `screens` and `pages` beside the properties these check. Type
correctness is part of each.

Only model-checked: liveness (`StartedEnds`, `AckedIsRecorded`, `WritesReachTheScreen`,
`ToldIsTried`, `ClaimsAreSettled`, `EverythingSettles`, `NavigationSettles`), which is
out of the prover's reach, as is ENABLED; and the two statements the code does not
keep, `SentOnce` and `OneMessagePerKey`, of which TLC has the counterexamples.

## 12. Not modelled

- Campaign schedules: two ticks that read one due row, and a tick that dies after
  claiming a slot (`services/campaign_schedule_service.py:368`, `:396`).
- Rate gate: arithmetic over time; its outcomes are choices of the sends. Without
  Redis each process paces alone (`services/rate_gate.py:268`).
- Progress counters of a campaign (`campaign_dispatch_service.py:319`): written whole
  from a session's view, so two settles may lose a count until the next.
- Automation runs: a redelivered run interrupts attempts another worker still makes
  (`services/automation_runtime_service.py:262`).
- Job rows and replay of dead letters: a worker overwrites a cancellation
  (`services/job_service.py:136`), a replay sends before it commits (`:202`).
- Bulk jobs, imports and exports, media counts, task reminders: counts and notices of
  a re-run; each is one transaction or a scan over rows that do not interact.
- Eligibility, SIM orders, activation and SLA policies: state machines of the KYC
  case's form, without its separation of duties.
- Contacts, segments, tags, templates, users, roles, API keys, settings and audit on
  the server: single-transaction reads and writes. What the console offers and saves
  of them is in `RecordScreens`, and who sees the result in `ServerCache`.
- The console's lists, wizards, charts, recents, favourites, breadcrumbs and the
  browser's history: local state and rendering. The query string of a page asked for
  is lost at sign-in (`ConsolePages` keeps the path, as the code does).
- Channel adapters, HTTP and database plumbing, deployment: I/O and configuration.
