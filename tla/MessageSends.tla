----------------------------- MODULE MessageSends -----------------------------
(***************************************************************************)
(* A single send (POST /messages/send, POST /messages/{id}/reaction) from   *)
(* the client that asks for it, under an Idempotency-Key, to the channel    *)
(* that takes it: endpoints/messages.py, core/idempotency.py,               *)
(* send_service.py and the send_message task.                               *)
(*                                                                         *)
(* A handler claims the key in Redis, accepts the message in MySQL, records *)
(* the answer under the key and enqueues the task: four stores, no          *)
(* transaction over them.  A client that hears nothing asks again with the  *)
(* same key while the first request may still run.                          *)
(***************************************************************************)
EXTENDS Integers, FiniteSets

CONSTANTS
  Sends,        \* what clients mean to send, each under a key of its own
  Handlers,     \* requests served at once
  Workers,      \* send tasks run at once
  None,         \* no message, no handler
  Free,         \* a key Redis does not hold
  InFlight,     \* a key claimed and not answered yet
  Refused,      \* the answer of a request that failed
  MaxMessages,  \* bound on the message rows
  MaxTries,     \* bound on the requests made for one send
  MaxAttempts,  \* runs of a task before its failure is final
  MaxLapses,    \* bound on expiries of one key
  MaxFaults     \* bound on crashes, lost answers and redeliveries

ASSUME Bounds ==
  /\ MaxMessages \in Nat /\ MaxTries \in Nat /\ MaxAttempts \in Nat \ {0}
  /\ MaxLapses \in Nat /\ MaxFaults \in Nat

ASSUME Distinct ==
  /\ IsFiniteSet(Handlers) /\ IsFiniteSet(Workers)
  /\ None \notin Handlers \cup Sends \cup {Free, InFlight, Refused} \cup Nat
  /\ Free # InFlight /\ {Free, InFlight, Refused} \cap Nat = {}

Ids == 1..MaxMessages

VARIABLES
  entry,     \* entry[k]: what Redis holds under the key
  client,    \* client[k]: [tries, awaits, told]
  handler,   \* handler[h]: [phase, of, id]
  message,   \* message[i]: the row, or NoMessage
  queue,     \* the send tasks queued: <<id, tries>>
  job,       \* job[w]: [phase, id, tries]
  lapses,    \* lapses[k]: expiries of the key so far
  unclaimed, \* unclaimed[k]: requests let through with no claim of theirs
  taken,     \* taken[i]: times the channel took the message
  unsure,    \* unsure[i]: calls nobody knows the end of, and second deliveries
  orphans,   \* messages whose handler died before it enqueued them
  faults

requests == <<entry, client, handler, lapses, unclaimed, orphans>>
delivery == <<queue, job, taken, unsure>>
vars == <<entry, client, handler, message, queue, job, lapses, unclaimed, taken, unsure,
          orphans, faults>>

NoMessage == [of |-> None, status |-> "none", wamid |-> FALSE]
IdleHandler == [phase |-> "idle", of |-> None, id |-> None]
IdleJob == [phase |-> "idle", id |-> None, tries |-> 0]

HandlerType ==
  [phase : {"begin", "look", "serve"}, of : Sends, id : {None}]
    \cup [phase : {"record", "enqueue"}, of : Sends, id : Ids] \cup {IdleHandler}
MessageType ==
  [of : Sends \cup {None}, status : {"none", "accepted", "failed"}, wamid : BOOLEAN]
JobType ==
  [phase : {"loaded", "called", "failing"}, id : Ids, tries : 0..MaxAttempts - 1] \cup {IdleJob}

TypeOK ==
  /\ entry \in [Sends -> {Free, InFlight} \cup Ids]
  /\ client \in [Sends -> [tries : 0..MaxTries, awaits : Handlers \cup {None},
                           told : Ids \cup {None, Refused}]]
  /\ handler \in [Handlers -> HandlerType]
  /\ message \in [Ids -> MessageType]
  /\ queue \subseteq (Ids \X (0..MaxAttempts - 1))
  /\ job \in [Workers -> JobType]
  /\ lapses \in [Sends -> 0..MaxLapses]
  /\ unclaimed \in [Sends -> Nat]
  /\ taken \in [Ids -> Nat] /\ unsure \in [Ids -> Nat]
  /\ orphans \subseteq Ids
  /\ faults \in 0..MaxFaults

Init ==
  /\ entry = [k \in Sends |-> Free]
  /\ client = [k \in Sends |-> [tries |-> 0, awaits |-> None, told |-> None]]
  /\ handler = [h \in Handlers |-> IdleHandler]
  /\ message = [i \in Ids |-> NoMessage]
  /\ queue = {} /\ job = [w \in Workers |-> IdleJob]
  /\ lapses = [k \in Sends |-> 0] /\ unclaimed = [k \in Sends |-> 0]
  /\ taken = [i \in Ids |-> 0] /\ unsure = [i \in Ids |-> 0]
  /\ orphans = {} /\ faults = 0

Fault == faults < MaxFaults /\ faults' = faults + 1

-----------------------------------------------------------------------------
(* The client.  It asks until it is told of a message.                       *)
Ask(k) ==
  /\ client[k].awaits = None /\ client[k].told \notin Ids /\ client[k].tries < MaxTries
  /\ \E h \in Handlers :
       /\ handler[h] = IdleHandler
       /\ handler' = [handler EXCEPT ![h] = [phase |-> "begin", of |-> k, id |-> None]]
       /\ client' = [client EXCEPT ![k].awaits = h, ![k].tries = @ + 1]
  /\ UNCHANGED <<entry, message, delivery, lapses, unclaimed, orphans, faults>>

(* It stops waiting; the handler does not notice.                            *)
TimeOut(k) ==
  /\ client[k].awaits # None
  /\ client' = [client EXCEPT ![k].awaits = None]
  /\ UNCHANGED <<entry, handler, message, delivery, lapses, unclaimed, orphans, faults>>

(* The handler's answer reaches whoever still waits for it.                  *)
Heard(h, answer) ==
  [k \in Sends |->
     IF client[k].awaits = h THEN [client[k] EXCEPT !.awaits = None, !.told = answer]
     ELSE client[k]]
Answer(h, answer) ==
  /\ client' = Heard(h, answer)
  /\ handler' = [handler EXCEPT ![h] = IdleHandler]
Goes(h, phase, id) ==
  handler' = [handler EXCEPT ![h].phase = phase, ![h].id = id]

-----------------------------------------------------------------------------
(* Mutant: SET without NX, for a key that holds no answer. *)
Claim_Overwrites(h) ==
  LET k == handler[h].of
  IN  /\ handler[h].phase = "begin"
      /\ IF entry[k] \in {Free, InFlight}
         THEN entry' = [entry EXCEPT ![k] = InFlight] /\ Goes(h, "serve", None)
         ELSE UNCHANGED entry /\ Goes(h, "look", None)
      /\ UNCHANGED <<client, message, delivery, lapses, unclaimed, orphans, faults>>

(* begin: SET NX.  The claim is a constant: it does not say whose it is.     *)
Claim(h) ==
  LET k == handler[h].of
  IN  /\ handler[h].phase = "begin"
      /\ IF entry[k] = Free
         THEN entry' = [entry EXCEPT ![k] = InFlight] /\ Goes(h, "serve", None)
         ELSE UNCHANGED entry /\ Goes(h, "look", None)
      /\ UNCHANGED <<client, message, delivery, lapses, unclaimed, orphans, faults>>

(* Mutant: a replay goes on to the task. *)
Look_Enqueues(h) ==
  LET k == handler[h].of
  IN  /\ handler[h].phase = "look"
      /\ CASE entry[k] = Free -> /\ Goes(h, "serve", None)
                                 /\ unclaimed' = [unclaimed EXCEPT ![k] = @ + 1]
                                 /\ UNCHANGED client
           [] entry[k] = InFlight -> Answer(h, None) /\ UNCHANGED unclaimed
           [] OTHER -> Goes(h, "enqueue", entry[k]) /\ UNCHANGED <<client, unclaimed>>
      /\ UNCHANGED <<entry, message, delivery, lapses, orphans, faults>>

(* begin: the GET after a SET that found the key taken.  A stored answer is  *)
(* replayed, a claim is a conflict, and nothing at all is gone ahead with.   *)
Look(h) ==
  LET k == handler[h].of
  IN  /\ handler[h].phase = "look"
      /\ CASE entry[k] = Free -> /\ Goes(h, "serve", None)
                                 /\ unclaimed' = [unclaimed EXCEPT ![k] = @ + 1]
                                 /\ UNCHANGED client
           [] entry[k] = InFlight -> Answer(h, None) /\ UNCHANGED unclaimed
           [] OTHER -> Answer(h, entry[k]) /\ UNCHANGED unclaimed
      /\ UNCHANGED <<entry, message, delivery, lapses, orphans, faults>>

(* Redis does not answer: 503, and nothing is claimed that is known of.      *)
Unavailable(h) ==
  /\ handler[h].phase \in {"begin", "look"}
  /\ Fault /\ Answer(h, None)
  /\ UNCHANGED <<entry, message, delivery, lapses, unclaimed, orphans>>

(* Mutant: the claim is left to its time-to-live. *)
Refuse_Keeps(h) ==
  LET k == handler[h].of
  IN  /\ handler[h].phase = "serve"
      /\ Answer(h, Refused)
      /\ UNCHANGED <<entry, message, delivery, lapses, unclaimed, orphans, faults>>

(* The service raises, for a reason of the request's or of the moment's, and *)
(* the key is deleted, whoever holds it by now.                              *)
Refuse(h) ==
  LET k == handler[h].of
  IN  /\ handler[h].phase = "serve"
      /\ Answer(h, Refused)
      /\ entry' = [entry EXCEPT ![k] = Free]
      /\ UNCHANGED <<message, delivery, lapses, unclaimed, orphans, faults>>

(* accept (react resolves its target and calls it): the message is committed. *)
Accept(h) ==
  /\ handler[h].phase = "serve"
  /\ \E i \in Ids :
       /\ message[i] = NoMessage /\ \A j \in Ids : j < i => message[j] # NoMessage
       /\ message' = [message EXCEPT
            ![i] = [of |-> handler[h].of, status |-> "accepted", wamid |-> FALSE]]
       /\ Goes(h, "record", i)
  /\ UNCHANGED <<entry, client, delivery, lapses, unclaimed, orphans, faults>>

(* complete: the answer is stored, over whatever the key holds.              *)
Complete(h) ==
  /\ handler[h].phase = "record"
  /\ entry' = [entry EXCEPT ![handler[h].of] = handler[h].id]
  /\ Goes(h, "enqueue", handler[h].id)
  /\ UNCHANGED <<client, message, delivery, lapses, unclaimed, orphans, faults>>

(* A failure of Redis is logged, and the request goes on.                    *)
CompleteFails(h) ==
  /\ handler[h].phase = "record" /\ Fault
  /\ Goes(h, "enqueue", handler[h].id)
  /\ UNCHANGED <<entry, client, message, delivery, lapses, unclaimed, orphans>>

(* send_task.apply_async, and 202.                                           *)
Enqueue(h) ==
  /\ handler[h].phase = "enqueue"
  /\ queue' = queue \cup {<<handler[h].id, 0>>}
  /\ Answer(h, handler[h].id)
  /\ UNCHANGED <<entry, message, job, taken, unsure, lapses, unclaimed, orphans, faults>>

(* The process dies, or raises where nothing is caught: no answer.           *)
HandlerDies(h) ==
  /\ handler[h] # IdleHandler /\ Fault
  /\ Answer(h, None)
  /\ orphans' = orphans \cup ({handler[h].id} \ {None})
  /\ UNCHANGED <<entry, message, delivery, lapses, unclaimed>>

(* The key's time-to-live passes.                                            *)
Lapse(k) ==
  /\ entry[k] # Free /\ lapses[k] < MaxLapses
  /\ entry' = [entry EXCEPT ![k] = Free]
  /\ lapses' = [lapses EXCEPT ![k] = @ + 1]
  /\ UNCHANGED <<client, handler, message, delivery, unclaimed, orphans, faults>>

-----------------------------------------------------------------------------
(* deliver, up to the rate gate: a message that has a wamid or has failed is *)
(* done with.                                                                *)
Take(w) ==
  /\ job[w] = IdleJob
  /\ \E t \in queue :
       /\ queue' = queue \ {t}
       /\ job' = IF message[t[1]].wamid \/ message[t[1]].status = "failed" THEN job
                 ELSE [job EXCEPT ![w] = [phase |-> "loaded", id |-> t[1], tries |-> t[2]]]
  /\ UNCHANGED <<requests, message, taken, unsure, faults>>

(* smart_retry while runs are left; after that the message fails.            *)
Again(w) ==
  IF job[w].tries + 1 < MaxAttempts
  THEN /\ queue' = queue \cup {<<job[w].id, job[w].tries + 1>>}
       /\ job' = [job EXCEPT ![w] = IdleJob]
  ELSE /\ job' = [job EXCEPT ![w].phase = "failing"]
       /\ UNCHANGED queue

(* Throttled by the gate, or a retryable error before the channel took it.   *)
NotTaken(w) ==
  /\ job[w].phase = "loaded"
  /\ Again(w)
  /\ UNCHANGED <<requests, message, taken, unsure, faults>>

(* A paused number, or an error the channel says is final.                   *)
Terminal(w) ==
  /\ job[w].phase = "loaded"
  /\ job' = [job EXCEPT ![w].phase = "failing"]
  /\ UNCHANGED <<requests, message, queue, taken, unsure, faults>>

Call(w) ==
  /\ job[w].phase = "loaded"
  /\ taken' = [taken EXCEPT ![job[w].id] = @ + 1]
  /\ job' = [job EXCEPT ![w].phase = "called"]
  /\ UNCHANGED <<requests, message, queue, unsure, faults>>

(* The channel took it and its answer timed out, or the commit of the wamid  *)
(* failed: an error like another.                                            *)
AnswerLost(w) ==
  /\ job[w].phase = "called" /\ Fault
  /\ Again(w)
  /\ unsure' = [unsure EXCEPT ![job[w].id] = @ + 1]
  /\ UNCHANGED <<requests, message, taken>>

Commit(w) ==
  /\ job[w].phase = "called"
  /\ message' = [message EXCEPT ![job[w].id].wamid = TRUE]
  /\ job' = [job EXCEPT ![w] = IdleJob]
  /\ UNCHANGED <<requests, queue, taken, unsure, faults>>

(* Mutant: a failure that is final leaves the message as it was. *)
Fail_Unrecorded(w) ==
  /\ job[w].phase = "failing"
  /\ job' = [job EXCEPT ![w] = IdleJob]
  /\ UNCHANGED <<requests, message, queue, taken, unsure, faults>>

(* fail: whatever the row says by now.                                       *)
Fail(w) ==
  /\ job[w].phase = "failing"
  /\ message' = [message EXCEPT ![job[w].id].status = "failed"]
  /\ job' = [job EXCEPT ![w] = IdleJob]
  /\ UNCHANGED <<requests, queue, taken, unsure, faults>>

(* acks_late: the task of a dead worker, or one that ran too long, is        *)
(* delivered again.                                                          *)
WorkerDies(w) ==
  /\ job[w] # IdleJob /\ Fault
  /\ queue' = queue \cup {<<job[w].id, job[w].tries>>}
  /\ unsure' = [unsure EXCEPT ![job[w].id] = @ + 1]
  /\ job' = [job EXCEPT ![w] = IdleJob]
  /\ UNCHANGED <<requests, message, taken>>

Redeliver(w) ==
  /\ job[w] # IdleJob /\ Fault
  /\ queue' = queue \cup {<<job[w].id, job[w].tries>>}
  /\ unsure' = [unsure EXCEPT ![job[w].id] = @ + 1]
  /\ UNCHANGED <<requests, message, job, taken>>

Serve(h) ==
  Claim(h) \/ Look(h) \/ Refuse(h) \/ Accept(h) \/ Complete(h) \/ CompleteFails(h) \/ Enqueue(h)
Run(w) == Take(w) \/ NotTaken(w) \/ Terminal(w) \/ Call(w) \/ AnswerLost(w) \/ Commit(w) \/ Fail(w)

Next ==
  \/ \E k \in Sends : Ask(k) \/ TimeOut(k) \/ Lapse(k)
  \/ \E h \in Handlers : Serve(h) \/ Unavailable(h) \/ HandlerDies(h)
  \/ \E w \in Workers : Run(w) \/ WorkerDies(w) \/ Redeliver(w)

Spec == Init /\ [][Next]_vars

(* A request that is served and a task that is run are gone on with, and     *)
(* some worker takes what is queued.                                         *)
FairSpec ==
  /\ Spec
  /\ \A h \in Handlers : WF_vars(Serve(h))
  /\ \A w \in Workers : WF_vars(Run(w))

-----------------------------------------------------------------------------
Of(k) == {i \in Ids : message[i].of = k}
Serving(k) == {h \in Handlers : handler[h].phase = "serve" /\ handler[h].of = k}
Held(k) == IF entry[k] = Free THEN 0 ELSE 1

(* "a client that retries after a timeout must not cause a second WhatsApp   *)
(* message" (core/idempotency.py).                                           *)
OneMessagePerKey == \A k \in Sends : Cardinality(Of(k)) <= 1

(* What holds of it: a second message has a cause, an expiry of the key or a *)
(* request that found the key gone between its SET and its GET.              *)
MessagesAreAccounted ==
  \A k \in Sends : Cardinality(Of(k)) <= 1 + lapses[k] + unclaimed[k]

(* Why: messages and requests that may yet accept one are covered by the     *)
(* claim that stands and by the causes so far.                               *)
ClaimsAreAccounted ==
  \A k \in Sends :
    Cardinality(Of(k)) + Cardinality(Serving(k)) <= Held(k) + lapses[k] + unclaimed[k]

(* The messages of the handlers are theirs.                                  *)
HandlersOwn ==
  \A h \in Handlers : handler[h].id # None => message[handler[h].id].of = handler[h].of

Claimed == TypeOK /\ ClaimsAreAccounted /\ HandlersOwn

(* The channel takes a message once, but for calls whose end nobody knows    *)
(* and second deliveries of its task; and what reads failed was then never   *)
(* taken.                                                                    *)
TakenIsAccounted ==
  \A i \in Ids :
    /\ taken[i] <= 1 + unsure[i]
    /\ message[i].status = "failed" /\ unsure[i] = 0 => taken[i] = 0

(* Why: a message is with its handler, in the queue or with a worker that     *)
(* has yet to call or to fail it, and is so once more for each thing nobody   *)
(* knows the end of; a task under way is of a message.                        *)
Making(i) == {h \in Handlers : handler[h].id = i}
Queued(i) == {t \in queue : t[1] = i}
Running(i) == {w \in Workers : job[w].id = i /\ job[w].phase # "called"}
Over(i) == IF message[i].status = "failed" THEN 1 ELSE 0
Chances(i) ==
  Cardinality(Making(i)) + Cardinality(Queued(i)) + Cardinality(Running(i)) + Over(i)

CallsAreAccounted ==
  \A i \in Ids : taken[i] + Chances(i) <= IF message[i] = NoMessage THEN 0 ELSE 1 + unsure[i]

TasksAreOfMessages == \A w \in Workers : job[w] # IdleJob => message[job[w].id] # NoMessage

IInv == Claimed /\ CallsAreAccounted /\ TasksAreOfMessages

(* A client that was told of its message, first or by a replay, is not told  *)
(* in vain: the channel takes it or it reads failed, unless the handler that *)
(* stored the answer died before it enqueued the task.                       *)
ToldIsTried ==
  \A k \in Sends : \A i \in Ids :
    client[k].told = i ~> (taken[i] > 0 \/ message[i].status = "failed" \/ i \in orphans)

(* A key is not held by nobody: a request that claimed it answers, gives it  *)
(* back or dies.                                                             *)
ClaimsAreSettled ==
  \A k \in Sends : entry[k] = InFlight ~> (entry[k] # InFlight \/ faults > 0)
=============================================================================
