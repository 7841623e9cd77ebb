----------------------------- MODULE ServerCache -----------------------------
(***************************************************************************)
(* The browser's copy of the server's data: one React Query entry of the   *)
(* console, the requests that fill it, and the mutations whose success     *)
(* handlers declare it out of date.  Entries share nothing but the server, *)
(* so the state is that of one entry, `view', which Init picks from Views. *)
(*                                                                         *)
(* The library (@tanstack/react-query 5) is not part of the sources: its   *)
(* rules are modelled from the options and calls the console uses:         *)
(*   - a fetch is not started while one is under way;                      *)
(*   - invalidateQueries marks the entry and, when it is on screen, cancels *)
(*     the fetch under way (only if the entry has data) and starts another; *)
(*   - an answer clears the mark, whenever its request was sent;           *)
(*   - setQueryData replaces the data and cancels nothing;                 *)
(*   - leaving the screen does not stop a fetch.                           *)
(***************************************************************************)
EXTENDS Integers, FiniteSets, SequencesExt

CONSTANTS
  Views,       \* the entries: [key, reads, polls]
  Mutations,   \* the mutation hooks: [hook, writes, invalidates, sets]
  Lags,        \* [hooks, reads, key]: the writes it leaves to expire, stated by hand
  Writers,     \* mutation calls that can be under way at once
  MaxWrites,   \* bound on the server's committed writes
  MaxLosses    \* bound on requests or answers the network loses

ASSUME Bounds == MaxWrites \in Nat /\ MaxLosses \in Nat

NoData == -1

(* A key is covered by an invalidation of any of its prefixes. *)
Covers(m, q) == \E k \in m.invalidates : IsPrefix(k, q.key)
Sets(m, q)   == q.key \in m.sets
Touches(m, q) == m.writes \cap q.reads # {}
(* The console means to show the write: it is not one it leaves to expire.   *)
Promised(m, q) ==
  \E r \in m.writes \cap q.reads :
    ~ \E lag \in Lags : r \in lag.reads /\ IsPrefix(lag.key, q.key) /\ m.hook \in lag.hooks

(* What a call means for each entry it touches.                              *)
Effects ==
  [q \in Views |-> {[covers |-> Covers(m, q), sets |-> Sets(m, q), promised |-> Promised(m, q)] :
                     m \in {n \in Mutations : Touches(n, q)}}]
Settable == [q \in Views |-> \E m \in Mutations : Sets(m, q)]

VARIABLES
  view,    \* the entry observed
  server,  \* how many writes the server has committed to what it reads
  data,    \* the server state the entry holds, or NoData
  marked,  \* invalidated since it was filled
  old,     \* older than staleTime
  shown,   \* a mounted component observes it
  fetch,   \* [phase, at]: the request under way, and what it read
  call,    \* call[w]: a mutation under way
  due,     \* the newest promised write this client was told of
  losses,
  overtaken \* a success came while a fetch it could not cancel was under way

vars == <<view, server, data, marked, old, shown, fetch, call, due, losses, overtaken>>

Idle == [phase |-> "idle", at |-> NoData]
NoCall == [phase |-> "none", covers |-> FALSE, sets |-> FALSE, promised |-> FALSE, at |-> NoData]

FetchType == [phase : {"idle", "sent"}, at : {NoData}] \cup [phase : {"read"}, at : 0..MaxWrites]
CallType == [phase : {"none", "sent", "written"}, covers : BOOLEAN, sets : BOOLEAN,
             promised : BOOLEAN, at : -1..MaxWrites]

TypeOK ==
  /\ view \in Views
  /\ server \in 0..MaxWrites
  /\ data \in -1..MaxWrites
  /\ marked \in BOOLEAN /\ old \in BOOLEAN /\ shown \in BOOLEAN
  /\ fetch \in FetchType
  /\ call \in [Writers -> CallType]
  /\ due \in 0..MaxWrites
  /\ losses \in 0..MaxLosses
  /\ overtaken \in BOOLEAN

Init ==
  /\ view \in Views
  /\ server = 0 /\ data = NoData
  /\ marked = FALSE /\ old = FALSE /\ shown = FALSE
  /\ fetch = Idle
  /\ call = [w \in Writers |-> NoCall]
  /\ due = 0 /\ losses = 0 /\ overtaken = FALSE

Ask == fetch' = [phase |-> "sent", at |-> NoData]

(* A component mounts: it fetches when there is no data, or it is marked or  *)
(* older than staleTime; a fetch under way is joined.                        *)
Mount ==
  /\ ~shown
  /\ shown' = TRUE
  /\ IF fetch.phase = "idle" /\ (data = NoData \/ marked \/ old)
     THEN Ask ELSE UNCHANGED fetch
  /\ UNCHANGED <<view, server, data, marked, old, call, due, losses, overtaken>>

Unmount ==
  /\ shown
  /\ shown' = FALSE
  /\ UNCHANGED <<view, server, data, marked, old, fetch, call, due, losses, overtaken>>

(* staleTime passes.  Nothing refetches by itself: refetchOnWindowFocus is   *)
(* off, so an entry that stays on screen is only fetched again by its poll.  *)
GrowOld ==
  /\ data # NoData /\ ~old
  /\ old' = TRUE
  /\ UNCHANGED <<view, server, data, marked, shown, fetch, call, due, losses, overtaken>>

Poll ==
  /\ view.polls # "never" /\ shown /\ fetch.phase = "idle"
  /\ Ask
  /\ UNCHANGED <<view, server, data, marked, old, shown, call, due, losses, overtaken>>

(* The server answers with what is committed now. *)
ServerReads ==
  /\ fetch.phase = "sent"
  /\ fetch' = [phase |-> "read", at |-> server]
  /\ UNCHANGED <<view, server, data, marked, old, shown, call, due, losses, overtaken>>

Receive ==
  /\ fetch.phase = "read"
  /\ data' = fetch.at
  /\ marked' = FALSE /\ old' = FALSE
  /\ fetch' = Idle
  /\ overtaken' = (overtaken /\ fetch.at < due)
  /\ UNCHANGED <<view, server, shown, call, due, losses>>

(* The request fails, its one retry included.  Whether a failed background   *)
(* fetch marks the entry differs between releases of the library.            *)
FetchFails ==
  /\ fetch.phase # "idle" /\ losses < MaxLosses
  /\ losses' = losses + 1
  /\ fetch' = Idle
  /\ marked' \in {marked, TRUE}
  /\ UNCHANGED <<view, server, data, old, shown, call, due, overtaken>>

(* A component calls mutate: only mutations that write what the view reads   *)
(* are of interest here.                                                     *)
Submit(w) ==
  /\ call[w].phase = "none" /\ server < MaxWrites
  /\ \E e \in Effects[view] :
       call' = [call EXCEPT ![w] = [phase |-> "sent", covers |-> e.covers, sets |-> e.sets,
                                    promised |-> e.promised, at |-> NoData]]
  /\ UNCHANGED <<view, server, data, marked, old, shown, fetch, due, losses, overtaken>>

ServerWrites(w) ==
  /\ call[w].phase = "sent" /\ server < MaxWrites
  /\ server' = server + 1
  /\ call' = [call EXCEPT ![w].phase = "written", ![w].at = server + 1]
  /\ UNCHANGED <<view, data, marked, old, shown, fetch, due, losses, overtaken>>

(* mutations: { retry: 0 }: a refused or lost call is over, and there is no  *)
(* onError that invalidates; the write may have been committed.              *)
CallFails(w) ==
  /\ call[w].phase # "none" /\ losses < MaxLosses
  /\ losses' = losses + 1
  /\ call' = [call EXCEPT ![w] = NoCall]
  /\ UNCHANGED <<view, server, data, marked, old, shown, fetch, due, overtaken>>

(* Mutant: every success fills the entry from its answer. *)
Filled_FromAny(c) == IF c.covers THEN c.at ELSE data

(* What the entry holds once onSuccess has run its setQueryData.             *)
Filled(c) == IF c.sets THEN c.at ELSE data

(* Mutant: the entry is marked, and fetched only when it is next needed. *)
Refetches_Lazily(c) == c.covers /\ shown /\ fetch.phase # "idle" /\ Filled(c) # NoData

(* invalidateQueries refetches what is on screen.                            *)
Refetches(c) == c.covers /\ shown /\ (fetch.phase = "idle" \/ Filled(c) # NoData)

(* onSuccess of the hook: setQueryData, then the invalidations.              *)
Succeed(w) ==
  /\ call[w].phase = "written"
  /\ call' = [call EXCEPT ![w] = NoCall]
  /\ LET c == call[w]
     IN  /\ data' = Filled(c)
         /\ old' = (old /\ ~c.sets)
         /\ marked' = (c.covers \/ (marked /\ ~c.sets))
         /\ IF Refetches(c) THEN Ask ELSE UNCHANGED fetch
         /\ due' = IF c.promised /\ c.at > due THEN c.at ELSE due
         /\ overtaken' = \/ overtaken
                         \/ (c.covers \/ c.sets) /\ fetch.phase # "idle" /\ ~Refetches(c)
                         \/ c.sets /\ ~c.covers /\ c.at < due
  /\ UNCHANGED <<view, server, shown, losses>>

Next ==
  \/ Mount \/ Unmount \/ GrowOld \/ Poll
  \/ ServerReads \/ Receive \/ FetchFails
  \/ \E w \in Writers : Submit(w) \/ ServerWrites(w) \/ CallFails(w) \/ Succeed(w)

(* The server answers what reaches it, and an interval the hook sets without *)
(* condition fires while the component is on screen.                         *)
Fairness ==
  /\ WF_vars(ServerReads) /\ WF_vars(Receive)
  /\ WF_vars(Poll /\ view.polls = "always")

Spec == Init /\ [][Next]_vars
FairSpec == Spec /\ Fairness

-----------------------------------------------------------------------------
(* A view on screen that is neither marked nor being fetched holds every      *)
(* write its user was told of and that the console promises to show: a        *)
(* success handler that forgets a key breaks it.  The exception is a success  *)
(* that found a fetch it could not cancel (the entry's first load, or one     *)
(* begun before its component left the screen).                               *)
ReadYourWrites ==
  (shown /\ data # NoData /\ fetch.phase = "idle" /\ ~marked /\ ~overtaken)
     => data >= due

(* Why it holds: a fetch under way was sent after every write announced so    *)
(* far, and data that lacks one is marked.  What the entry holds, and what a  *)
(* request brings, is a state the server was in; only setQueryData can put an *)
(* entry ahead of the request that fills it next.                             *)
AnswersCarryTheWrites ==
  ~overtaken =>
    /\ fetch.phase = "read" => fetch.at >= due
    /\ (data # NoData /\ data < due) => marked

(* Every promised write is covered by an invalidation or filled: the fact     *)
(* about the tables that the theorem of ReadYourWrites rests on.              *)
PromisesAreKept ==
  \A q \in Views : \A e \in Effects[q] : e.promised => (e.covers \/ e.sets)

CallsInRange ==
  \A w \in Writers :
    /\ call[w].at <= server
    /\ call[w].phase = "written" => call[w].at >= 1
    /\ call[w].promised => (call[w].covers \/ call[w].sets)
    /\ call[w].sets => Settable[view]

AnswersMoveForward ==
  /\ data <= server /\ due <= server /\ fetch.at <= server
  /\ (fetch.phase = "read" /\ ~Settable[view]) => fetch.at >= data

IInv == TypeOK /\ CallsInRange /\ AnswersCarryTheWrites /\ AnswersMoveForward

(* A view on screen shows every promised write in the end: one that polls     *)
(* whatever was lost or overtaken, another when no request is lost and none   *)
(* was overtaken.                                                             *)
WritesReachTheScreen ==
  (shown /\ data < due) ~>
     \/ data >= due \/ ~shown
     \/ view.polls # "always" /\ (overtaken \/ losses > 0)

(* The abstraction: a copy of the server that only moves forward, unless      *)
(* setQueryData can fill the entry.                                           *)
Copy == INSTANCE ForwardCopy WITH
  settable <- Settable[view]
CopyMovesForward == Copy!Spec
==============================================================================
