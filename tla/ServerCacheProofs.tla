-------------------------- MODULE ServerCacheProofs --------------------------
(***************************************************************************)
(* Theorems about ServerCache for every set of entries and hooks.           *)
(*                                                                         *)
(* ReadYourWrites is not inductive: that a view which is not marked holds   *)
(* every announced write needs the same of the answer on its way            *)
(* (AnswersCarryTheWrites), and that a call under way which was promised is *)
(* covered (CallsInRange), which PromisesAreKept says of the tables.        *)
(***************************************************************************)
EXTENDS ServerCache, TLAPS

EffectType == [covers : BOOLEAN, sets : BOOLEAN, promised : BOOLEAN]

(* What the tables say of a hook and an entry is three truth values. *)
LEMMA EffectsTyped == \A q \in Views : \A e \in Effects[q] : e \in EffectType /\ (e.sets => Settable[q])
  <1> SUFFICES ASSUME NEW q \in Views, NEW e \in Effects[q] PROVE e \in EffectType /\ (e.sets => Settable[q])
    OBVIOUS
  <1>1. PICK m \in {n \in Mutations : Touches(n, q)} :
          e = [covers |-> Covers(m, q), sets |-> Sets(m, q), promised |-> Promised(m, q)]
    BY DEF Effects
  <1>2. Covers(m, q) \in BOOLEAN /\ Sets(m, q) \in BOOLEAN /\ Promised(m, q) \in BOOLEAN
    BY DEF Covers, Sets, Promised
  <1>3. Settable[q] = (\E n \in Mutations : Sets(n, q))
    BY DEF Settable
  <1> QED BY <1>1, <1>2, <1>3 DEF EffectType

USE DEF NoData

(* What a request may be, state by state. *)
LEMMA FetchTyped ==
  /\ Idle \in FetchType
  /\ [phase |-> "sent", at |-> NoData] \in FetchType
  /\ \A f \in FetchType :
       /\ f.phase \in {"idle", "sent", "read"}
       /\ f.at \in -1..MaxWrites
       /\ f.phase = "read" => f.at \in 0..MaxWrites
  /\ \A n \in 0..MaxWrites : [phase |-> "read", at |-> n] \in FetchType
  BY Bounds DEF FetchType, Idle

LEMMA InitIInv == Init => IInv
  <1> SUFFICES ASSUME Init PROVE IInv
    OBVIOUS
  <1>1. call \in [Writers -> CallType]
    BY Bounds DEF Init, CallType, NoCall
  <1>2. fetch \in FetchType
    BY FetchTyped DEF Init
  <1>3. TypeOK
    <2>1. /\ server \in 0..MaxWrites /\ data \in -1..MaxWrites /\ due \in 0..MaxWrites
          /\ losses \in 0..MaxLosses
      BY Bounds DEF Init
    <2>2. view \in Views /\ marked \in BOOLEAN /\ old \in BOOLEAN /\ shown \in BOOLEAN /\ overtaken \in BOOLEAN
      BY DEF Init
    <2> QED BY <1>1, <1>2, <2>1, <2>2 DEF TypeOK
  <1> QED BY <1>3, Bounds DEF Init, IInv, CallsInRange, AnswersCarryTheWrites, AnswersMoveForward, Idle, NoCall

(* A success, the step in which the entry's data, its mark and the request    *)
(* under way all change together. *)
LEMMA SucceedIInv ==
  ASSUME IInv, NEW w \in Writers, Succeed(w)
  PROVE  IInv'
  <1> DEFINE c == call[w]
  <1>0. /\ MaxWrites \in Nat /\ server \in Int /\ data \in Int /\ due \in Int /\ fetch.at \in Int
    BY Bounds, FetchTyped DEF IInv, TypeOK
  <1>1. /\ c \in CallType /\ c.phase = "written" /\ c.at \in 1..server /\ c.at \in Int
        /\ c.promised => (c.covers \/ c.sets)
        /\ c.sets => Settable[view]
    BY Bounds DEF IInv, TypeOK, CallType, CallsInRange, Succeed
  <1>2. call' = [call EXCEPT ![w] = NoCall] /\ UNCHANGED <<view, server, shown, losses>>
    BY DEF Succeed
  <1>3. data' = (IF c.sets THEN c.at ELSE data)
    BY DEF Succeed, Filled
  <1>4. TypeOK'
    <2>1. call' \in [Writers -> CallType]
      BY <1>2, Bounds DEF IInv, TypeOK, CallType, NoCall
    <2>2. data' \in -1..MaxWrites /\ due' \in 0..MaxWrites
      BY <1>0, <1>1, <1>3 DEF Succeed, IInv, TypeOK
    <2>3. marked' \in BOOLEAN /\ old' \in BOOLEAN /\ overtaken' \in BOOLEAN
      BY <1>1 DEF Succeed, IInv, TypeOK, CallType, Refetches
    <2>4. fetch' \in FetchType
      BY FetchTyped DEF Succeed, IInv, TypeOK, Ask
    <2> QED BY <1>2, <2>1, <2>2, <2>3, <2>4 DEF IInv, TypeOK
  <1>5. CallsInRange'
    BY <1>0, <1>2 DEF IInv, TypeOK, CallsInRange, NoCall
  <1>6. AnswersMoveForward'
    <2>1. data' <= server' /\ due' <= server' /\ fetch'.at <= server'
      BY <1>0, <1>1, <1>2, <1>3 DEF Succeed, IInv, AnswersMoveForward, TypeOK, Ask
    <2>2. ASSUME fetch'.phase = "read", ~Settable[view'] PROVE fetch'.at >= data'
      <3>1. fetch' = fetch
        BY <2>2 DEF Succeed, Ask
      <3>2. ~Settable[view] /\ ~c.sets
        BY <1>1, <1>2, <2>2
      <3>3. data' = data
        BY <1>3, <3>2
      <3> QED BY <2>2, <3>1, <3>2, <3>3 DEF IInv, AnswersMoveForward
    <2> QED BY <2>1, <2>2 DEF AnswersMoveForward
  <1>7. AnswersCarryTheWrites'
    <2> SUFFICES ASSUME ~overtaken'
                 PROVE  /\ fetch'.phase = "read" => fetch'.at >= due'
                        /\ (data' # NoData /\ data' < due') => marked'
      BY DEF AnswersCarryTheWrites
    <2>1. /\ ~overtaken
          /\ (c.covers \/ c.sets) => (fetch.phase = "idle" \/ Refetches(c))
          /\ (c.sets /\ ~c.covers) => ~(c.at < due)
      BY DEF Succeed
    <2>2. /\ fetch.phase = "read" => fetch.at >= due
          /\ (data # NoData /\ data < due) => marked
      BY <2>1 DEF IInv, AnswersCarryTheWrites
    <2>3. due' = IF c.promised /\ c.at > due THEN c.at ELSE due
      BY DEF Succeed
    <2>4. marked' = (c.covers \/ (marked /\ ~c.sets))
      BY DEF Succeed
    <2>5. fetch' = IF Refetches(c) THEN [phase |-> "sent", at |-> NoData] ELSE fetch
      BY DEF Succeed, Ask
    <2>6. fetch'.phase = "read" => fetch'.at >= due'
      <3> SUFFICES ASSUME fetch'.phase = "read" PROVE fetch'.at >= due'
        OBVIOUS
      <3>1. ~Refetches(c) /\ fetch' = fetch
        BY <2>5
      <3>2. ~(c.covers \/ c.sets)
        BY <2>1, <3>1
      <3>3. due' = due
        BY <1>1, <2>3, <3>2
      <3> QED BY <2>2, <3>1, <3>3
    <2>7. (data' # NoData /\ data' < due') => marked'
      <3>1. CASE c.covers
        BY <3>1, <2>4
      <3>2. CASE ~c.covers /\ c.sets
        BY <3>2, <1>0, <1>1, <1>3, <2>1, <2>3
      <3>3. CASE ~c.covers /\ ~c.sets
        BY <3>3, <1>1, <1>3, <2>2, <2>3, <2>4
      <3> QED BY <1>1, <3>1, <3>2, <3>3
    <2> QED BY <2>6, <2>7
  <1> QED BY <1>4, <1>5, <1>6, <1>7 DEF IInv

(* Every other step leaves the calls' effects alone and changes one thing. *)
LEMMA NextIInv ==
  ASSUME PromisesAreKept, IInv, [Next]_vars
  PROVE  IInv'
  <1> USE Bounds
  <1>1. CASE UNCHANGED vars
    BY <1>1 DEF vars, IInv, TypeOK, CallsInRange, AnswersCarryTheWrites, AnswersMoveForward
  <1>0. fetch \in FetchType
    BY DEF IInv, TypeOK
  <1>2. CASE Mount \/ Unmount \/ GrowOld \/ Poll
    <2>1. fetch' \in FetchType
      BY <1>0, <1>2, FetchTyped DEF Mount, Unmount, GrowOld, Poll, Ask
    <2>2. TypeOK'
      BY <1>2, <2>1 DEF Mount, Unmount, GrowOld, Poll, IInv, TypeOK
    <2> QED BY <1>2, <2>2 DEF Mount, Unmount, GrowOld, Poll, Ask, IInv, TypeOK, CallsInRange,
              AnswersCarryTheWrites, AnswersMoveForward
  <1>3. CASE ServerReads
    <2>1. fetch' \in FetchType
      BY <1>3, FetchTyped DEF ServerReads, IInv, TypeOK
    <2>2. TypeOK'
      BY <1>3, <2>1 DEF ServerReads, IInv, TypeOK
    <2> QED BY <1>3, <2>2 DEF ServerReads, IInv, TypeOK, CallsInRange, AnswersCarryTheWrites, AnswersMoveForward
  <1>4. CASE Receive
    <2>1. fetch' \in FetchType /\ fetch.at \in 0..MaxWrites
      BY <1>0, <1>4, FetchTyped DEF Receive
    <2>2. data' \in -1..MaxWrites /\ overtaken' \in BOOLEAN
      BY <1>4, <2>1 DEF Receive, IInv, TypeOK
    <2>3. TypeOK'
      BY <1>4, <2>1, <2>2 DEF Receive, IInv, TypeOK
    <2>4. CallsInRange'
      BY <1>4 DEF Receive, IInv, CallsInRange
    <2>5. AnswersMoveForward'
      BY <1>4, <2>1 DEF Receive, Idle, IInv, TypeOK, AnswersMoveForward
    <2>6. AnswersCarryTheWrites'
      BY <1>4, <2>1 DEF Receive, Idle, IInv, TypeOK, AnswersCarryTheWrites
    <2> QED BY <2>3, <2>4, <2>5, <2>6 DEF IInv
  <1>5. CASE FetchFails
    <2>1. fetch' \in FetchType
      BY <1>5, FetchTyped DEF FetchFails
    <2>a. marked \in BOOLEAN /\ marked' \in {marked, TRUE}
      BY <1>5 DEF FetchFails, IInv, TypeOK
    <2>b. marked' \in BOOLEAN /\ (marked => marked')
      <3>1. CASE marked' = marked
        BY <2>a, <3>1, Zenon
      <3>2. CASE marked' = TRUE
        BY <3>2, Zenon
      <3> QED BY <2>a, <3>1, <3>2, Zenon
    <2>2. /\ losses' \in 0..MaxLosses /\ marked' \in BOOLEAN /\ (marked => marked')
          /\ UNCHANGED <<view, server, data, old, shown, call, due, overtaken>>
      BY <1>5, <2>b DEF FetchFails, IInv, TypeOK
    <2>3. TypeOK'
      BY <2>1, <2>2 DEF IInv, TypeOK
    <2>4. fetch' = [phase |-> "idle", at |-> -1]
      BY <1>5 DEF FetchFails, Idle
    <2>5. CallsInRange'
      BY <2>2 DEF IInv, CallsInRange
    <2>6. AnswersCarryTheWrites'
      BY <2>2, <2>4 DEF IInv, AnswersCarryTheWrites
    <2>7. AnswersMoveForward'
      BY <2>2, <2>4 DEF IInv, TypeOK, AnswersMoveForward
    <2> QED BY <2>3, <2>5, <2>6, <2>7 DEF IInv
  <1>6. ASSUME NEW w \in Writers, Submit(w) PROVE IInv'
    <2>1. PICK e \in Effects[view] :
            call' = [call EXCEPT ![w] = [phase |-> "sent", covers |-> e.covers, sets |-> e.sets,
                                         promised |-> e.promised, at |-> NoData]]
      BY <1>6 DEF Submit
    <2>2. view \in Views
      BY DEF IInv, TypeOK
    <2>3. e \in EffectType /\ (e.sets => Settable[view]) /\ (e.promised => (e.covers \/ e.sets))
      BY <2>1, <2>2, EffectsTyped DEF PromisesAreKept
    <2>4. UNCHANGED <<view, server, data, marked, old, shown, fetch, due, losses, overtaken>>
      BY <1>6 DEF Submit
    <2>5. call' \in [Writers -> CallType]
      BY <2>1, <2>3 DEF IInv, TypeOK, CallType, EffectType
    <2>6. TypeOK'
      BY <2>4, <2>5 DEF IInv, TypeOK
    <2>7. CallsInRange'
      BY <2>1, <2>3, <2>4 DEF IInv, TypeOK, CallsInRange
    <2> QED BY <2>4, <2>6, <2>7 DEF IInv, AnswersCarryTheWrites, AnswersMoveForward
  <1>7. ASSUME NEW w \in Writers, ServerWrites(w) PROVE IInv'
    <2>a. server + 1 \in 0..MaxWrites /\ call[w] \in CallType
      BY <1>7 DEF ServerWrites, IInv, TypeOK
    <2>b. [call[w] EXCEPT !.phase = "written", !.at = server + 1] \in CallType
      <3>1. server + 1 \in -1..MaxWrites
        BY <2>a
      <3> QED BY <2>a, <3>1 DEF CallType
    <2>0. call' \in [Writers -> CallType] /\ server' \in 0..MaxWrites
      BY <1>7, <2>a, <2>b DEF ServerWrites, IInv, TypeOK
    <2>1. TypeOK'
      BY <1>7, <2>0 DEF ServerWrites, IInv, TypeOK
    <2>c. /\ server' = server + 1 /\ server \in Int /\ data \in Int /\ due \in Int /\ fetch.at \in Int
          /\ UNCHANGED <<view, data, marked, old, shown, fetch, due, losses, overtaken>>
      BY <1>7, FetchTyped DEF ServerWrites, IInv, TypeOK
    <2>d. \A v \in Writers : call[v].at \in Int
      BY DEF IInv, TypeOK, CallType
    <2>2. CallsInRange'
      <3> SUFFICES ASSUME NEW v \in Writers
                   PROVE  /\ call'[v].at <= server'
                          /\ call'[v].phase = "written" => call'[v].at >= 1
                          /\ call'[v].promised => (call'[v].covers \/ call'[v].sets)
                          /\ call'[v].sets => Settable[view']
        BY DEF CallsInRange
      <3>1. CASE v # w
        <4>1. call'[v] = call[v]
          BY <1>7, <3>1 DEF ServerWrites, IInv, TypeOK
        <4> QED BY <4>1, <2>c, <2>d DEF IInv, CallsInRange
      <3>2. CASE v = w
        <4>1. call'[w] = [call[w] EXCEPT !.phase = "written", !.at = server + 1]
          BY <1>7 DEF ServerWrites, IInv, TypeOK
        <4>2. /\ call'[w].at = server + 1 /\ call'[w].covers = call[w].covers
              /\ call'[w].sets = call[w].sets /\ call'[w].promised = call[w].promised
          BY <4>1, <2>a DEF CallType
        <4>3. server \in 0..MaxWrites
          BY DEF IInv, TypeOK
        <4> QED BY <3>2, <4>2, <4>3, <2>c DEF IInv, CallsInRange
      <3> QED BY <3>1, <3>2
    <2>3. AnswersMoveForward'
      BY <2>c DEF IInv, AnswersMoveForward
    <2> QED BY <2>1, <2>2, <2>3, <2>c DEF IInv, AnswersCarryTheWrites
  <1>8. ASSUME NEW w \in Writers, CallFails(w) PROVE IInv'
    <2>1. /\ losses' \in 0..MaxLosses
          /\ UNCHANGED <<view, server, data, marked, old, shown, fetch, due, overtaken>>
      BY <1>8 DEF CallFails, IInv, TypeOK
    <2>2. call' \in [Writers -> CallType]
      BY <1>8 DEF CallFails, NoCall, IInv, TypeOK, CallType
    <2>3. TypeOK'
      BY <2>1, <2>2 DEF IInv, TypeOK
    <2>4. CallsInRange'
      BY <1>8, <2>1 DEF CallFails, NoCall, IInv, TypeOK, CallsInRange
    <2> QED BY <2>1, <2>3, <2>4 DEF IInv, AnswersCarryTheWrites, AnswersMoveForward
  <1>9. ASSUME NEW w \in Writers, Succeed(w) PROVE IInv'
    BY <1>9, SucceedIInv
  <1> QED BY <1>1, <1>2, <1>3, <1>4, <1>5, <1>6, <1>7, <1>8, <1>9 DEF Next

(* The types and the inductive invariant, for all tables whose promises are   *)
(* covered: useMutation's success handlers and the query cache keep them.     *)
THEOREM InductiveInvariant == PromisesAreKept => (Spec => []IInv)
  <1> SUFFICES ASSUME PromisesAreKept PROVE Spec => []IInv
    OBVIOUS
  <1>1. IInv /\ [Next]_vars => IInv'
    BY NextIInv
  <1> QED BY InitIInv, <1>1, PTL DEF Spec

THEOREM TypesHold == PromisesAreKept => (Spec => []TypeOK)
  <1> SUFFICES ASSUME PromisesAreKept PROVE Spec => []TypeOK
    OBVIOUS
  <1>1. IInv => TypeOK
    BY DEF IInv
  <1> QED BY <1>1, InductiveInvariant, PTL

(* A view that is neither marked nor being fetched holds every write that was *)
(* announced to its user, whatever the order of answers, mounts and losses.   *)
THEOREM WritesAreRead == PromisesAreKept => (Spec => []ReadYourWrites)
  <1> SUFFICES ASSUME PromisesAreKept PROVE Spec => []ReadYourWrites
    OBVIOUS
  <1>1. IInv => ReadYourWrites
    BY Bounds DEF IInv, TypeOK, AnswersCarryTheWrites, ReadYourWrites
  <1> QED BY <1>1, InductiveInvariant, PTL

(* Every step of the entry is a step of the abstract copy, or none: a write,   *)
(* an answer that is no older than what it replaces, or a setQueryData.       *)
LEMMA StepRefines ==
  ASSUME IInv, [Next]_vars
  PROVE  [Copy!Next]_(Copy!vars)
  <1>0. /\ server \in Int /\ data \in Int /\ fetch.at \in Int
        /\ data \in -1..MaxWrites /\ data <= server
    BY Bounds, FetchTyped DEF IInv, TypeOK, AnswersMoveForward
  <1>1. CASE UNCHANGED <<view, server, data>>
    <2>1. UNCHANGED Copy!vars
      BY <1>1 DEF Copy!vars
    <2> QED BY <2>1
  <1>2. CASE Receive
    <2>1. /\ fetch.at \in 0..MaxWrites /\ data' = fetch.at /\ fetch.at <= server
          /\ UNCHANGED <<view, server>>
      BY <1>2, FetchTyped DEF Receive, IInv, TypeOK, AnswersMoveForward
    <2>2. CASE Settable[view]
      <3>1. Copy!FillFromAnswer
        BY <2>1, <2>2, <1>0 DEF Copy!FillFromAnswer
      <3> QED BY <3>1 DEF Copy!Next
    <2>3. CASE ~Settable[view]
      <3>1. fetch.at >= data
        BY <1>2, <2>3 DEF Receive, IInv, AnswersMoveForward
      <3>2. Copy!Refresh
        BY <2>1, <3>1, <1>0 DEF Copy!Refresh
      <3> QED BY <3>2 DEF Copy!Next
    <2> QED BY <2>2, <2>3
  <1>3. ASSUME NEW w \in Writers, ServerWrites(w) PROVE [Copy!Next]_(Copy!vars)
    <2>1. Copy!Write
      BY <1>3 DEF ServerWrites, Copy!Write
    <2> QED BY <2>1 DEF Copy!Next
  <1>4. ASSUME NEW w \in Writers, Succeed(w) PROVE [Copy!Next]_(Copy!vars)
    <2>1. /\ data' = (IF call[w].sets THEN call[w].at ELSE data)
          /\ UNCHANGED <<view, server>>
          /\ call[w].phase = "written"
      BY <1>4 DEF Succeed, Filled
    <2>2. CASE ~call[w].sets
      BY <1>1, <2>1, <2>2
    <2>3. CASE call[w].sets
      <3>1. Settable[view] /\ call[w].at >= 1 /\ call[w].at <= server /\ call[w].at \in Int
        BY <2>1, <2>3 DEF IInv, CallsInRange, TypeOK, CallType
      <3>2. Copy!FillFromAnswer
        BY <2>1, <2>3, <3>1, <1>0 DEF Copy!FillFromAnswer
      <3> QED BY <3>2 DEF Copy!Next
    <2> QED BY <2>2, <2>3
  <1>5. CASE Mount \/ Unmount \/ GrowOld \/ Poll \/ ServerReads \/ FetchFails
    BY <1>1, <1>5 DEF Mount, Unmount, GrowOld, Poll, ServerReads, FetchFails
  <1>6. ASSUME NEW w \in Writers, Submit(w) \/ CallFails(w) PROVE [Copy!Next]_(Copy!vars)
    BY <1>1, <1>6 DEF Submit, CallFails
  <1> QED BY <1>1, <1>2, <1>3, <1>4, <1>5, <1>6 DEF Next, vars

(* The entry implements ForwardCopy: what a view shows is always a state the  *)
(* server was in, and moves forward unless setQueryData fills it.             *)
THEOREM ImplementsForwardCopy == PromisesAreKept => (Spec => CopyMovesForward)
  <1> SUFFICES ASSUME PromisesAreKept PROVE Spec => CopyMovesForward
    OBVIOUS
  <1>1. Init => Copy!Init
    <2> SUFFICES ASSUME Init PROVE Copy!Init
      OBVIOUS
    <2>1. Settable[view] \in BOOLEAN
      BY DEF Init, Settable, Sets
    <2> QED BY <2>1 DEF Init, Copy!Init
  <1>2. IInv /\ [Next]_vars => [Copy!Next]_(Copy!vars)
    BY StepRefines
  <1> QED BY <1>1, <1>2, InductiveInvariant, PTL DEF Spec, CopyMovesForward, Copy!Spec
==============================================================================
