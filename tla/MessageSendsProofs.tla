-------------------------- MODULE MessageSendsProofs --------------------------
(***************************************************************************)
(* Theorems about MessageSends for every set of sends, handlers and workers. *)
(*                                                                         *)
(* That messages are accounted for says nothing of the requests that may    *)
(* yet accept one: the invariant counts those with the messages, against    *)
(* the claim that stands and the causes so far (ClaimsAreAccounted).        *)
(*                                                                         *)
(* That the channel takes a message once says nothing of the calls that may *)
(* yet be made: the second account counts those with the calls made, and a  *)
(* message that reads failed as one never to be made (CallsAreAccounted).   *)
(***************************************************************************)
EXTENDS MessageSends, FiniteSetTheorems, TLAPS

(* Two finite sets that differ in one element at most. *)
LEMMA OneApart ==
  ASSUME NEW S, IsFiniteSet(S), NEW T, NEW x, T \ {x} = S \ {x}
  PROVE  /\ IsFiniteSet(T) /\ Cardinality(S) \in Nat /\ Cardinality(T) \in Nat
         /\ x \in T /\ x \notin S => Cardinality(T) = Cardinality(S) + 1
         /\ x \in S /\ x \notin T => Cardinality(T) = Cardinality(S) - 1
         /\ (x \in S <=> x \in T) => Cardinality(T) = Cardinality(S)
  <1>1. CASE x \in T /\ x \notin S
    <2>1. T = S \cup {x}
      BY <1>1
    <2> QED BY <1>1, <2>1, FS_AddElement, FS_CardinalityType
  <1>2. CASE x \in S /\ x \notin T
    <2>1. T = S \ {x}
      BY <1>2
    <2> QED BY <1>2, <2>1, FS_RemoveElement, FS_CardinalityType
  <1>3. CASE x \in S <=> x \in T
    <2>1. T = S
      BY <1>3
    <2> QED BY <1>3, <2>1, FS_CardinalityType
  <1> QED BY <1>1, <1>2, <1>3

LEMMA CountsFinite ==
  ASSUME NEW k \in Sends
  PROVE  /\ IsFiniteSet(Of(k)) /\ IsFiniteSet(Serving(k))
         /\ Cardinality(Of(k)) \in Nat /\ Cardinality(Serving(k)) \in Nat
  <1>1. IsFiniteSet(Ids)
    BY FS_Interval, Bounds DEF Ids
  <1>2. Of(k) \subseteq Ids /\ Serving(k) \subseteq Handlers
    BY DEF Of, Serving
  <1> QED BY <1>1, <1>2, Distinct, FS_Subset, FS_CardinalityType

(* What a handler is, phase by phase. *)
LEMMA HandlerTyped ==
  /\ IdleHandler \in HandlerType
  /\ \A p \in {"begin", "look", "serve"}, k \in Sends : [phase |-> p, of |-> k, id |-> None] \in HandlerType
  /\ \A p \in {"record", "enqueue"}, k \in Sends, i \in Ids : [phase |-> p, of |-> k, id |-> i] \in HandlerType
  /\ \A x \in HandlerType :
       /\ x = [phase |-> x.phase, of |-> x.of, id |-> x.id]
       /\ x.phase \in {"begin", "look", "serve", "record", "enqueue"} => x.of \in Sends
       /\ x.phase \in {"record", "enqueue"} => x.id \in Ids
       /\ x.id \in Ids \cup {None}
       /\ x.phase \in {"begin", "look", "serve"} => x.id = None
  BY DEF HandlerType, IdleHandler

(* One handler moves; messages keep their sends. *)
LEMMA ServingStep ==
  ASSUME NEW h \in Handlers, NEW k \in Sends, \A g \in Handlers \ {h} : handler'[g] = handler[g]
  PROVE  /\ Cardinality(Serving(k)) \in Nat /\ Cardinality(Serving(k)') \in Nat
         /\ h \in Serving(k)' /\ h \notin Serving(k) =>
              Cardinality(Serving(k)') = Cardinality(Serving(k)) + 1
         /\ h \in Serving(k) /\ h \notin Serving(k)' =>
              Cardinality(Serving(k)') = Cardinality(Serving(k)) - 1
         /\ (h \in Serving(k) <=> h \in Serving(k)') =>
              Cardinality(Serving(k)') = Cardinality(Serving(k))
  <1>1. Serving(k)' \ {h} = Serving(k) \ {h}
    BY DEF Serving
  <1>2. IsFiniteSet(Serving(k))
    BY CountsFinite
  <1> QED BY <1>1, <1>2, OneApart

LEMMA OfKept ==
  ASSUME \A i \in Ids : message'[i].of = message[i].of
  PROVE  \A k \in Sends : Of(k)' = Of(k)
  BY DEF Of

(* What the client hears is an answer. *)
LEMMA HeardTyped ==
  ASSUME TypeOK, NEW h \in Handlers, NEW answer \in Ids \cup {None, Refused}, Answer(h, answer)
  PROVE  /\ client' \in [Sends -> [tries : 0..MaxTries, awaits : Handlers \cup {None},
                                   told : Ids \cup {None, Refused}]]
         /\ handler' = [handler EXCEPT ![h] = IdleHandler]
         /\ handler' \in [Handlers -> HandlerType]
  <1>1. handler' \in [Handlers -> HandlerType]
    BY HandlerTyped DEF Answer, TypeOK
  <1>2. \A k \in Sends :
          (IF client[k].awaits = h THEN [client[k] EXCEPT !.awaits = None, !.told = answer] ELSE client[k])
            \in [tries : 0..MaxTries, awaits : Handlers \cup {None}, told : Ids \cup {None, Refused}]
    BY DEF TypeOK
  <1> QED BY <1>1, <1>2 DEF Answer, Heard

(* What a handler becomes. *)
LEMMA GoesTo ==
  ASSUME TypeOK, NEW h \in Handlers, NEW phase, NEW id, Goes(h, phase, id)
  PROVE  /\ handler'[h] = [phase |-> phase, of |-> handler[h].of, id |-> id]
         /\ \A g \in Handlers \ {h} : handler'[g] = handler[g]
         /\ [phase |-> phase, of |-> handler[h].of, id |-> id] \in HandlerType =>
              handler' \in [Handlers -> HandlerType]
  <1>1. PICK p, o, i : handler[h] = [phase |-> p, of |-> o, id |-> i]
    BY HandlerTyped DEF TypeOK
  <1>2. /\ handler' = [g \in Handlers |->
              IF g = h THEN [[handler[h] EXCEPT !.phase = phase] EXCEPT !.id = id] ELSE handler[g]]
        /\ handler \in [Handlers -> HandlerType]
    BY DEF Goes, TypeOK
  <1>3. [[handler[h] EXCEPT !.phase = phase] EXCEPT !.id = id] =
          [phase |-> phase, of |-> handler[h].of, id |-> id]
    <2>1. handler[h].of = o
      BY <1>1
    <2>2. [[[phase |-> p, of |-> o, id |-> i] EXCEPT !.phase = phase] EXCEPT !.id = id] =
            [phase |-> phase, of |-> o, id |-> id]
      <3>1. [[phase |-> p, of |-> o, id |-> i] EXCEPT !.phase = phase] = [phase |-> phase, of |-> o, id |-> i]
        OBVIOUS
      <3>2. [[phase |-> phase, of |-> o, id |-> i] EXCEPT !.id = id] = [phase |-> phase, of |-> o, id |-> id]
        OBVIOUS
      <3> QED BY <3>1, <3>2
    <2> QED BY <1>1, <2>1, <2>2
  <1> QED BY <1>2, <1>3

LEMMA InitClaimed == Init => Claimed
  <1> SUFFICES ASSUME Init PROVE Claimed
    OBVIOUS
  <1>1. TypeOK
    <2>1. /\ client \in [Sends -> [tries : 0..MaxTries, awaits : Handlers \cup {None},
                                   told : Ids \cup {None, Refused}]]
          /\ lapses \in [Sends -> 0..MaxLapses] /\ faults \in 0..MaxFaults
      BY Bounds DEF Init
    <2>2. handler \in [Handlers -> HandlerType] /\ message \in [Ids -> MessageType] /\ job \in [Workers -> JobType]
      BY DEF Init, HandlerType, MessageType, NoMessage, JobType
    <2>3. /\ entry \in [Sends -> {Free, InFlight} \cup Ids] /\ queue = {} /\ orphans = {}
          /\ unclaimed \in [Sends -> Nat] /\ taken \in [Ids -> Nat] /\ unsure \in [Ids -> Nat]
      BY DEF Init
    <2> QED BY <2>1, <2>2, <2>3 DEF TypeOK
  <1>2. ClaimsAreAccounted
    <2> SUFFICES ASSUME NEW k \in Sends
                 PROVE  Cardinality(Of(k)) + Cardinality(Serving(k)) <= Held(k) + lapses[k] + unclaimed[k]
      BY DEF ClaimsAreAccounted
    <2>1. Of(k) = {} /\ Serving(k) = {}
      BY Distinct DEF Init, Of, Serving, NoMessage, IdleHandler
    <2>2. Held(k) = 0 /\ lapses[k] = 0 /\ unclaimed[k] = 0
      BY DEF Init, Held
    <2> QED BY <2>1, <2>2, FS_EmptySet
  <1>3. HandlersOwn
    BY DEF Init, HandlersOwn, IdleHandler
  <1> QED BY <1>1, <1>2, <1>3 DEF Claimed

(* The steps of a handler: its count, and that of its send's messages.       *)
LEMMA Counted ==
  ASSUME Claimed, NEW h \in Handlers,
         \A g \in Handlers \ {h} : handler'[g] = handler[g],
         \A i \in Ids : message'[i].of = message[i].of,
         \A k \in Sends : /\ lapses'[k] = lapses[k] /\ unclaimed'[k] \in Nat
                          /\ LET more == IF h \in Serving(k)' /\ h \notin Serving(k) THEN 1 ELSE 0
                                 less == IF h \in Serving(k) /\ h \notin Serving(k)' THEN 1 ELSE 0
                             IN  Held(k) + unclaimed[k] + more <= Held(k)' + unclaimed'[k] + less
  PROVE  ClaimsAreAccounted'
  <1> SUFFICES ASSUME NEW k \in Sends
               PROVE  Cardinality(Of(k)') + Cardinality(Serving(k)') <= Held(k)' + lapses'[k] + unclaimed'[k]
    BY DEF ClaimsAreAccounted
  <1>1. Of(k)' = Of(k) /\ Cardinality(Of(k)) \in Nat
    BY OfKept, CountsFinite
  <1>2. Cardinality(Of(k)) + Cardinality(Serving(k)) <= Held(k) + lapses[k] + unclaimed[k]
    BY DEF Claimed, ClaimsAreAccounted
  <1>3. lapses[k] \in Nat /\ unclaimed[k] \in Nat /\ Held(k) \in Nat /\ Held(k)' \in Nat
    BY Bounds DEF Claimed, TypeOK, Held
  <1> HIDE DEF Held
  <1>4. CASE h \in Serving(k)' /\ h \notin Serving(k)
    BY <1>1, <1>2, <1>3, <1>4, ServingStep
  <1>5. CASE h \in Serving(k) /\ h \notin Serving(k)'
    BY <1>1, <1>2, <1>3, <1>5, ServingStep
  <1>6. CASE h \in Serving(k) <=> h \in Serving(k)'
    BY <1>1, <1>2, <1>3, <1>6, ServingStep
  <1> QED BY <1>4, <1>5, <1>6

(* A handler that ends, and one that moves on with the message it has or none. *)
LEMMA OwnKept ==
  ASSUME Claimed, NEW h \in Handlers,
         \A g \in Handlers \ {h} : handler'[g] = handler[g],
         \A i \in Ids : message'[i].of = message[i].of,
         handler'[h].id # None => handler'[h].id = handler[h].id /\ handler'[h].of = handler[h].of
  PROVE  HandlersOwn'
  <1> SUFFICES ASSUME NEW g \in Handlers, handler'[g].id # None
               PROVE  message'[handler'[g].id].of = handler'[g].of
    BY DEF HandlersOwn
  <1>1. handler'[g].id = handler[g].id /\ handler'[g].of = handler[g].of
    OBVIOUS
  <1>2. handler[g].id \in Ids
    BY <1>1, HandlerTyped DEF Claimed, TypeOK
  <1> QED BY <1>1, <1>2 DEF Claimed, HandlersOwn

LEMMA AskClaimed ==
  ASSUME Claimed, NEW k \in Sends, Ask(k)
  PROVE  Claimed'
  <1>1. PICK h \in Handlers :
          /\ handler[h] = IdleHandler
          /\ handler' = [handler EXCEPT ![h] = [phase |-> "begin", of |-> k, id |-> None]]
          /\ client' = [client EXCEPT ![k].awaits = h, ![k].tries = @ + 1]
    BY DEF Ask
  <1>2. UNCHANGED <<entry, message, queue, job, taken, unsure, lapses, unclaimed, orphans, faults>>
    BY DEF Ask, delivery
  <1>3. handler'[h] = [phase |-> "begin", of |-> k, id |-> None] /\ handler' \in [Handlers -> HandlerType]
    BY <1>1, HandlerTyped DEF Claimed, TypeOK
  <1>4. client' \in [Sends -> [tries : 0..MaxTries, awaits : Handlers \cup {None},
                              told : Ids \cup {None, Refused}]]
    <2>1. client[k].tries + 1 \in 0..MaxTries
      BY Bounds DEF Ask, Claimed, TypeOK
    <2> QED BY <1>1, <2>1 DEF Claimed, TypeOK
  <1>5. TypeOK'
    BY <1>2, <1>3, <1>4 DEF Claimed, TypeOK
  <1>6. \A j \in Sends : h \notin Serving(j) /\ h \notin Serving(j)'
    BY <1>1, <1>3 DEF Serving, IdleHandler
  <1>7. ClaimsAreAccounted'
    <2>1. \A j \in Sends : unclaimed[j] \in Nat /\ Held(j)' = Held(j) /\ Held(j) \in Nat
      BY <1>2 DEF Claimed, TypeOK, Held
    <2> HIDE DEF Held
    <2> QED BY <1>1, <1>2, <1>6, <2>1, Counted
  <1>8. HandlersOwn'
    BY <1>1, <1>2, <1>3, OwnKept
  <1> QED BY <1>5, <1>7, <1>8 DEF Claimed

(* A handler of a phase in which it serves somebody. *)
LEMMA OfSomeSend ==
  ASSUME TypeOK, NEW h \in Handlers,
         handler[h].phase \in {"begin", "look", "serve", "record", "enqueue"}
  PROVE  \E k \in Sends : k = handler[h].of
  BY HandlerTyped DEF TypeOK

LEMMA HeldOnce ==
  ASSUME TypeOK, NEW k \in Sends
  PROVE  /\ Held(k) \in {0, 1} /\ unclaimed[k] \in Nat
         /\ entry[k] = Free <=> Held(k) = 0
  BY DEF TypeOK, Held

LEMMA ClaimClaimed ==
  ASSUME Claimed, NEW h \in Handlers, Claim(h)
  PROVE  Claimed'
  <1>1. handler[h].phase = "begin"
    BY DEF Claim
  <1> PICK k \in Sends : k = handler[h].of
    BY <1>1, OfSomeSend DEF Claimed
  <1>2. /\ UNCHANGED <<client, message, queue, job, taken, unsure, lapses, unclaimed, orphans, faults>>
        /\ \/ entry[k] = Free /\ entry' = [entry EXCEPT ![k] = InFlight] /\ Goes(h, "serve", None)
           \/ entry' = entry /\ Goes(h, "look", None)
    BY DEF Claim, delivery
  <1>3. /\ \/ /\ handler'[h] = [phase |-> "serve", of |-> k, id |-> None]
              /\ entry[k] = Free /\ entry' = [entry EXCEPT ![k] = InFlight]
           \/ handler'[h] = [phase |-> "look", of |-> k, id |-> None] /\ entry' = entry
        /\ handler' \in [Handlers -> HandlerType]
        /\ \A g \in Handlers \ {h} : handler'[g] = handler[g]
    BY <1>2, GoesTo, HandlerTyped DEF Claimed
  <1>4. TypeOK'
    BY <1>2, <1>3 DEF Claimed, TypeOK
  <1>5. ClaimsAreAccounted'
    <2>1. \A j \in Sends : /\ unclaimed[j] \in Nat /\ Held(j) \in {0, 1} /\ Held(j)' \in {0, 1}
                           /\ entry[j] = Free <=> Held(j) = 0
                           /\ entry'[j] = Free <=> Held(j)' = 0
      BY <1>4, HeldOnce DEF Claimed, TypeOK, Held
    <2>2. \A j \in Sends \ {k} : entry'[j] = entry[j] /\ h \notin Serving(j) /\ h \notin Serving(j)'
      BY <1>2, <1>3 DEF Serving, Claimed, TypeOK
    <2>3. \/ entry[k] = Free /\ entry'[k] # Free
          \/ entry'[k] = entry[k] /\ h \notin Serving(k)'
      BY <1>3, Distinct DEF Serving, Claimed, TypeOK
    <2>4. h \notin Serving(k)
      BY <1>1 DEF Serving
    <2> HIDE DEF Held
    <2> QED BY <1>2, <1>3, <2>1, <2>2, <2>3, <2>4, Counted
  <1>6. HandlersOwn'
    BY <1>2, <1>3, OwnKept
  <1> QED BY <1>4, <1>5, <1>6 DEF Claimed

(* A handler that comes to serve nobody; only one that served frees its key. *)
LEMMA Settled ==
  ASSUME Claimed, TypeOK', NEW h \in Handlers,
         \A g \in Handlers \ {h} : handler'[g] = handler[g],
         handler'[h].phase # "serve",
         \A i \in Ids : message'[i].of = message[i].of,
         lapses' = lapses, unclaimed' = unclaimed,
         \A j \in Sends : h \notin Serving(j) => (entry'[j] = Free => entry[j] = Free)
  PROVE  ClaimsAreAccounted'
  <1>1. \A j \in Sends : /\ unclaimed[j] \in Nat /\ Held(j) \in {0, 1} /\ Held(j)' \in {0, 1}
                         /\ entry[j] = Free <=> Held(j) = 0
                         /\ entry'[j] = Free <=> Held(j)' = 0
    BY HeldOnce DEF Claimed, TypeOK, Held
  <1>2. \A j \in Sends : h \notin Serving(j)'
    BY DEF Serving
  <1> HIDE DEF Held
  <1> QED BY <1>1, <1>2, Counted

LEMMA LookClaimed ==
  ASSUME Claimed, NEW h \in Handlers, Look(h)
  PROVE  Claimed'
  <1>1. handler[h].phase = "look"
    BY DEF Look
  <1> PICK k \in Sends : k = handler[h].of
    BY <1>1, OfSomeSend DEF Claimed
  <1>2. UNCHANGED <<entry, message, queue, job, taken, unsure, lapses, orphans, faults>>
    BY DEF Look, delivery
  <1>3. CASE /\ Goes(h, "serve", None) /\ unclaimed' = [unclaimed EXCEPT ![k] = @ + 1]
             /\ UNCHANGED client
    <2>1. /\ handler'[h] = [phase |-> "serve", of |-> k, id |-> None]
          /\ handler' \in [Handlers -> HandlerType]
          /\ \A g \in Handlers \ {h} : handler'[g] = handler[g]
      BY <1>3, GoesTo, HandlerTyped DEF Claimed
    <2>2. unclaimed' \in [Sends -> Nat] /\ unclaimed'[k] = unclaimed[k] + 1
          /\ \A j \in Sends \ {k} : unclaimed'[j] = unclaimed[j]
      BY <1>3 DEF Claimed, TypeOK
    <2>3. TypeOK'
      BY <1>2, <1>3, <2>1, <2>2 DEF Claimed, TypeOK
    <2>4. \A j \in Sends : /\ unclaimed[j] \in Nat /\ unclaimed'[j] \in Nat
                           /\ Held(j) \in {0, 1} /\ Held(j)' = Held(j)
      BY <1>2, <2>2, HeldOnce DEF Claimed, TypeOK, Held
    <2>5. \A j \in Sends \ {k} : h \notin Serving(j)'
      BY <2>1 DEF Serving
    <2>6. ClaimsAreAccounted'
      <3> HIDE DEF Held
      <3> QED BY <1>2, <2>1, <2>2, <2>4, <2>5, Counted
    <2>7. HandlersOwn'
      BY <1>2, <2>1, OwnKept
    <2> QED BY <2>3, <2>6, <2>7 DEF Claimed
  <1>4. CASE UNCHANGED unclaimed /\ \E a \in Ids \cup {None} : Answer(h, a)
    <2>1. /\ handler' = [handler EXCEPT ![h] = IdleHandler]
          /\ handler' \in [Handlers -> HandlerType]
          /\ client' \in [Sends -> [tries : 0..MaxTries, awaits : Handlers \cup {None},
                                    told : Ids \cup {None, Refused}]]
      BY <1>4, HeardTyped DEF Claimed
    <2>2. handler'[h] = IdleHandler /\ \A g \in Handlers \ {h} : handler'[g] = handler[g]
      BY <2>1 DEF Claimed, TypeOK
    <2>3. TypeOK'
      BY <1>2, <1>4, <2>1 DEF Claimed, TypeOK
    <2>4. ClaimsAreAccounted'
      BY <1>2, <1>4, <2>2, <2>3, Settled DEF IdleHandler
    <2>5. HandlersOwn'
      BY <1>2, <2>2, OwnKept DEF IdleHandler
    <2> QED BY <2>3, <2>4, <2>5 DEF Claimed
  <1>5. entry[k] \in {Free, InFlight} \cup Ids
    BY DEF Claimed, TypeOK
  <1>6. CASE entry[k] = Free
    BY <1>3, <1>6, Distinct DEF Look
  <1>7. CASE entry[k] = InFlight
    BY <1>4, <1>7, Distinct DEF Look
  <1>8. CASE entry[k] \in Ids /\ entry[k] # Free /\ entry[k] # InFlight
    BY <1>4, <1>8 DEF Look
  <1> QED BY <1>5, <1>6, <1>7, <1>8

(* The ends of a request: unavailable, refused, accepted, dead. *)
LEMMA EndsClaimed ==
  ASSUME Claimed, NEW h \in Handlers, NEW a \in Ids \cup {None, Refused}, Answer(h, a),
         entry' \in [Sends -> {Free, InFlight} \cup Ids],
         \A j \in Sends : h \notin Serving(j) => entry'[j] = entry[j],
         queue' \subseteq (Ids \X (0..MaxAttempts - 1)), orphans' \subseteq Ids, faults' \in 0..MaxFaults,
         UNCHANGED <<message, job, taken, unsure, lapses, unclaimed>>
  PROVE  Claimed'
  <1>1. /\ handler' = [handler EXCEPT ![h] = IdleHandler]
        /\ handler' \in [Handlers -> HandlerType]
        /\ client' \in [Sends -> [tries : 0..MaxTries, awaits : Handlers \cup {None},
                                  told : Ids \cup {None, Refused}]]
    BY HeardTyped DEF Claimed
  <1>2. handler'[h] = IdleHandler /\ \A g \in Handlers \ {h} : handler'[g] = handler[g]
    BY <1>1 DEF Claimed, TypeOK
  <1>3. TypeOK'
    BY <1>1 DEF Claimed, TypeOK
  <1>4. ClaimsAreAccounted'
    BY <1>2, <1>3, Settled DEF IdleHandler
  <1>5. HandlersOwn'
    BY <1>2, OwnKept DEF IdleHandler
  <1> QED BY <1>3, <1>4, <1>5 DEF Claimed

LEMMA FaultTyped == TypeOK /\ Fault => faults' \in 0..MaxFaults
  BY Bounds DEF TypeOK, Fault

LEMMA UnavailableClaimed ==
  ASSUME Claimed, NEW h \in Handlers, Unavailable(h)
  PROVE  Claimed'
  <1>1. /\ Answer(h, None) /\ faults' \in 0..MaxFaults
        /\ UNCHANGED <<entry, message, queue, job, taken, unsure, lapses, unclaimed, orphans>>
    BY FaultTyped DEF Unavailable, delivery, Claimed
  <1>2. /\ entry' \in [Sends -> {Free, InFlight} \cup Ids]
        /\ queue' \subseteq (Ids \X (0..MaxAttempts - 1)) /\ orphans' \subseteq Ids
    BY <1>1 DEF Claimed, TypeOK
  <1> QED BY <1>1, <1>2, EndsClaimed

LEMMA RefuseClaimed ==
  ASSUME Claimed, NEW h \in Handlers, Refuse(h)
  PROVE  Claimed'
  <1>1. handler[h].phase = "serve"
    BY DEF Refuse
  <1> PICK k \in Sends : k = handler[h].of
    BY <1>1, OfSomeSend DEF Claimed
  <1>2. /\ Answer(h, Refused) /\ entry' = [entry EXCEPT ![k] = Free]
        /\ UNCHANGED <<message, queue, job, taken, unsure, lapses, unclaimed, orphans, faults>>
    BY DEF Refuse, delivery
  <1>3. /\ entry' \in [Sends -> {Free, InFlight} \cup Ids]
        /\ \A j \in Sends : h \notin Serving(j) => entry'[j] = entry[j]
    BY <1>1, <1>2 DEF Serving, Claimed, TypeOK
  <1>4. /\ queue' \subseteq (Ids \X (0..MaxAttempts - 1)) /\ orphans' \subseteq Ids /\ faults' \in 0..MaxFaults
    BY <1>2 DEF Claimed, TypeOK
  <1> QED BY <1>2, <1>3, <1>4, EndsClaimed

LEMMA EnqueueClaimed ==
  ASSUME Claimed, NEW h \in Handlers, Enqueue(h)
  PROVE  Claimed'
  <1>1. handler[h].id \in Ids
    BY HandlerTyped DEF Enqueue, Claimed, TypeOK
  <1>2. /\ Answer(h, handler[h].id) /\ queue' = queue \cup {<<handler[h].id, 0>>}
        /\ UNCHANGED <<entry, message, job, taken, unsure, lapses, unclaimed, orphans, faults>>
    BY DEF Enqueue
  <1>3. queue' \subseteq (Ids \X (0..MaxAttempts - 1))
    <2>1. 0 \in 0..MaxAttempts - 1
      BY Bounds
    <2> QED BY <1>1, <1>2, <2>1 DEF Claimed, TypeOK
  <1>4. entry' \in [Sends -> {Free, InFlight} \cup Ids] /\ orphans' \subseteq Ids /\ faults' \in 0..MaxFaults
    BY <1>2 DEF Claimed, TypeOK
  <1> QED BY <1>1, <1>2, <1>3, <1>4, EndsClaimed

LEMMA HandlerDiesClaimed ==
  ASSUME Claimed, NEW h \in Handlers, HandlerDies(h)
  PROVE  Claimed'
  <1>1. /\ Answer(h, None) /\ faults' \in 0..MaxFaults
        /\ orphans' = orphans \cup ({handler[h].id} \ {None})
        /\ UNCHANGED <<entry, message, queue, job, taken, unsure, lapses, unclaimed>>
    BY FaultTyped DEF HandlerDies, delivery, Claimed
  <1>2. orphans' \subseteq Ids
    BY <1>1, HandlerTyped DEF Claimed, TypeOK
  <1>3. entry' \in [Sends -> {Free, InFlight} \cup Ids] /\ queue' \subseteq (Ids \X (0..MaxAttempts - 1))
    BY <1>1 DEF Claimed, TypeOK
  <1> QED BY <1>1, <1>2, <1>3, EndsClaimed

(* A handler that goes on with a message. *)
LEMMA MovesClaimed ==
  ASSUME Claimed, NEW h \in Handlers, NEW i \in Ids,
         handler[h].phase = "record", i = handler[h].id, Goes(h, "enqueue", i),
         entry' \in [Sends -> {Free, InFlight} \cup Ids],
         \A j \in Sends : entry'[j] = Free => entry[j] = Free,
         faults' \in 0..MaxFaults,
         UNCHANGED <<client, message, queue, job, taken, unsure, lapses, unclaimed, orphans>>
  PROVE  Claimed'
  <1> PICK k \in Sends : k = handler[h].of
    BY OfSomeSend DEF Claimed
  <1>1. /\ handler'[h] = [phase |-> "enqueue", of |-> k, id |-> i]
        /\ handler' \in [Handlers -> HandlerType]
        /\ \A g \in Handlers \ {h} : handler'[g] = handler[g]
    BY GoesTo, HandlerTyped DEF Claimed
  <1>2. TypeOK'
    BY <1>1 DEF Claimed, TypeOK
  <1>3. ClaimsAreAccounted'
    BY <1>1, <1>2, Settled
  <1>4. HandlersOwn'
    BY <1>1, OwnKept
  <1> QED BY <1>2, <1>3, <1>4 DEF Claimed

LEMMA CompleteClaimed ==
  ASSUME Claimed, NEW h \in Handlers, Complete(h) \/ CompleteFails(h)
  PROVE  Claimed'
  <1>0. handler[h].phase = "record"
    BY DEF Complete, CompleteFails
  <1> PICK k \in Sends : k = handler[h].of
    BY <1>0, OfSomeSend DEF Claimed
  <1> PICK i \in Ids : i = handler[h].id
    BY <1>0, HandlerTyped DEF Claimed, TypeOK
  <1>1. /\ Goes(h, "enqueue", i) /\ (entry' = [entry EXCEPT ![k] = i] \/ entry' = entry)
        /\ UNCHANGED <<client, message, queue, job, taken, unsure, lapses, unclaimed, orphans>>
    BY DEF Complete, CompleteFails, delivery
  <1>2. faults' \in 0..MaxFaults
    BY FaultTyped DEF Complete, CompleteFails, Claimed, TypeOK
  <1>3. i # Free
    BY Distinct DEF Ids
  <1>4. /\ entry' \in [Sends -> {Free, InFlight} \cup Ids]
        /\ \A j \in Sends : entry'[j] = Free => entry[j] = Free
    BY <1>1, <1>3 DEF Claimed, TypeOK
  <1> QED BY <1>0, <1>1, <1>2, <1>4, MovesClaimed

(* The one step that makes a message of a request that was let through. *)
LEMMA AcceptClaimed ==
  ASSUME Claimed, NEW h \in Handlers, Accept(h)
  PROVE  Claimed'
  <1>0. handler[h].phase = "serve"
    BY DEF Accept
  <1> PICK k \in Sends : k = handler[h].of
    BY <1>0, OfSomeSend DEF Claimed
  <1>1. PICK i \in Ids :
          /\ message[i] = NoMessage
          /\ message' = [message EXCEPT ![i] = [of |-> k, status |-> "accepted", wamid |-> FALSE]]
          /\ Goes(h, "record", i)
    BY DEF Accept
  <1>2. UNCHANGED <<entry, client, queue, job, taken, unsure, lapses, unclaimed, orphans, faults>>
    BY DEF Accept, delivery
  <1>3. /\ handler'[h] = [phase |-> "record", of |-> k, id |-> i]
        /\ handler' \in [Handlers -> HandlerType]
        /\ \A g \in Handlers \ {h} : handler'[g] = handler[g]
    BY <1>1, GoesTo, HandlerTyped DEF Claimed
  <1>4. message' \in [Ids -> MessageType] /\ message'[i].of = k /\ message[i].of # k
        /\ \A j \in Ids \ {i} : message'[j] = message[j]
    BY <1>1, Distinct DEF Claimed, TypeOK, MessageType, NoMessage
  <1>5. TypeOK'
    BY <1>2, <1>3, <1>4 DEF Claimed, TypeOK
  <1>6. ClaimsAreAccounted'
    <2> SUFFICES ASSUME NEW j \in Sends
                 PROVE  Cardinality(Of(j)') + Cardinality(Serving(j)') <= Held(j)' + lapses'[j] + unclaimed'[j]
      BY DEF ClaimsAreAccounted
    <2>1. Cardinality(Of(j)) + Cardinality(Serving(j)) <= Held(j) + lapses[j] + unclaimed[j]
      BY DEF Claimed, ClaimsAreAccounted
    <2>2. /\ Held(j)' = Held(j) /\ lapses'[j] = lapses[j] /\ unclaimed'[j] = unclaimed[j]
          /\ lapses[j] \in Nat /\ unclaimed[j] \in Nat /\ Held(j) \in Nat
      BY <1>2, Bounds DEF Claimed, TypeOK, Held
    <2>3. /\ Cardinality(Of(j)) \in Nat /\ Cardinality(Of(j)') \in Nat
          /\ j = k => Cardinality(Of(j)') = Cardinality(Of(j)) + 1
          /\ j # k => Cardinality(Of(j)') = Cardinality(Of(j))
      <3>1. Of(j)' \ {i} = Of(j) \ {i} /\ i \notin Of(k) /\ i \in Of(k)'
        BY <1>4 DEF Of
      <3>2. j # k => (i \in Of(j) <=> i \in Of(j)')
        BY <1>1, <1>4, Distinct DEF Of, NoMessage
      <3> QED BY <3>1, <3>2, CountsFinite, OneApart
    <2>4. /\ Cardinality(Serving(j)) \in Nat /\ Cardinality(Serving(j)') \in Nat
          /\ j = k => Cardinality(Serving(j)') = Cardinality(Serving(j)) - 1
          /\ j # k => Cardinality(Serving(j)') = Cardinality(Serving(j))
      <3>1. h \in Serving(k) /\ h \notin Serving(j)' /\ (j # k => h \notin Serving(j))
        BY <1>0, <1>3 DEF Serving
      <3> QED BY <1>3, <3>1, ServingStep
    <2> HIDE DEF Held
    <2> QED BY <2>1, <2>2, <2>3, <2>4
  <1>7. HandlersOwn'
    <2> SUFFICES ASSUME NEW g \in Handlers, handler'[g].id # None
                 PROVE  message'[handler'[g].id].of = handler'[g].of
      BY DEF HandlersOwn
    <2>1. CASE g = h
      BY <1>3, <1>4, <2>1
    <2>2. CASE g # h
      <3>1. handler'[g] = handler[g] /\ handler[g].id \in Ids
        BY <1>3, <2>2, HandlerTyped DEF Claimed, TypeOK
      <3>2. message[handler[g].id].of = handler[g].of
        BY <3>1 DEF Claimed, HandlersOwn
      <3>3. handler[g].of \in Sends
        BY <3>1, HandlerTyped, Distinct DEF Claimed, TypeOK, HandlerType, IdleHandler
      <3>4. handler[g].id # i
        BY <1>1, <3>2, <3>3, Distinct DEF NoMessage
      <3> QED BY <1>4, <3>1, <3>2, <3>4
    <2> QED BY <2>1, <2>2
  <1> QED BY <1>5, <1>6, <1>7 DEF Claimed

LEMMA LapseClaimed ==
  ASSUME Claimed, NEW k \in Sends, Lapse(k)
  PROVE  Claimed'
  <1>1. /\ entry[k] # Free /\ entry' = [entry EXCEPT ![k] = Free]
        /\ lapses' = [lapses EXCEPT ![k] = @ + 1] /\ lapses[k] < MaxLapses
        /\ UNCHANGED <<client, handler, message, queue, job, taken, unsure, unclaimed, orphans, faults>>
    BY DEF Lapse, delivery
  <1>2. lapses' \in [Sends -> 0..MaxLapses] /\ entry' \in [Sends -> {Free, InFlight} \cup Ids]
    BY <1>1, Bounds DEF Claimed, TypeOK
  <1>3. TypeOK'
    BY <1>1, <1>2 DEF Claimed, TypeOK
  <1>4. ClaimsAreAccounted'
    <2> SUFFICES ASSUME NEW j \in Sends
                 PROVE  Cardinality(Of(j)') + Cardinality(Serving(j)') <= Held(j)' + lapses'[j] + unclaimed'[j]
      BY DEF ClaimsAreAccounted
    <2>1. Cardinality(Of(j)) + Cardinality(Serving(j)) <= Held(j) + lapses[j] + unclaimed[j]
      BY DEF Claimed, ClaimsAreAccounted
    <2>2. Of(j)' = Of(j) /\ Serving(j)' = Serving(j) /\ unclaimed'[j] = unclaimed[j]
      BY <1>1 DEF Of, Serving
    <2>3. /\ lapses[j] \in Nat /\ unclaimed[j] \in Nat
          /\ IF j = k THEN lapses'[j] = lapses[j] + 1 /\ Held(j) = 1 /\ Held(j)' = 0
                      ELSE lapses'[j] = lapses[j] /\ Held(j)' = Held(j) /\ Held(j) \in Nat
      BY <1>1, Bounds DEF Claimed, TypeOK, Held
    <2> HIDE DEF Held
    <2> QED BY <2>1, <2>2, <2>3, CountsFinite
  <1>5. HandlersOwn'
    BY <1>1 DEF Claimed, HandlersOwn
  <1> QED BY <1>3, <1>4, <1>5 DEF Claimed

(* A client that stops waiting, and the steps of the tasks: no key, no       *)
(* handler and no message's send changes.                                    *)
LEMMA ElsewhereClaimed ==
  ASSUME Claimed, TypeOK', UNCHANGED <<entry, handler, lapses, unclaimed>>,
         \A i \in Ids : message'[i].of = message[i].of
  PROVE  Claimed'
  <1>1. ClaimsAreAccounted'
    <2>1. \A k \in Sends : Of(k)' = Of(k) /\ Serving(k)' = Serving(k) /\ Held(k)' = Held(k)
      BY OfKept DEF Serving, Held
    <2> QED BY <2>1 DEF Claimed, ClaimsAreAccounted
  <1>2. HandlersOwn'
    BY HandlerTyped DEF Claimed, HandlersOwn, TypeOK
  <1> QED BY <1>1, <1>2 DEF Claimed

LEMMA TimeOutClaimed ==
  ASSUME Claimed, NEW k \in Sends, TimeOut(k)
  PROVE  Claimed'
  <1>1. /\ client' = [client EXCEPT ![k].awaits = None]
        /\ UNCHANGED <<entry, handler, message, queue, job, taken, unsure, lapses, unclaimed, orphans, faults>>
    BY DEF TimeOut, delivery
  <1>2. TypeOK'
    BY <1>1 DEF Claimed, TypeOK
  <1> QED BY <1>1, <1>2, ElsewhereClaimed

QueueType == SUBSET (Ids \X (0..MaxAttempts - 1))

(* What a task under way is. *)
LEMMA JobTyped ==
  ASSUME TypeOK, NEW w \in Workers
  PROVE  /\ IdleJob \in JobType /\ job[w] \in JobType
         /\ \A p \in {"loaded", "called", "failing"}, i \in Ids, n \in 0..MaxAttempts - 1 :
              [phase |-> p, id |-> i, tries |-> n] \in JobType
         /\ job[w] # IdleJob =>
              /\ job[w].phase \in {"loaded", "called", "failing"}
              /\ job[w].id \in Ids /\ job[w].tries \in 0..MaxAttempts - 1
              /\ job[w] = [phase |-> job[w].phase, id |-> job[w].id, tries |-> job[w].tries]
  BY DEF TypeOK, JobType, IdleJob

LEMMA JobIs ==
  ASSUME TypeOK, NEW w \in Workers, job[w] # IdleJob
  PROVE  \E p \in {"loaded", "called", "failing"}, i \in Ids, n \in 0..MaxAttempts - 1 :
           job[w] = [phase |-> p, id |-> i, tries |-> n]
  BY DEF TypeOK, JobType

(* A task goes to another phase. *)
LEMMA JobGoes ==
  ASSUME TypeOK, NEW w \in Workers, job[w] # IdleJob, NEW p \in {"loaded", "called", "failing"},
         job' = [job EXCEPT ![w].phase = p]
  PROVE  job' \in [Workers -> JobType]
  <1>1. PICK o \in {"loaded", "called", "failing"}, i \in Ids, n \in 0..MaxAttempts - 1 :
          job[w] = [phase |-> o, id |-> i, tries |-> n]
    BY JobIs
  <1>2. [job[w] EXCEPT !.phase = p] = [phase |-> p, id |-> i, tries |-> n]
    BY <1>1
  <1>3. [phase |-> p, id |-> i, tries |-> n] \in JobType
    BY DEF JobType
  <1> QED BY <1>2, <1>3 DEF TypeOK

LEMMA JobEnds ==
  ASSUME TypeOK, NEW w \in Workers, job' = [job EXCEPT ![w] = IdleJob]
  PROVE  job' \in [Workers -> JobType]
  BY JobTyped DEF TypeOK

LEMMA AgainTyped ==
  ASSUME TypeOK, NEW w \in Workers, job[w] # IdleJob, Again(w)
  PROVE  queue' \in QueueType /\ job' \in [Workers -> JobType]
  <1>1. CASE /\ job[w].tries + 1 < MaxAttempts
             /\ queue' = queue \cup {<<job[w].id, job[w].tries + 1>>}
             /\ job' = [job EXCEPT ![w] = IdleJob]
    <2>1. PICK o \in {"loaded", "called", "failing"}, i \in Ids, n \in 0..MaxAttempts - 1 :
            job[w] = [phase |-> o, id |-> i, tries |-> n]
      BY JobIs
    <2>2. n + 1 \in 0..MaxAttempts - 1
      BY <1>1, <2>1, Bounds
    <2>3. queue' = queue \cup {<<i, n + 1>>}
      BY <1>1, <2>1
    <2>4. queue' \in QueueType
      BY <2>2, <2>3 DEF QueueType, TypeOK
    <2> QED BY <1>1, <2>4, JobEnds
  <1>2. CASE job' = [job EXCEPT ![w].phase = "failing"] /\ queue' = queue
    BY <1>2, JobGoes DEF QueueType, TypeOK
  <1> QED BY <1>1, <1>2 DEF Again

LEMMA TakeClaimed ==
  ASSUME Claimed, NEW w \in Workers, Take(w)
  PROVE  Claimed'
  <1>1. PICK t \in queue :
          /\ queue' = queue \ {t}
          /\ job' = job \/ job' = [job EXCEPT ![w] = [phase |-> "loaded", id |-> t[1], tries |-> t[2]]]
    BY DEF Take
  <1>2. UNCHANGED <<entry, client, handler, lapses, unclaimed, orphans, message, taken, unsure, faults>>
    BY DEF Take, requests
  <1>3. [phase |-> "loaded", id |-> t[1], tries |-> t[2]] \in JobType
    <2>1. t[1] \in Ids /\ t[2] \in 0..MaxAttempts - 1
      BY <1>1 DEF Claimed, TypeOK
    <2> QED BY <2>1, JobTyped DEF Claimed
  <1>4. TypeOK'
    BY <1>1, <1>2, <1>3 DEF Claimed, TypeOK
  <1> QED BY <1>2, <1>4, ElsewhereClaimed

(* The runs of a task that leave its message alone. *)
LEMMA RunClaimed ==
  ASSUME Claimed, NEW w \in Workers,
         NotTaken(w) \/ Terminal(w) \/ Call(w) \/ AnswerLost(w) \/ WorkerDies(w) \/ Redeliver(w)
  PROVE  Claimed'
  <1>1. UNCHANGED <<entry, client, handler, lapses, unclaimed, orphans, message>>
    BY DEF NotTaken, Terminal, Call, AnswerLost, WorkerDies, Redeliver, requests
  <1>2. job[w] # IdleJob
    BY DEF NotTaken, Terminal, Call, AnswerLost, WorkerDies, Redeliver, IdleJob
  <1>3. job[w].id \in Ids /\ job[w].tries \in 0..MaxAttempts - 1
    BY <1>2, JobTyped DEF Claimed
  <1>4. queue' \in QueueType /\ job' \in [Workers -> JobType]
    <2>1. CASE NotTaken(w) \/ AnswerLost(w)
      BY <1>2, <2>1, AgainTyped DEF NotTaken, AnswerLost, Claimed
    <2>2. CASE Terminal(w) \/ Call(w)
      BY <1>2, <2>2, JobGoes DEF Terminal, Call, Claimed, TypeOK, QueueType
    <2>3. CASE WorkerDies(w) \/ Redeliver(w)
      <3>1. queue' = queue \cup {<<job[w].id, job[w].tries>>}
        BY <2>3 DEF WorkerDies, Redeliver
      <3>2. job' \in [Workers -> JobType]
        BY <2>3, JobEnds DEF WorkerDies, Redeliver, Claimed, TypeOK
      <3> QED BY <1>3, <3>1, <3>2 DEF Claimed, TypeOK, QueueType
    <2> QED BY <2>1, <2>2, <2>3
  <1>5. taken' \in [Ids -> Nat] /\ unsure' \in [Ids -> Nat]
    BY <1>3 DEF NotTaken, Terminal, Call, AnswerLost, WorkerDies, Redeliver, Claimed, TypeOK
  <1>6. faults' \in 0..MaxFaults
    BY FaultTyped DEF NotTaken, Terminal, Call, AnswerLost, WorkerDies, Redeliver, Claimed, TypeOK
  <1>7. TypeOK'
    BY <1>1, <1>4, <1>5, <1>6 DEF Claimed, TypeOK, QueueType
  <1> QED BY <1>1, <1>7, ElsewhereClaimed

(* The two that write to it. *)
LEMMA WriteClaimed ==
  ASSUME Claimed, NEW w \in Workers, Commit(w) \/ Fail(w)
  PROVE  Claimed'
  <1>1. /\ UNCHANGED <<entry, client, handler, lapses, unclaimed, orphans, queue, taken, unsure, faults>>
        /\ job' = [job EXCEPT ![w] = IdleJob]
    BY DEF Commit, Fail, requests
  <1>2. job[w].id \in Ids
    <2>1. job[w] # IdleJob
      BY DEF Commit, Fail, IdleJob
    <2> QED BY <2>1, JobTyped DEF Claimed
  <1>3. PICK i \in Ids : \/ message' = [message EXCEPT ![i].wamid = TRUE]
                        \/ message' = [message EXCEPT ![i].status = "failed"]
    BY <1>2 DEF Commit, Fail
  <1>4. message' \in [Ids -> MessageType] /\ \A j \in Ids : message'[j].of = message[j].of
    <2>1. PICK o \in Sends \cup {None}, s \in {"none", "accepted", "failed"}, m \in BOOLEAN :
            message[i] = [of |-> o, status |-> s, wamid |-> m]
      BY DEF Claimed, TypeOK, MessageType
    <2>2. CASE message' = [message EXCEPT ![i].wamid = TRUE]
      <3>1. [message[i] EXCEPT !.wamid = TRUE] = [of |-> o, status |-> s, wamid |-> TRUE]
        <4>1. \A x, v : [[of |-> o, status |-> s, wamid |-> x] EXCEPT !.wamid = v] =
                          [of |-> o, status |-> s, wamid |-> v]
          OBVIOUS
        <4> QED BY <2>1, <4>1
      <3>2. [of |-> o, status |-> s, wamid |-> TRUE] \in MessageType
        BY DEF MessageType
      <3> QED BY <2>1, <2>2, <3>1, <3>2 DEF Claimed, TypeOK
    <2>3. CASE message' = [message EXCEPT ![i].status = "failed"]
      <3>1. [message[i] EXCEPT !.status = "failed"] = [of |-> o, status |-> "failed", wamid |-> m]
        BY <2>1
      <3>2. [of |-> o, status |-> "failed", wamid |-> m] \in MessageType
        BY DEF MessageType
      <3> QED BY <2>1, <2>3, <3>1, <3>2 DEF Claimed, TypeOK
    <2> QED BY <1>3, <2>2, <2>3
  <1>5. job' \in [Workers -> JobType]
    BY <1>1, JobEnds DEF Claimed
  <1>6. TypeOK'
    BY <1>1, <1>4, <1>5 DEF Claimed, TypeOK
  <1> QED BY <1>1, <1>4, <1>6, ElsewhereClaimed

LEMMA NextClaimed == Claimed /\ [Next]_vars => Claimed'
  <1> SUFFICES ASSUME Claimed, [Next]_vars PROVE Claimed'
    OBVIOUS
  <1>1. ASSUME NEW k \in Sends, Ask(k) \/ TimeOut(k) \/ Lapse(k) PROVE Claimed'
    BY <1>1, AskClaimed, TimeOutClaimed, LapseClaimed
  <1>2. ASSUME NEW h \in Handlers, Serve(h) PROVE Claimed'
    BY <1>2, ClaimClaimed, LookClaimed, RefuseClaimed, AcceptClaimed, CompleteClaimed, EnqueueClaimed DEF Serve
  <1>3. ASSUME NEW h \in Handlers, Unavailable(h) \/ HandlerDies(h) PROVE Claimed'
    BY <1>3, UnavailableClaimed, HandlerDiesClaimed
  <1>4. ASSUME NEW w \in Workers, Run(w) PROVE Claimed'
    BY <1>4, TakeClaimed, RunClaimed, WriteClaimed DEF Run
  <1>5. ASSUME NEW w \in Workers, WorkerDies(w) \/ Redeliver(w) PROVE Claimed'
    BY <1>5, RunClaimed
  <1>6. CASE UNCHANGED vars
    <2>1. TypeOK'
      BY <1>6 DEF vars, Claimed, TypeOK
    <2> QED BY <1>6, <2>1, ElsewhereClaimed DEF vars
  <1> QED BY <1>1, <1>2, <1>3, <1>4, <1>5, <1>6 DEF Next

-----------------------------------------------------------------------------
(* The account of the calls.                                                 *)
Bit(p) == IF p THEN 1 ELSE 0

(* Two finite sets that differ in one element at most, counted.              *)
LEMMA OneMoved ==
  ASSUME NEW S, IsFiniteSet(S), NEW T, NEW x, T \ {x} = S \ {x}
  PROVE  /\ Cardinality(S) \in Nat /\ Cardinality(T) \in Nat
         /\ Cardinality(T) + Bit(x \in S) = Cardinality(S) + Bit(x \in T)
  <1>1. CASE x \in T /\ x \notin S
    BY <1>1, OneApart DEF Bit
  <1>2. CASE x \in S /\ x \notin T
    BY <1>2, OneApart DEF Bit
  <1>3. CASE x \in S <=> x \in T
    BY <1>3, OneApart DEF Bit
  <1> QED BY <1>1, <1>2, <1>3

LEMMA ChancesFinite ==
  ASSUME TypeOK, NEW i \in Ids
  PROVE  /\ IsFiniteSet(Making(i)) /\ IsFiniteSet(Queued(i)) /\ IsFiniteSet(Running(i))
         /\ Cardinality(Making(i)) \in Nat /\ Cardinality(Queued(i)) \in Nat
         /\ Cardinality(Running(i)) \in Nat /\ Over(i) \in {0, 1}
         /\ taken[i] \in Nat /\ unsure[i] \in Nat
  <1>1. IsFiniteSet(Ids) /\ IsFiniteSet(0..MaxAttempts - 1)
    BY FS_Interval, Bounds DEF Ids
  <1>2. IsFiniteSet(Ids \X (0..MaxAttempts - 1))
    BY <1>1, FS_Product
  <1>3. Making(i) \subseteq Handlers /\ Running(i) \subseteq Workers
        /\ Queued(i) \subseteq Ids \X (0..MaxAttempts - 1)
    BY DEF Making, Running, Queued, TypeOK
  <1>4. IsFiniteSet(Making(i)) /\ IsFiniteSet(Queued(i)) /\ IsFiniteSet(Running(i))
    BY <1>2, <1>3, Distinct, FS_Subset
  <1>5. /\ Cardinality(Making(i)) \in Nat /\ Cardinality(Queued(i)) \in Nat
        /\ Cardinality(Running(i)) \in Nat
    BY <1>4, FS_CardinalityType
  <1> QED BY <1>4, <1>5 DEF Over, TypeOK

(* One handler moves and at most one task is queued or taken from the queue. *)
LEMMA HandlerCalls ==
  ASSUME TypeOK, CallsAreAccounted, TasksAreOfMessages, NEW h \in Handlers,
         \A g \in Handlers \ {h} : handler'[g] = handler[g],
         UNCHANGED <<message, job, taken, unsure>>,
         NEW t, queue' \ {t} = queue \ {t},
         \A i \in Ids : Bit(h \in Making(i)') + Bit(t \in Queued(i)')
                          <= Bit(h \in Making(i)) + Bit(t \in Queued(i))
  PROVE  CallsAreAccounted' /\ TasksAreOfMessages'
  <1>1. TasksAreOfMessages'
    BY DEF TasksAreOfMessages
  <1>2. ASSUME NEW i \in Ids
        PROVE  taken'[i] + Chances(i)' <= IF message'[i] = NoMessage THEN 0 ELSE 1 + unsure'[i]
    <2>1. Making(i)' \ {h} = Making(i) \ {h} /\ Queued(i)' \ {t} = Queued(i) \ {t}
      BY DEF Making, Queued
    <2>2. Running(i)' = Running(i) /\ Over(i)' = Over(i)
      BY DEF Running, Over
    <2>3. /\ Cardinality(Making(i)') \in Nat
          /\ Cardinality(Making(i)') + Bit(h \in Making(i)) = Cardinality(Making(i)) + Bit(h \in Making(i)')
      BY <2>1, ChancesFinite, OneMoved
    <2>4. /\ Cardinality(Queued(i)') \in Nat
          /\ Cardinality(Queued(i)') + Bit(t \in Queued(i)) = Cardinality(Queued(i)) + Bit(t \in Queued(i)')
      BY <2>1, ChancesFinite, OneMoved
    <2>5. /\ Bit(h \in Making(i)) \in Nat /\ Bit(h \in Making(i)') \in Nat
          /\ Bit(t \in Queued(i)) \in Nat /\ Bit(t \in Queued(i)') \in Nat
      BY DEF Bit
    <2>6. taken[i] + Chances(i) <= IF message[i] = NoMessage THEN 0 ELSE 1 + unsure[i]
      BY DEF CallsAreAccounted
    <2>7. Chances(i)' <= Chances(i) /\ Chances(i)' \in Nat /\ Chances(i) \in Nat
      <3> HIDE DEF Bit
      <3> QED BY <2>2, <2>3, <2>4, <2>5, ChancesFinite DEF Chances
    <2> QED BY <2>6, <2>7, ChancesFinite
  <1> QED BY <1>1, <1>2 DEF CallsAreAccounted

(* A handler that keeps the message it has or drops it.                      *)
LEMMA HandlerKeepsCalls ==
  ASSUME TypeOK, CallsAreAccounted, TasksAreOfMessages, NEW h \in Handlers,
         \A g \in Handlers \ {h} : handler'[g] = handler[g],
         UNCHANGED <<message, queue, job, taken, unsure>>,
         handler'[h].id \in {handler[h].id, None}
  PROVE  CallsAreAccounted' /\ TasksAreOfMessages'
  <1>1. \A i \in Ids : Bit(h \in Making(i)') <= Bit(h \in Making(i)) /\ Queued(i)' = Queued(i)
    BY Distinct DEF Bit, Making, Queued, Ids
  <1>2. \A i \in Ids : /\ Bit(h \in Making(i)) \in Nat /\ Bit(h \in Making(i)') \in Nat
                       /\ Bit(0 \in Queued(i)) \in Nat /\ Bit(0 \in Queued(i)') = Bit(0 \in Queued(i))
    BY <1>1 DEF Bit
  <1>3. \A i \in Ids : Bit(h \in Making(i)') + Bit(0 \in Queued(i)')
                          <= Bit(h \in Making(i)) + Bit(0 \in Queued(i))
    BY <1>1, <1>2
  <1> HIDE DEF Bit
  <1> QED BY <1>3, HandlerCalls

LEMMA AcceptCalls ==
  ASSUME TypeOK, TypeOK', CallsAreAccounted, TasksAreOfMessages, NEW h \in Handlers, Accept(h)
  PROVE  CallsAreAccounted' /\ TasksAreOfMessages'
  <1>1. PICK i \in Ids :
          /\ message[i] = NoMessage
          /\ message' = [message EXCEPT
               ![i] = [of |-> handler[h].of, status |-> "accepted", wamid |-> FALSE]]
          /\ Goes(h, "record", i)
    BY DEF Accept
  <1>2. UNCHANGED <<queue, job, taken, unsure>>
    BY DEF Accept, delivery
  <1>3. handler[h].id = None
    BY HandlerTyped DEF Accept, TypeOK
  <1>4. handler'[h].id = i /\ \A g \in Handlers \ {h} : handler'[g] = handler[g]
    <2>1. /\ handler'[h] = [phase |-> "record", of |-> handler[h].of, id |-> i]
          /\ \A g \in Handlers \ {h} : handler'[g] = handler[g]
      BY <1>1, GoesTo
    <2> QED BY <2>1
  <1>5. /\ message'[i].status = "accepted" /\ message'[i] # NoMessage
        /\ \A j \in Ids \ {i} : message'[j] = message[j]
    BY <1>1 DEF TypeOK, NoMessage
  <1>6. TasksAreOfMessages'
    <2> SUFFICES ASSUME NEW w \in Workers, job[w] # IdleJob PROVE message'[job[w].id] # NoMessage
      BY <1>2 DEF TasksAreOfMessages
    <2>1. job[w].id \in Ids /\ message[job[w].id] # NoMessage
      BY JobTyped DEF TasksAreOfMessages
    <2> QED BY <1>5, <2>1
  <1>7. ASSUME NEW j \in Ids
        PROVE  taken'[j] + Chances(j)' <= IF message'[j] = NoMessage THEN 0 ELSE 1 + unsure'[j]
    <2>1. Queued(j)' = Queued(j) /\ Running(j)' = Running(j) /\ Making(j)' \ {h} = Making(j) \ {h}
      BY <1>2, <1>4 DEF Queued, Running, Making
    <2>2. taken[j] + Chances(j) <= IF message[j] = NoMessage THEN 0 ELSE 1 + unsure[j]
      BY DEF CallsAreAccounted
    <2>3. /\ Cardinality(Making(j)') \in Nat
          /\ Cardinality(Making(j)') + Bit(h \in Making(j)) = Cardinality(Making(j)) + Bit(h \in Making(j)')
      BY <2>1, ChancesFinite, OneMoved
    <2>4. CASE j = i
      <3>1. Bit(h \in Making(j)) = 0 /\ Bit(h \in Making(j)') = 1 /\ Over(j)' = 0
        BY <1>3, <1>4, <1>5, <2>4, Distinct DEF Bit, Making, Over, Ids
      <3> QED BY <1>1, <1>2, <1>5, <2>1, <2>2, <2>3, <2>4, <3>1, ChancesFinite DEF Chances
    <2>5. CASE j # i
      <3>1. Bit(h \in Making(j)) = 0 /\ Bit(h \in Making(j)') = 0 /\ Over(j)' = Over(j)
        BY <1>3, <1>4, <1>5, <2>5, Distinct DEF Bit, Making, Over, Ids
      <3> QED BY <1>2, <1>5, <2>1, <2>2, <2>3, <2>5, <3>1, ChancesFinite DEF Chances
    <2> QED BY <2>4, <2>5
  <1> QED BY <1>6, <1>7 DEF CallsAreAccounted

LEMMA EnqueueCalls ==
  ASSUME TypeOK, TypeOK', CallsAreAccounted, TasksAreOfMessages, NEW h \in Handlers, Enqueue(h)
  PROVE  CallsAreAccounted' /\ TasksAreOfMessages'
  <1> DEFINE n == handler[h].id
             t == <<n, 0>>
  <1>1. n \in Ids
    BY HandlerTyped DEF Enqueue, TypeOK
  <1>2. /\ handler' = [handler EXCEPT ![h] = IdleHandler] /\ queue' = queue \cup {t}
        /\ UNCHANGED <<message, job, taken, unsure>>
    BY DEF Enqueue, Answer
  <1>3. handler'[h].id = None
    BY <1>2 DEF TypeOK, IdleHandler
  <1>4. ASSUME NEW i \in Ids
        PROVE  Bit(h \in Making(i)') + Bit(t \in Queued(i)') <= Bit(h \in Making(i)) + Bit(t \in Queued(i))
    <2>1. h \notin Making(i)' /\ t[1] = n
      BY <1>3, Distinct DEF Making, Ids
    <2>2. CASE n = i
      <3>1. h \in Making(i)
        BY <2>2 DEF Making
      <3> QED BY <2>1, <3>1 DEF Bit
    <2>3. CASE n # i
      <3>1. t \notin Queued(i)'
        BY <2>1, <2>3 DEF Queued
      <3> QED BY <2>1, <3>1 DEF Bit
    <2> QED BY <2>2, <2>3
  <1>5. queue' \ {t} = queue \ {t} /\ \A g \in Handlers \ {h} : handler'[g] = handler[g]
    BY <1>2 DEF TypeOK
  <1> HIDE DEF t
  <1> QED BY <1>2, <1>4, <1>5, HandlerCalls

(* One worker moves, and at most one task is queued or taken from the queue. *)
LEMMA WorkerCalls ==
  ASSUME TypeOK, TypeOK', CallsAreAccounted, NEW w \in Workers,
         \A v \in Workers \ {w} : job'[v] = job[v], UNCHANGED handler,
         NEW t, queue' \ {t} = queue \ {t},
         \A i \in Ids :
            /\ message'[i] = NoMessage <=> message[i] = NoMessage
            /\ message[i] = NoMessage => unsure'[i] = unsure[i]
            /\ taken'[i] + Bit(t \in Queued(i)') + Bit(w \in Running(i)') + Over(i)' + unsure[i]
                 <= taken[i] + Bit(t \in Queued(i)) + Bit(w \in Running(i)) + Over(i) + unsure'[i]
  PROVE  CallsAreAccounted'
  <1> SUFFICES ASSUME NEW i \in Ids
               PROVE  taken'[i] + Chances(i)' <= IF message'[i] = NoMessage THEN 0 ELSE 1 + unsure'[i]
    BY DEF CallsAreAccounted
  <1>1. Making(i)' = Making(i) /\ Queued(i)' \ {t} = Queued(i) \ {t} /\ Running(i)' \ {w} = Running(i) \ {w}
    BY DEF Making, Queued, Running
  <1>2. /\ Cardinality(Queued(i)') \in Nat
        /\ Cardinality(Queued(i)') + Bit(t \in Queued(i)) = Cardinality(Queued(i)) + Bit(t \in Queued(i)')
    BY <1>1, ChancesFinite, OneMoved
  <1>3. /\ Cardinality(Running(i)') \in Nat
        /\ Cardinality(Running(i)') + Bit(w \in Running(i)) = Cardinality(Running(i)) + Bit(w \in Running(i)')
    BY <1>1, ChancesFinite, OneMoved
  <1>4. /\ Bit(w \in Running(i)) \in Nat /\ Bit(w \in Running(i)') \in Nat
        /\ Bit(t \in Queued(i)) \in Nat /\ Bit(t \in Queued(i)') \in Nat
    BY DEF Bit
  <1>5. taken[i] + Chances(i) <= IF message[i] = NoMessage THEN 0 ELSE 1 + unsure[i]
    BY DEF CallsAreAccounted
  <1>6. Over(i)' \in Nat /\ taken'[i] \in Nat /\ unsure'[i] \in Nat
    BY DEF Over, TypeOK
  <1>7. taken'[i] + Chances(i)' + unsure[i] <= taken[i] + Chances(i) + unsure'[i]
        /\ Chances(i) \in Nat /\ Chances(i)' \in Nat
    <2> HIDE DEF Bit
    <2> QED BY <1>1, <1>2, <1>3, <1>4, <1>6, ChancesFinite DEF Chances
  <1> QED BY <1>5, <1>6, <1>7, ChancesFinite

LEMMA TakeCalls ==
  ASSUME TypeOK, TypeOK', CallsAreAccounted, TasksAreOfMessages, NEW w \in Workers, Take(w)
  PROVE  CallsAreAccounted' /\ TasksAreOfMessages'
  <1>1. PICK t \in queue :
          /\ queue' = queue \ {t}
          /\ \/ job' = job
             \/ job' = [job EXCEPT ![w] = [phase |-> "loaded", id |-> t[1], tries |-> t[2]]]
    BY DEF Take
  <1>2. UNCHANGED <<handler, message, taken, unsure>> /\ job[w].id = None
    BY DEF Take, requests, IdleJob
  <1>3. t[1] \in Ids
    BY DEF TypeOK
  <1>4. (job'[w] = job[w] \/ job'[w].id = t[1]) /\ \A v \in Workers \ {w} : job'[v] = job[v]
    BY <1>1 DEF TypeOK
  <1>5. message[t[1]] # NoMessage
    <2>1. t \in Queued(t[1])
      BY DEF Queued
    <2>2. Cardinality(Queued(t[1])) # 0
      BY <1>3, <2>1, ChancesFinite, FS_EmptySet
    <2> QED BY <1>3, <2>2, ChancesFinite DEF CallsAreAccounted, Chances
  <1>6. ASSUME NEW i \in Ids
        PROVE  Bit(t \in Queued(i)') + Bit(w \in Running(i)') <= Bit(t \in Queued(i)) + Bit(w \in Running(i))
    <2>1. t \notin Queued(i)'
      BY <1>1 DEF Queued
    <2>2. CASE t[1] = i
      <3>1. t \in Queued(i)
        BY <2>2 DEF Queued
      <3> QED BY <2>1, <3>1 DEF Bit
    <2>3. CASE t[1] # i
      <3>1. w \notin Running(i)'
        BY <1>2, <1>4, <2>3, Distinct DEF Running, Ids
      <3> QED BY <2>1, <3>1 DEF Bit
    <2> QED BY <2>2, <2>3
  <1>7. ASSUME NEW i \in Ids
        PROVE  taken'[i] + Bit(t \in Queued(i)') + Bit(w \in Running(i)') + Over(i)' + unsure[i]
                 <= taken[i] + Bit(t \in Queued(i)) + Bit(w \in Running(i)) + Over(i) + unsure'[i]
    <2>1. Over(i)' = Over(i) /\ taken'[i] = taken[i] /\ unsure'[i] = unsure[i]
      BY <1>2 DEF Over
    <2>2. /\ Bit(w \in Running(i)) \in Nat /\ Bit(w \in Running(i)') \in Nat
          /\ Bit(t \in Queued(i)) \in Nat /\ Bit(t \in Queued(i)') \in Nat
      BY DEF Bit
    <2> HIDE DEF Bit
    <2> QED BY <1>6, <2>1, <2>2, ChancesFinite
  <1>8. CallsAreAccounted'
    <2>1. queue' \ {t} = queue \ {t}
      BY <1>1
    <2> HIDE DEF Bit
    <2> QED BY <1>2, <1>4, <1>7, <2>1, WorkerCalls
  <1>9. TasksAreOfMessages'
    BY <1>2, <1>4, <1>5 DEF TasksAreOfMessages
  <1> QED BY <1>8, <1>9

(* The other steps of a task, of a message i: what they queue, where they     *)
(* leave the task, and what they count.                                       *)
LEMMA TaskCalls ==
  ASSUME TypeOK, TypeOK', CallsAreAccounted, TasksAreOfMessages, NEW w \in Workers,
         NEW i \in Ids, job[w] # IdleJob, job[w].id = i, NEW t, t[1] = i,
         job'[w].id \in {i, None}, \A v \in Workers \ {w} : job'[v] = job[v],
         UNCHANGED handler, queue' = queue \/ queue' = queue \cup {t},
         \A j \in Ids \ {i} : taken'[j] = taken[j] /\ unsure'[j] = unsure[j] /\ message'[j] = message[j],
         message'[i] # NoMessage, job'[w] # IdleJob => job'[w].id = i,
         taken'[i] + Bit(queue' # queue) + Bit(w \in Running(i)') + Over(i)' + unsure[i]
           <= taken[i] + Bit(w \in Running(i)) + Over(i) + unsure'[i]
  PROVE  CallsAreAccounted' /\ TasksAreOfMessages'
  <1>1. message[i] # NoMessage
    BY DEF TasksAreOfMessages
  <1>2. TasksAreOfMessages'
    <2> SUFFICES ASSUME NEW v \in Workers, job'[v] # IdleJob PROVE message'[job'[v].id] # NoMessage
      BY DEF TasksAreOfMessages
    <2>1. CASE v = w
      BY <2>1
    <2>2. CASE v # w
      <3>1. job[v] # IdleJob /\ job[v].id \in Ids
        BY <2>2, JobTyped
      <3> QED BY <2>2, <3>1 DEF TasksAreOfMessages
    <2> QED BY <2>1, <2>2
  <1>3. ASSUME NEW j \in Ids
        PROVE  taken'[j] + Bit(t \in Queued(j)') + Bit(w \in Running(j)') + Over(j)' + unsure[j]
                 <= taken[j] + Bit(t \in Queued(j)) + Bit(w \in Running(j)) + Over(j) + unsure'[j]
    <2>1. CASE j = i
      <3>1. t \in Queued(i)' /\ t \notin Queued(i) => queue' # queue
        BY DEF Queued
      <3>2. queue' # queue => t \in Queued(i)'
        BY DEF Queued
      <3>3. t \in Queued(i) => queue' = queue
        BY DEF Queued
      <3>4. Bit(t \in Queued(i)') <= Bit(t \in Queued(i)) + Bit(queue' # queue)
        BY <3>1 DEF Bit
      <3>5. /\ Bit(w \in Running(i)) \in Nat /\ Bit(w \in Running(i)') \in Nat /\ Bit(queue' # queue) \in Nat
            /\ Bit(t \in Queued(i)) \in Nat /\ Bit(t \in Queued(i)') \in Nat
            /\ Over(i)' \in Nat /\ taken'[i] \in Nat /\ unsure'[i] \in Nat
        BY DEF Bit, Over, TypeOK
      <3> HIDE DEF Bit
      <3> QED BY <2>1, <3>4, <3>5, ChancesFinite
    <2>2. CASE j # i
      <3>1. t \notin Queued(j) /\ t \notin Queued(j)'
        BY <2>2 DEF Queued
      <3>2. w \notin Running(j) /\ w \notin Running(j)'
        BY <2>2, Distinct DEF Running, Ids
      <3>3. Over(j)' = Over(j) /\ taken'[j] = taken[j] /\ unsure'[j] = unsure[j]
        BY <2>2 DEF Over
      <3> QED BY <3>1, <3>2, <3>3, ChancesFinite DEF Bit
    <2> QED BY <2>1, <2>2
  <1>4. queue' \ {t} = queue \ {t}
    OBVIOUS
  <1>5. \A j \in Ids : /\ message'[j] = NoMessage <=> message[j] = NoMessage
                       /\ message[j] = NoMessage => unsure'[j] = unsure[j]
    BY <1>1
  <1> HIDE DEF Bit
  <1> QED BY <1>2, <1>3, <1>4, <1>5, WorkerCalls

(* A task that goes to another phase keeps its message. *)
LEMMA JobKept ==
  ASSUME TypeOK, NEW w \in Workers, job[w] # IdleJob, NEW p, job' = [job EXCEPT ![w].phase = p]
  PROVE  job'[w].id = job[w].id /\ job'[w].phase = p /\ \A v \in Workers \ {w} : job'[v] = job[v]
  <1>1. PICK o \in {"loaded", "called", "failing"}, i \in Ids, n \in 0..MaxAttempts - 1 :
          job[w] = [phase |-> o, id |-> i, tries |-> n]
    BY JobIs
  <1>2. [job[w] EXCEPT !.phase = p] = [phase |-> p, id |-> i, tries |-> n]
    BY <1>1
  <1> QED BY <1>1, <1>2 DEF TypeOK

LEMMA JobDone ==
  ASSUME TypeOK, NEW w \in Workers, job' = [job EXCEPT ![w] = IdleJob]
  PROVE  job'[w] = IdleJob /\ job'[w].id = None /\ \A v \in Workers \ {w} : job'[v] = job[v]
  BY DEF TypeOK, IdleJob

LEMMA AgainGoes ==
  ASSUME TypeOK, NEW w \in Workers, job[w] # IdleJob, Again(w)
  PROVE  /\ \A v \in Workers \ {w} : job'[v] = job[v]
         /\ \/ queue' = queue \cup {<<job[w].id, job[w].tries + 1>>} /\ job'[w] = IdleJob
            \/ queue' = queue /\ job'[w].id = job[w].id /\ job'[w].phase = "failing"
  BY JobKept, JobDone DEF Again

LEMMA WorkCalls ==
  ASSUME TypeOK, TypeOK', CallsAreAccounted, TasksAreOfMessages, NEW w \in Workers,
         \/ NotTaken(w) \/ Terminal(w) \/ Call(w) \/ AnswerLost(w) \/ Commit(w) \/ Fail(w)
         \/ WorkerDies(w) \/ Redeliver(w)
  PROVE  CallsAreAccounted' /\ TasksAreOfMessages'
  <1>1. job[w] # IdleJob
    BY DEF NotTaken, Terminal, Call, AnswerLost, Commit, Fail, WorkerDies, Redeliver, IdleJob
  <1>0. PICK i \in Ids : i = job[w].id
    BY <1>1, JobTyped
  <1>2. i = job[w].id /\ message[i] # NoMessage /\ message[i] \in MessageType
    BY <1>0, <1>1 DEF TasksAreOfMessages, TypeOK
  <1>3. UNCHANGED handler /\ IdleJob.id = None
    BY DEF NotTaken, Terminal, Call, AnswerLost, Commit, Fail, WorkerDies, Redeliver, requests, IdleJob
  <1>4. taken[i] \in Nat /\ unsure[i] \in Nat /\ Over(i) \in {0, 1}
    BY <1>2, ChancesFinite
  <1>13. PICK t : t[1] = i
    <2>1. <<i, 0>>[1] = i
      OBVIOUS
    <2> QED BY <2>1
  <1>5. CASE NotTaken(w)
    <2>1. /\ w \in Running(i) /\ UNCHANGED <<message, taken, unsure>> /\ Over(i)' = Over(i)
      BY <1>2, <1>5 DEF NotTaken, Running, Over
    <2>2. CASE queue' = queue \cup {<<i, job[w].tries + 1>>} /\ job'[w] = IdleJob
      <3>1. w \notin Running(i)' /\ \A v \in Workers \ {w} : job'[v] = job[v]
        BY <1>1, <1>2, <1>3, <1>5, <2>2, AgainGoes, Distinct DEF Running, NotTaken, Ids
      <3>2. taken'[i] + Bit(queue' # queue) + Bit(w \in Running(i)') + Over(i)' + unsure[i]
              <= taken[i] + Bit(w \in Running(i)) + Over(i) + unsure'[i]
        BY <1>4, <2>1, <3>1 DEF Bit
      <3>3. PICK u : u[1] = i /\ queue' = queue \cup {u}
        BY <2>2
      <3> HIDE DEF Bit
      <3> QED BY <1>1, <1>2, <1>3, <2>1, <2>2, <3>1, <3>2, <3>3, TaskCalls
    <2>3. CASE queue' = queue /\ job'[w].id = i /\ job'[w].phase = "failing"
      <3>1. \A v \in Workers \ {w} : job'[v] = job[v]
        BY <1>1, <1>5, AgainGoes DEF NotTaken
      <3>2. taken'[i] + Bit(queue' # queue) + Bit(w \in Running(i)') + Over(i)' + unsure[i]
              <= taken[i] + Bit(w \in Running(i)) + Over(i) + unsure'[i]
        BY <1>4, <2>1, <2>3 DEF Bit
      <3> HIDE DEF Bit
      <3> QED BY <1>1, <1>2, <1>3, <1>13, <2>1, <2>3, <3>1, <3>2, TaskCalls
    <2> QED BY <1>1, <1>2, <1>5, <2>2, <2>3, AgainGoes DEF NotTaken
  <1>6. CASE Terminal(w)
    <2>1. /\ w \in Running(i) /\ UNCHANGED <<message, queue, taken, unsure>> /\ Over(i)' = Over(i)
          /\ job'[w].id = i /\ \A v \in Workers \ {w} : job'[v] = job[v]
      BY <1>1, <1>2, <1>6, JobKept DEF Terminal, Running, Over
    <2>2. taken'[i] + Bit(queue' # queue) + Bit(w \in Running(i)') + Over(i)' + unsure[i]
            <= taken[i] + Bit(w \in Running(i)) + Over(i) + unsure'[i]
      BY <1>4, <2>1 DEF Bit
    <2> HIDE DEF Bit
    <2> QED BY <1>1, <1>2, <1>3, <1>13, <2>1, <2>2, TaskCalls
  <1>7. CASE Call(w)
    <2>1. /\ w \in Running(i) /\ UNCHANGED <<message, queue, unsure>> /\ Over(i)' = Over(i)
          /\ job'[w].id = i /\ \A v \in Workers \ {w} : job'[v] = job[v]
          /\ job'[w].phase = "called"
      BY <1>1, <1>2, <1>7, JobKept DEF Call, Running, Over
    <2>2. w \notin Running(i)' /\ taken'[i] = taken[i] + 1 /\ \A j \in Ids \ {i} : taken'[j] = taken[j]
      BY <1>2, <1>7, <2>1 DEF Running, Call, TypeOK
    <2>3. taken'[i] + Bit(queue' # queue) + Bit(w \in Running(i)') + Over(i)' + unsure[i]
            <= taken[i] + Bit(w \in Running(i)) + Over(i) + unsure'[i]
      BY <1>4, <2>1, <2>2 DEF Bit
    <2> HIDE DEF Bit
    <2> QED BY <1>1, <1>2, <1>3, <1>13, <2>1, <2>2, <2>3, TaskCalls
  <1>8. CASE AnswerLost(w)
    <2>1. /\ UNCHANGED <<message, taken>> /\ Over(i)' = Over(i)
          /\ unsure'[i] = unsure[i] + 1 /\ \A j \in Ids \ {i} : unsure'[j] = unsure[j]
      BY <1>2, <1>8 DEF AnswerLost, Over, TypeOK
    <2>0. /\ \A j \in Ids \ {i} : taken'[j] = taken[j] /\ unsure'[j] = unsure[j] /\ message'[j] = message[j]
          /\ message'[i] # NoMessage
      BY <1>2, <2>1
    <2>2. CASE queue' = queue \cup {<<i, job[w].tries + 1>>} /\ job'[w] = IdleJob
      <3>1. w \notin Running(i)' /\ \A v \in Workers \ {w} : job'[v] = job[v]
        BY <1>1, <1>2, <1>3, <1>8, <2>2, AgainGoes, Distinct DEF Running, AnswerLost, Ids
      <3>2. taken'[i] + Bit(queue' # queue) + Bit(w \in Running(i)') + Over(i)' + unsure[i]
              <= taken[i] + Bit(w \in Running(i)) + Over(i) + unsure'[i]
        BY <1>4, <2>1, <3>1 DEF Bit
      <3> HIDE DEF Bit
      <3>3. PICK u : u[1] = i /\ queue' = queue \cup {u}
        BY <2>2
      <3>4. job'[w].id \in {i, None} /\ (job'[w] # IdleJob => job'[w].id = i)
        BY <1>3, <2>2
      <3>5. job[w].id = i /\ UNCHANGED handler
        BY <1>2, <1>3
      <3> QED BY <1>1, <2>0, <3>1, <3>2, <3>3, <3>4, <3>5, TaskCalls
    <2>3. CASE queue' = queue /\ job'[w].id = i /\ job'[w].phase = "failing"
      <3>1. \A v \in Workers \ {w} : job'[v] = job[v]
        BY <1>1, <1>8, AgainGoes DEF AnswerLost
      <3>2. taken'[i] + Bit(queue' # queue) + Bit(w \in Running(i)') + Over(i)' + unsure[i]
              <= taken[i] + Bit(w \in Running(i)) + Over(i) + unsure'[i]
        BY <1>4, <2>1, <2>3 DEF Bit
      <3> HIDE DEF Bit
      <3> QED BY <1>1, <1>2, <1>3, <1>13, <2>1, <2>3, <3>1, <3>2, TaskCalls
    <2> QED BY <1>1, <1>2, <1>8, <2>2, <2>3, AgainGoes DEF AnswerLost
  <1>9. CASE Commit(w)
    <2>1. /\ UNCHANGED <<queue, taken, unsure>> /\ job'[w] = IdleJob /\ w \notin Running(i)
          /\ \A v \in Workers \ {w} : job'[v] = job[v]
      BY <1>2, <1>9, JobDone DEF Commit, Running
    <2>2. /\ message'[i].wamid = TRUE /\ message'[i].status = message[i].status
          /\ \A j \in Ids \ {i} : message'[j] = message[j]
      BY <1>2, <1>9 DEF Commit, TypeOK, MessageType
    <2>3. message'[i] # NoMessage /\ Over(i)' = Over(i) /\ w \notin Running(i)'
      BY <1>2, <1>3, <2>1, <2>2, Distinct DEF NoMessage, Over, Running, Ids
    <2>4. taken'[i] + Bit(queue' # queue) + Bit(w \in Running(i)') + Over(i)' + unsure[i]
            <= taken[i] + Bit(w \in Running(i)) + Over(i) + unsure'[i]
      BY <1>4, <2>1, <2>3 DEF Bit
    <2> HIDE DEF Bit
    <2> QED BY <1>1, <1>2, <1>3, <1>13, <2>1, <2>2, <2>3, <2>4, TaskCalls
  <1>10. CASE Fail(w)
    <2>1. /\ UNCHANGED <<queue, taken, unsure>> /\ job'[w] = IdleJob /\ w \in Running(i)
          /\ \A v \in Workers \ {w} : job'[v] = job[v]
      BY <1>2, <1>10, JobDone DEF Fail, Running
    <2>2. message'[i].status = "failed" /\ \A j \in Ids \ {i} : message'[j] = message[j]
      BY <1>2, <1>10 DEF Fail, TypeOK, MessageType
    <2>3. message'[i] # NoMessage /\ Over(i)' = 1 /\ w \notin Running(i)'
      BY <1>2, <1>3, <2>1, <2>2, Distinct DEF NoMessage, Over, Running, Ids
    <2>4. taken'[i] + Bit(queue' # queue) + Bit(w \in Running(i)') + Over(i)' + unsure[i]
            <= taken[i] + Bit(w \in Running(i)) + Over(i) + unsure'[i]
      BY <1>4, <2>1, <2>3 DEF Bit
    <2> HIDE DEF Bit
    <2> QED BY <1>1, <1>2, <1>3, <1>13, <2>1, <2>2, <2>3, <2>4, TaskCalls
  <1>11. CASE WorkerDies(w) \/ Redeliver(w)
    <2>1. /\ UNCHANGED <<message, taken>> /\ Over(i)' = Over(i)
          /\ unsure'[i] = unsure[i] + 1 /\ \A j \in Ids \ {i} : unsure'[j] = unsure[j]
          /\ queue' = queue \cup {<<i, job[w].tries>>}
      BY <1>2, <1>11 DEF WorkerDies, Redeliver, Over, TypeOK
    <2>2. job'[w] \in {job[w], IdleJob} /\ \A v \in Workers \ {w} : job'[v] = job[v]
      BY <1>11, JobDone DEF WorkerDies, Redeliver
    <2>3. w \in Running(i)' => w \in Running(i)
      BY <1>2, <1>3, <2>2, Distinct DEF Running, Ids
    <2>4. taken'[i] + Bit(queue' # queue) + Bit(w \in Running(i)') + Over(i)' + unsure[i]
            <= taken[i] + Bit(w \in Running(i)) + Over(i) + unsure'[i]
      BY <1>4, <2>1, <2>3 DEF Bit
    <2>5. /\ \A j \in Ids \ {i} : taken'[j] = taken[j] /\ unsure'[j] = unsure[j] /\ message'[j] = message[j]
          /\ message'[i] # NoMessage
      BY <1>2, <2>1
    <2>6. /\ job'[w].id \in {i, None} /\ (job'[w] # IdleJob => job'[w].id = i)
      BY <1>2, <1>3, <2>2
    <2>7. PICK u : u[1] = i /\ queue' = queue \cup {u}
      BY <2>1
    <2> HIDE DEF Bit
    <2> QED BY <1>1, <1>2, <1>3, <2>2, <2>4, <2>5, <2>6, <2>7, TaskCalls
  <1> QED BY <1>5, <1>6, <1>7, <1>8, <1>9, <1>10, <1>11

(* The requests that change no message's place: one handler moves, if any.   *)
LEMMA RequestCalls ==
  ASSUME TypeOK, CallsAreAccounted, TasksAreOfMessages,
         \/ \E k \in Sends : Ask(k) \/ TimeOut(k) \/ Lapse(k)
         \/ \E h \in Handlers :
              \/ Claim(h) \/ Look(h) \/ Refuse(h) \/ Complete(h) \/ CompleteFails(h)
              \/ Unavailable(h) \/ HandlerDies(h)
         \/ UNCHANGED vars
  PROVE  CallsAreAccounted' /\ TasksAreOfMessages'
  <1>1. UNCHANGED <<message, queue, job, taken, unsure>>
    BY DEF Ask, TimeOut, Lapse, Claim, Look, Refuse, Complete, CompleteFails, Unavailable,
       HandlerDies, vars, delivery
  <1>2. CASE UNCHANGED handler
    BY <1>1, <1>2 DEF CallsAreAccounted, TasksAreOfMessages, Chances, Making, Queued, Running, Over
  <1>3. CASE \E k \in Sends : Ask(k)
    <2>1. PICK k \in Sends, h \in Handlers :
            handler' = [handler EXCEPT ![h] = [phase |-> "begin", of |-> k, id |-> None]]
      BY <1>3 DEF Ask
    <2>2. handler'[h].id = None /\ \A g \in Handlers \ {h} : handler'[g] = handler[g]
      BY <2>1 DEF TypeOK
    <2> QED BY <1>1, <2>2, HandlerKeepsCalls
  <1>4. ASSUME NEW h \in Handlers, NEW p, Goes(h, p, None) \/ Goes(h, p, handler[h].id)
        PROVE  CallsAreAccounted' /\ TasksAreOfMessages'
    <2>1. /\ \E n \in {None, handler[h].id} :
               handler'[h] = [phase |-> p, of |-> handler[h].of, id |-> n]
          /\ \A g \in Handlers \ {h} : handler'[g] = handler[g]
      BY <1>4, GoesTo
    <2>2. handler'[h].id \in {None, handler[h].id}
      BY <2>1
    <2> QED BY <1>1, <2>1, <2>2, HandlerKeepsCalls
  <1>5. ASSUME NEW h \in Handlers, NEW a, Answer(h, a)
        PROVE  CallsAreAccounted' /\ TasksAreOfMessages'
    <2>1. handler'[h].id = None /\ \A g \in Handlers \ {h} : handler'[g] = handler[g]
      BY <1>5 DEF Answer, TypeOK, IdleHandler
    <2> QED BY <1>1, <2>1, HandlerKeepsCalls
  <1>6. CASE \E h \in Handlers : Claim(h) \/ Complete(h) \/ CompleteFails(h)
    BY <1>4, <1>6 DEF Claim, Complete, CompleteFails
  <1>7. CASE \E h \in Handlers : Refuse(h) \/ Unavailable(h) \/ HandlerDies(h)
    BY <1>5, <1>7 DEF Refuse, Unavailable, HandlerDies
  <1>8. CASE \E h \in Handlers : Look(h)
    BY <1>4, <1>5, <1>8 DEF Look
  <1> QED BY <1>2, <1>3, <1>6, <1>7, <1>8 DEF TimeOut, Lapse, vars

LEMMA NextCalls ==
  TypeOK /\ TypeOK' /\ CallsAreAccounted /\ TasksAreOfMessages /\ [Next]_vars =>
    CallsAreAccounted' /\ TasksAreOfMessages'
  BY AcceptCalls, EnqueueCalls, TakeCalls, WorkCalls, RequestCalls DEF Next, Serve, Run

LEMMA InitCalls == Init => CallsAreAccounted /\ TasksAreOfMessages
  <1> SUFFICES ASSUME Init PROVE CallsAreAccounted /\ TasksAreOfMessages
    OBVIOUS
  <1>1. TasksAreOfMessages
    BY DEF Init, TasksAreOfMessages
  <1>2. ASSUME NEW i \in Ids PROVE taken[i] + Chances(i) <= 0 /\ message[i] = NoMessage
    <2>1. Making(i) = {} /\ Queued(i) = {} /\ Running(i) = {}
      BY Distinct DEF Init, Making, Queued, Running, IdleHandler, IdleJob, Ids
    <2>2. Over(i) = 0 /\ taken[i] = 0 /\ message[i] = NoMessage
      BY DEF Init, Over, NoMessage
    <2> QED BY <2>1, <2>2, FS_EmptySet DEF Chances
  <1> QED BY <1>1, <1>2 DEF CallsAreAccounted

-----------------------------------------------------------------------------
(* The types, the messages of the handlers, and the two accounts that carry  *)
(* the next theorems, for every number of sends, handlers and workers.       *)
THEOREM Inductive == Spec => []IInv
  <1>1. Init => IInv
    BY InitClaimed, InitCalls DEF IInv
  <1>2. IInv /\ [Next]_vars => IInv'
    BY NextClaimed, NextCalls DEF IInv, Claimed
  <1> QED BY <1>1, <1>2, PTL DEF Spec

(* A send has one message, and one more for each expiry of its key and each  *)
(* request that found the key gone between its SET and its GET, no more.     *)
THEOREM MessagesPerKey == Spec => []MessagesAreAccounted
  <1>1. IInv => MessagesAreAccounted
    <2> SUFFICES ASSUME IInv, NEW k \in Sends
                 PROVE  Cardinality(Of(k)) <= 1 + lapses[k] + unclaimed[k]
      BY DEF MessagesAreAccounted
    <2>1. Cardinality(Of(k)) + Cardinality(Serving(k)) <= Held(k) + lapses[k] + unclaimed[k]
      BY DEF IInv, Claimed, ClaimsAreAccounted
    <2>2. /\ Held(k) \in {0, 1} /\ lapses[k] \in Nat /\ unclaimed[k] \in Nat
          /\ Cardinality(Of(k)) \in Nat /\ Cardinality(Serving(k)) \in Nat
      BY HeldOnce, CountsFinite, Bounds DEF IInv, Claimed, TypeOK
    <2> HIDE DEF Held
    <2> QED BY <2>1, <2>2
  <1> QED BY <1>1, Inductive, PTL

(* The channel takes a message once, and once more for each call nobody      *)
(* knows the end of and each second delivery, no more; what reads failed     *)
(* with none of those was never taken (send_service.deliver, send_message).  *)
THEOREM TakesAreAccounted == Spec => []TakenIsAccounted
  <1>1. IInv => TakenIsAccounted
    <2> SUFFICES ASSUME IInv, NEW i \in Ids
                 PROVE  /\ taken[i] <= 1 + unsure[i]
                        /\ message[i].status = "failed" /\ unsure[i] = 0 => taken[i] = 0
      BY DEF TakenIsAccounted
    <2>1. TypeOK
      BY DEF IInv, Claimed
    <2>2. taken[i] + Chances(i) <= 1 + unsure[i]
      BY <2>1, ChancesFinite DEF IInv, CallsAreAccounted, Chances
    <2>3. message[i].status = "failed" => Chances(i) >= 1
      BY <2>1, ChancesFinite DEF Chances, Over
    <2>4. Chances(i) \in Nat
      BY <2>1, ChancesFinite DEF Chances
    <2> QED BY <2>1, <2>2, <2>3, <2>4, ChancesFinite
  <1> QED BY <1>1, Inductive, PTL
===============================================================================
