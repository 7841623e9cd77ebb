----------------------- MODULE CampaignDispatchProofs -----------------------
(***************************************************************************)
(* Theorems about CampaignDispatch for every roster, batch size, number of *)
(* workers, attempt cap and bound.                                         *)
(***************************************************************************)
EXTENDS CampaignDispatch, TLAPS, FiniteSetTheorems

USE DEF Recipients, Messages, Batches, Due, Causes

-----------------------------------------------------------------------------
(* Operators the actions are built from.                                   *)

\* A bounded set of numbers that is not empty has a largest one.
LEMMA MaxIsLargest ==
    ASSUME NEW n \in Nat, NEW S \in SUBSET (0 .. n), S # {}
    PROVE  Max(S) \in S /\ \A x \in S : x <= Max(S)
<1> DEFINE Above == {k \in Nat : \A x \in S : x <= k}
<1>1. n \in Above
  OBVIOUS
<1>2. \E k \in Above : \A j \in Above : k <= j
  <2>1. IsWellFoundedOn(OpToRel(<, Nat), Nat)
    BY NatLessThanWellFounded
  <2>2. Above \subseteq Nat /\ Above # {}
    BY <1>1
  <2> HIDE DEF Above
  <2>3. PICK k \in Above : \A j \in Above : ~ (<<j, k>> \in OpToRel(<, Nat))
    BY <2>1, <2>2, WFMin
  <2>4. \A j \in Above : ~ (j < k)
    BY <2>2, <2>3 DEF OpToRel
  <2> QED
    BY <2>2, <2>4
<1>3. PICK k \in Above : \A j \in Above : k <= j
  BY <1>2
<1>4. k \in S
  <2>1. SUFFICES ASSUME k \notin S PROVE FALSE
    OBVIOUS
  <2>2. \A x \in S : x < k
    BY <1>3, <2>1
  <2>3. k - 1 \in Nat
    <3>1. PICK x \in S : TRUE
      OBVIOUS
    <3> QED
      BY <1>3, <2>2, <3>1
  <2>4. \A x \in S : x <= k - 1
    BY <1>3, <2>2
  <2>5. k - 1 \in Above
    BY <2>3, <2>4
  <2> QED
    BY <1>3, <2>5
<1>5. \E x \in S : \A y \in S : x >= y
  BY <1>3, <1>4
<1>6. Max(S) \in S /\ \A y \in S : Max(S) >= y
  BY <1>5 DEF Max
<1> QED
  BY <1>6

\* A recipient that is planned goes into a checkpoint that did not exist.
LEMMA SliceIsNew ==
    ASSUME TypeOK, NEW U \in SUBSET Recipients, NEW r \in U
    PROVE  /\ Slice(U, r) \in Nat \ {0}
           /\ \A b \in Batches : batch[b] # "none" => b < Slice(U, r)
<1> DEFINE Taken    == {b \in Batches : batch[b] # "none"}
           last     == Max({0} \cup Taken)
           Before   == {x \in U : x < r}
           position == Cardinality(Before)
<1>1. last \in 0 .. MaxBatches /\ \A b \in Taken : b <= last
  <2>1. MaxBatches \in Nat
    BY BoundsAssumption
  <2>2. {0} \cup Taken \in SUBSET (0 .. MaxBatches) /\ {0} \cup Taken # {}
    BY <2>1
  <2> HIDE DEF Taken
  <2>3. last \in {0} \cup Taken /\ \A b \in {0} \cup Taken : b <= last
    BY <2>1, <2>2, MaxIsLargest
  <2> QED
    BY <2>2, <2>3
<1>2. position \in Nat
  <2>1. IsFiniteSet(1 .. NumRecipients)
    BY BoundsAssumption, FS_Interval
  <2>2. Before \in SUBSET (1 .. NumRecipients)
    OBVIOUS
  <2>3. IsFiniteSet(Before)
    BY <2>1, <2>2, FS_Subset
  <2> QED
    BY <2>3, FS_CardinalityType
<1>3. position \div BatchSize \in Nat
  BY <1>2, BoundsAssumption
<1>4. Slice(U, r) = last + 1 + (position \div BatchSize)
  BY DEF Slice
<1> HIDE DEF last, position
<1> QED
  BY <1>1, <1>3, <1>4, BoundsAssumption

-----------------------------------------------------------------------------
(* Types.                                                                  *)

\* The bounds are numbers.
LEMMA Bounds ==
    /\ NumRecipients \in Nat \ {0}
    /\ MaxMessages \in Nat
    /\ MaxBatches \in Nat
    /\ MaxFaults \in Nat
    /\ MaxPauses \in Nat
    /\ MaxCancels \in Nat
    /\ MaxReruns \in Nat
    /\ MaxOverlaps \in Nat
BY BoundsAssumption

\* The idle request is a request; so is what a check reads.
LEMMA NoRequestType == NoRequest \in Request
BY DEF NoRequest, Request, Columns

\* The initial states are well typed.
LEMMA InitTypeOK == Init => TypeOK
<1> SUFFICES ASSUME Init PROVE TypeOK
  OBVIOUS
<1>1. asked \in [Requests -> Request] /\ scans \in [Scanners -> SUBSET RetryRow]
  BY NoRequestType DEF Init
<1>2. /\ retries \in [Recipients -> RetryRows]
      /\ \A r \in Recipients : retries[r].pending \subseteq 1 .. retries[r].written
  BY DEF Init, RetryRows
<1>3. rec \in [Recipients -> Recipient]
  <2>1. Untouched \in Recipient
    BY Bounds DEF Untouched, Recipient, RecipientStatus, OWED
  <2> QED
    BY <2>1 DEF Init
<1>4. ledger \in [Messages -> Message] /\ batch \in [Batches -> BatchStatus]
  BY Bounds DEF Init, Message, BatchStatus
<1>5. campaign \in CampaignStatus
  BY DEF Init, CampaignStatus
<1>6. work \in [Workers -> Job]
  <2>1. Idle \in Job
    BY Bounds DEF Idle, Job, Step, CampaignStatus, DISPATCHABLE
  <2> QED
    BY <2>1 DEF Init
<1>7. /\ accepted \in 0 .. MaxMessages
      /\ faults \in 0 .. MaxFaults
      /\ pauses \in 0 .. MaxPauses
      /\ cancels \in 0 .. MaxCancels
      /\ reruns \in 0 .. MaxReruns
      /\ overlaps \in 0 .. MaxOverlaps
  BY Bounds DEF Init
<1>8. /\ planQ \in Nat
      /\ fanQ \in [Batches -> Nat]
      /\ sendQ \in [Recipients -> Nat]
      /\ calls \in [Recipients -> Nat]
  BY DEF Init
<1> QED
  BY <1>1, <1>2, <1>3, <1>4, <1>5, <1>6, <1>7, <1>8 DEF TypeOK

\* A fault is counted, within its bound.
LEMMA FaultType == ASSUME TypeOK, NEW k, Fault(k) PROVE faults' \in 0 .. MaxFaults
BY Bounds DEF TypeOK, Fault

\* Enqueueing the control task, or dying before, keeps the types of what it writes.
LEMMA EnqueuePlanType ==
    ASSUME TypeOK, EnqueuePlan PROVE planQ' \in Nat /\ faults' \in 0 .. MaxFaults
BY FaultType DEF EnqueuePlan, TypeOK

\* An overlap is counted, within its bound.
LEMMA OverlapType == ASSUME TypeOK, NEW g, Overlap(g) PROVE overlaps' \in 0 .. MaxOverlaps
BY Bounds DEF TypeOK, Overlap

\* A request that is over leaves an idle slot.
LEMMA AnswerType ==
    ASSUME TypeOK, NEW q, asked' = [asked EXCEPT ![q] = NoRequest]
    PROVE  asked' \in [Requests -> Request]
BY NoRequestType DEF TypeOK

\* The retry rows are numbered as they are written.
RetriesOK ==
    /\ retries \in [Recipients -> RetryRows]
    /\ \A r \in Recipients : retries[r].pending \subseteq 1 .. retries[r].written

\* Rows that stop being pending keep their type.
LEMMA ShrinkType ==
    ASSUME TypeOK, NEW P \in [Recipients -> SUBSET Nat],
           \A r \in Recipients : P[r] \subseteq retries[r].pending,
           retries' = [r \in Recipients |-> [retries[r] EXCEPT !.pending = P[r]]]
    PROVE  RetriesOK'
<1>1. \A r \in Recipients : /\ retries[r] \in RetryRows
                            /\ retries[r].pending \subseteq 1 .. retries[r].written
  BY DEF TypeOK
<1>2. ASSUME NEW r \in Recipients
      PROVE  /\ retries'[r] \in RetryRows
             /\ retries'[r].pending \subseteq 1 .. retries'[r].written
  <2>1. retries'[r] = [pending |-> P[r], written |-> retries[r].written]
    BY <1>1 DEF RetryRows
  <2> QED
    BY <1>1, <2>1 DEF RetryRows
<1>3. retries' \in [Recipients -> RetryRows]
  BY <1>2
<1> QED
  BY <1>2, <1>3 DEF RetriesOK

\* So do the others when only one recipient's change.
LEMMA ShrinkOneType ==
    ASSUME TypeOK, NEW x, NEW S \in SUBSET Nat,
           x \in Recipients => S \subseteq retries[x].pending,
           retries' = [retries EXCEPT ![x].pending = S]
    PROVE  RetriesOK'
<1> DEFINE P == [r \in Recipients |-> IF r = x THEN S ELSE retries[r].pending]
<1>1. \A r \in Recipients : retries[r] \in RetryRows
  BY DEF TypeOK
<1>2. P \in [Recipients -> SUBSET Nat]
  BY <1>1 DEF RetryRows
<1>3. retries' = [r \in Recipients |-> [retries[r] EXCEPT !.pending = P[r]]]
  BY <1>1 DEF TypeOK, RetryRows
<1>4. \A r \in Recipients : P[r] \subseteq retries[r].pending
  OBVIOUS
<1> HIDE DEF P
<1> QED
  BY <1>2, <1>3, <1>4, ShrinkType

\* And when one recipient's are closed, nothing is pending for it.
LEMMA CloseType ==
    ASSUME TypeOK, NEW x, retries' = [retries EXCEPT ![x].pending = {}]
    PROVE  RetriesOK'
<1> DEFINE S == {}
<1>1. S \in SUBSET Nat /\ (x \in Recipients => S \subseteq retries[x].pending)
  OBVIOUS
<1>2. retries' = [retries EXCEPT ![x].pending = S]
  OBVIOUS
<1> HIDE DEF S
<1> QED
  BY <1>1, <1>2, ShrinkOneType

\* Adding one to a counter keeps its type, wherever it points.
LEMMA CountType ==
    ASSUME NEW S, NEW f \in [S -> Nat], NEW x
    PROVE  [f EXCEPT ![x] = @ + 1] \in [S -> Nat]
<1>1. \A y \in S : f[y] + 1 \in Nat
  OBVIOUS
<1>2. [f EXCEPT ![x] = @ + 1] = [y \in S |-> IF y = x THEN f[y] + 1 ELSE f[y]]
  OBVIOUS
<1> QED
  BY <1>1, <1>2

\* Writing the columns of a recipient keeps the type of the roster.
LEMMA RecipientType ==
    ASSUME NEW f \in [Recipients -> Recipient], NEW r
    PROVE  /\ \A s \in RecipientStatus : [f EXCEPT ![r].status = s] \in [Recipients -> Recipient]
           /\ \A n \in Nat : [f EXCEPT ![r].attempts = n] \in [Recipients -> Recipient]
           /\ \A m \in 0 .. MaxMessages, s \in RecipientStatus :
                [f EXCEPT ![r].message = m, ![r].status = s] \in [Recipients -> Recipient]
BY DEF Recipient

\* Recording an attempt keeps the types of what it writes.
LEMMA RecordAttemptType ==
    ASSUME TypeOK, NEW r, NEW n \in Nat, RecordAttempt(r, n)
    PROVE  rec' \in [Recipients -> Recipient] /\ RetriesOK'
<1>1. rec' \in [Recipients -> Recipient]
  BY RecipientType DEF RecordAttempt, TypeOK
<1>2. ASSUME NEW x \in Recipients
      PROVE  /\ retries'[x] \in RetryRows
             /\ retries'[x].pending \subseteq 1 .. retries'[x].written
  <2>1. retries[x] \in RetryRows /\ retries[x].pending \subseteq 1 .. retries[x].written
    BY DEF TypeOK
  <2>2. CASE x = r
    <3>1. retries'[x] = [pending |-> retries[x].pending \cup {retries[x].written + 1},
                         written |-> retries[x].written + 1]
      BY <2>1, <2>2 DEF RecordAttempt, TypeOK, RetryRows
    <3> QED
      BY <2>1, <3>1 DEF RetryRows
  <2>3. CASE x # r
    BY <2>1, <2>3 DEF RecordAttempt, TypeOK
  <2> QED
    BY <2>2, <2>3
<1>3. retries' \in [Recipients -> RetryRows]
  <2>1. retries' = [x \in Recipients |-> retries'[x]]
    BY DEF RecordAttempt, TypeOK
  <2> QED
    BY <1>2, <2>1
<1> QED
  BY <1>1, <1>2, <1>3 DEF RetriesOK

\* Closing a recipient keeps the types of its row and of its retry rows.
LEMMA ExhaustType ==
    ASSUME TypeOK, NEW r, Exhaust(r)
    PROVE  rec' \in [Recipients -> Recipient] /\ RetriesOK'
<1>1. "failed" \in RecipientStatus
  BY DEF RecipientStatus, SETTLED
<1>2. rec' \in [Recipients -> Recipient]
  BY <1>1, RecipientType DEF Exhaust, TypeOK
<1>3. RetriesOK'
  BY CloseType DEF Exhaust
<1> QED
  BY <1>2, <1>3

\* What the check of a verb reads is a request.
LEMMA ReadingType ==
    ASSUME TypeOK, NEW verb \in Verbs
    PROVE  Reading(verb) \in Request
<1>1. ASSUME NEW run \in BOOLEAN, NEW R \in SUBSET Recipients,
             NEW h \in [Recipients -> SUBSET Columns], NEW d \in [Recipients -> SUBSET Nat]
      PROVE  [verb |-> verb, running |-> run, rows |-> R, held |-> h, due |-> d] \in Request
  BY <1>1 DEF Request
<1> DEFINE none    == [r \in Recipients |-> {}]
           pending == [r \in Recipients |-> retries[r].pending]
           held    == [r \in Recipients |-> IF rec[r].status = "failed"
                                            THEN {c \in Columns : rec[r][c] # 0} ELSE {}]
           run     == campaign = "running"
<1>2. /\ none \in [Recipients -> SUBSET Columns]
      /\ none \in [Recipients -> SUBSET Nat]
      /\ held \in [Recipients -> SUBSET Columns]
  OBVIOUS
<1>3. pending \in [Recipients -> SUBSET Nat]
  BY DEF TypeOK, RetryRows
<1>4. \A s : WithStatus(s) \in SUBSET Recipients
  BY DEF WithStatus
<1>5. /\ FALSE \in BOOLEAN /\ run \in BOOLEAN
      /\ {} \in SUBSET Recipients
  OBVIOUS
<1>6. CASE verb = "cancel"
  <2>1. Reading(verb) = [verb |-> verb, running |-> FALSE, rows |-> WithStatus("pending"),
                           held |-> none, due |-> pending]
    BY <1>6 DEF Reading, NoRequest
  <2> HIDE DEF none, pending
  <2> QED
    BY <1>1, <1>2, <1>3, <1>4, <1>5, <2>1
<1>7. CASE verb = "retry"
  <2>1. Reading(verb) = [verb |-> verb, running |-> run,
                           rows |-> WithStatus("failed"), held |-> held, due |-> none]
    BY <1>7 DEF Reading, NoRequest
  <2> HIDE DEF none, held, run
  <2> QED
    BY <1>1, <1>2, <1>4, <1>5, <2>1
<1>8. CASE verb \notin {"cancel", "retry"}
  <2>1. Reading(verb) = [verb |-> verb, running |-> FALSE, rows |-> {}, held |-> none,
                           due |-> none]
    BY <1>8 DEF Reading, NoRequest
  <2> HIDE DEF none
  <2> QED
    BY <1>1, <1>2, <1>5, <2>1
<1> QED
  BY <1>6, <1>7, <1>8

\* Resetting a recipient keeps its type.
LEMMA ResetType ==
    ASSUME NEW row \in Recipient, NEW held
    PROVE  Reset(row, held) \in Recipient
BY Bounds DEF Reset, Recipient, RecipientStatus, OWED

\* The operator's requests keep the types.
LEMMA OperatorType == ASSUME TypeOK, Operator PROVE TypeOK'
<1> SUFFICES ASSUME NEW q \in Requests,
                    \/ (\E verb \in Verbs : Ask(q, verb)) \/ Withdraw(q)
                    \/ Start(q) \/ Pause(q) \/ Resume(q) \/ Cancel(q) \/ RetryFailed(q)
             PROVE  TypeOK'
  BY DEF Operator
<1>1. ASSUME NEW verb \in Verbs, Ask(q, verb) PROVE TypeOK'
  <2>1. asked' \in [Requests -> Request]
    BY <1>1, ReadingType DEF Ask, TypeOK
  <2> QED
    BY <1>1, <2>1 DEF TypeOK, Ask, rows, queues, history
<1>2. CASE Withdraw(q)
  BY <1>2, AnswerType DEF TypeOK, Withdraw, rows, queues, history
<1>3. CASE Start(q)
  <2>1. campaign' \in CampaignStatus
    BY <1>3 DEF Start, CampaignStatus, SENDING
  <2>2. planQ' \in Nat /\ faults' \in 0 .. MaxFaults
    BY <1>3, EnqueuePlanType DEF Start
  <2>3. overlaps' \in 0 .. MaxOverlaps /\ asked' \in [Requests -> Request]
    BY <1>3, OverlapType, AnswerType DEF Start, Answer
  <2> QED
    BY <1>3, <2>1, <2>2, <2>3 DEF TypeOK, Start, rows
<1>4. CASE Pause(q)
  <2>1. campaign' \in CampaignStatus
    BY <1>4 DEF Pause, CampaignStatus
  <2>2. pauses' \in 0 .. MaxPauses
    BY <1>4, Bounds DEF Pause, TypeOK
  <2>3. asked' \in [Requests -> Request]
    BY <1>4, AnswerType DEF Pause, Answer
  <2> QED
    BY <1>4, <2>1, <2>2, <2>3 DEF TypeOK, Pause, rows, queues
<1>5. CASE Resume(q)
  <2>1. campaign' \in CampaignStatus
    BY <1>5 DEF Resume, CampaignStatus, SENDING
  <2>2. planQ' \in Nat /\ faults' \in 0 .. MaxFaults
    BY <1>5, EnqueuePlanType DEF Resume
  <2>3. overlaps' \in 0 .. MaxOverlaps /\ asked' \in [Requests -> Request]
    BY <1>5, OverlapType, AnswerType DEF Resume, Answer
  <2> QED
    BY <1>5, <2>1, <2>2, <2>3 DEF TypeOK, Resume, rows
<1>6. CASE Cancel(q)
  <2>1. campaign' \in CampaignStatus
    BY <1>6 DEF Cancel, CampaignStatus, TERMINAL
  <2>2. rec' \in [Recipients -> Recipient]
    <3>1. "cancelled" \in RecipientStatus
      BY DEF RecipientStatus, SETTLED
    <3>2. \A r \in Recipients : [rec[r] EXCEPT !.status = "cancelled"] \in Recipient
      BY <3>1 DEF TypeOK, Recipient
    <3> QED
      BY <1>6, <3>2 DEF Cancel, TypeOK
  <2>3. RetriesOK'
    <3> DEFINE P == [r \in Recipients |-> retries[r].pending \ asked[q].due[r]]
    <3>1. \A r \in Recipients : retries[r] \in RetryRows
      BY DEF TypeOK
    <3>2. P \in [Recipients -> SUBSET Nat]
      BY <3>1 DEF RetryRows
    <3>3. retries' = [r \in Recipients |-> [retries[r] EXCEPT !.pending = P[r]]]
      BY <1>6 DEF Cancel
    <3>4. \A r \in Recipients : P[r] \subseteq retries[r].pending
      OBVIOUS
    <3> HIDE DEF P
    <3> QED
      BY <3>2, <3>3, <3>4, ShrinkType
  <2>4. cancels' \in 0 .. MaxCancels
    BY <1>6, Bounds DEF Cancel, TypeOK
  <2>5. asked' \in [Requests -> Request]
    BY <1>6, AnswerType DEF Cancel, Answer
  <2> QED
    BY <1>6, <2>1, <2>2, <2>3, <2>4, <2>5 DEF TypeOK, RetriesOK, Cancel, queues
<1>7. CASE RetryFailed(q)
  <2>1. campaign' \in CampaignStatus
    BY <1>7 DEF RetryFailed, CampaignStatus, SENDING, TypeOK
  <2>2. rec' \in [Recipients -> Recipient]
    BY <1>7, ResetType DEF RetryFailed, TypeOK
  <2>3. planQ' \in Nat /\ faults' \in 0 .. MaxFaults
    BY <1>7, EnqueuePlanType DEF RetryFailed
  <2>4. reruns' \in 0 .. MaxReruns
    <3>1. reruns < MaxReruns /\ reruns' = reruns + 1
      BY <1>7 DEF RetryFailed
    <3>2. reruns \in 0 .. MaxReruns
      BY DEF TypeOK
    <3> QED
      BY <3>1, <3>2, Bounds
  <2>5. asked' \in [Requests -> Request]
    BY <1>7, AnswerType DEF RetryFailed, Answer
  <2> QED
    BY <1>7, <2>1, <2>2, <2>3, <2>4, <2>5 DEF TypeOK, RetryFailed
<1> QED
  BY <1>1, <1>2, <1>3, <1>4, <1>5, <1>6, <1>7

\* The control lane keeps the types.
LEMMA ControlType == ASSUME TypeOK, Control PROVE TypeOK'
<1>1. CASE Plan
  <2> DEFINE unbatched == {r \in Recipients : rec[r].status = "pending" /\ rec[r].batch = 0}
  <2>1. \A r \in unbatched : Slice(unbatched, r) \in Batches
    BY <1>1 DEF Plan
  <2>2. rec' = [r \in Recipients |->
                 IF r \in unbatched
                 THEN [rec[r] EXCEPT !.batch = Slice(unbatched, r)] ELSE rec[r]]
    BY <1>1 DEF Plan
  <2> HIDE DEF unbatched
  <2>3. rec' \in [Recipients -> Recipient]
    <3>1. ASSUME NEW r \in Recipients
          PROVE  (IF r \in unbatched
                  THEN [rec[r] EXCEPT !.batch = Slice(unbatched, r)] ELSE rec[r]) \in Recipient
      <4>1. rec[r] \in Recipient
        BY DEF TypeOK
      <4>2. \A b \in 0 .. MaxBatches : [rec[r] EXCEPT !.batch = b] \in Recipient
        BY <4>1 DEF Recipient
      <4>3. Batches \subseteq 0 .. MaxBatches
        BY Bounds
      <4> QED
        BY <2>1, <4>1, <4>2, <4>3
    <3> QED
      BY <2>2, <3>1
  <2>4. campaign' \in CampaignStatus
    BY <1>1 DEF Plan, CampaignStatus, SENDING
  <2>5. batch' \in [Batches -> BatchStatus]
    BY <1>1 DEF Plan, TypeOK, BatchStatus
  <2>6. fanQ' \in [Batches -> Nat]
    <3> DEFINE owing == {Slice(unbatched, r) : r \in unbatched}
                          \cup {b \in Batches : batch[b] \in {"pending", "in_progress"}}
    <3>1. \/ fanQ' = [b \in Batches |-> IF b \in owing THEN fanQ[b] + 1 ELSE fanQ[b]]
          \/ \E k \in 0 .. MaxBatches :
               fanQ' = [b \in Batches |->
                          IF b \in owing /\ b <= k THEN fanQ[b] + 1 ELSE fanQ[b]]
      BY <1>1 DEF Plan, unbatched
    <3> HIDE DEF owing
    <3> QED
      BY <3>1 DEF TypeOK
  <2>7. planQ' \in Nat
    BY <1>1 DEF Plan, TypeOK
  <2>8. faults' \in 0 .. MaxFaults
    BY <1>1, FaultType DEF Plan, TypeOK
  <2> QED
    BY <1>1, <2>3, <2>4, <2>5, <2>6, <2>7, <2>8 DEF TypeOK, Plan, readers
<1>2. ASSUME NEW b \in Batches, FanOut(b) PROVE TypeOK'
  <2>1. batch' \in [Batches -> BatchStatus]
    BY <1>2 DEF FanOut, TypeOK, BatchStatus
  <2>2. fanQ' \in [Batches -> Nat]
    BY <1>2 DEF FanOut, TypeOK
  <2>3. sendQ' \in [Recipients -> Nat]
    BY <1>2 DEF FanOut, TypeOK
  <2>4. faults' \in 0 .. MaxFaults
    BY <1>2, FaultType DEF FanOut, TypeOK
  <2> QED
    BY <1>2, <2>1, <2>2, <2>3, <2>4 DEF TypeOK, FanOut, readers
<1>3. ASSUME NEW s \in Scanners, ScanRead(s) PROVE TypeOK'
  <2>1. PendingRows \subseteq RetryRow
    BY DEF PendingRows, RetryRow, TypeOK, RetryRows
  <2>2. scans' \in [Scanners -> SUBSET RetryRow]
    BY <1>3, <2>1 DEF ScanRead, TypeOK
  <2> QED
    BY <1>3, <2>2 DEF TypeOK, ScanRead, rows, queues, history
<1>4. ASSUME NEW s \in Scanners, NEW row \in scans[s], ScanClaim(s, row[1], row[2]) PROVE TypeOK'
  <2>1. row \in RetryRow /\ row[1] \in Recipients
    BY DEF TypeOK, RetryRow
  <2>2. RetriesOK'
    <3>1. retries[row[1]].pending \ {row[2]} \in SUBSET Nat
      BY <2>1 DEF TypeOK, RetryRows
    <3>2. retries' = [retries EXCEPT ![row[1]].pending = retries[row[1]].pending \ {row[2]}]
      BY <1>4 DEF ScanClaim
    <3> QED
      BY <3>1, <3>2, ShrinkOneType
  <2>3. sendQ' \in [Recipients -> Nat]
    BY <1>4, CountType DEF ScanClaim, TypeOK
  <2>4. faults' \in 0 .. MaxFaults
    BY <1>4, FaultType DEF ScanClaim, TypeOK
  <2>5. overlaps' \in 0 .. MaxOverlaps
    BY <1>4, OverlapType DEF ScanClaim
  <2>6. scans' \in [Scanners -> SUBSET RetryRow]
    BY <1>4 DEF ScanClaim, TypeOK
  <2> QED
    BY <1>4, <2>2, <2>3, <2>4, <2>5, <2>6 DEF TypeOK, RetriesOK, ScanClaim
<1> QED
  BY <1>1, <1>2, <1>3, <1>4 DEF Control

\* The idle session is a session.
LEMMA IdleType == Idle \in Job
BY Bounds DEF Idle, Job, Step, CampaignStatus, DISPATCHABLE

\* A worker's session has the fields of Job.
LEMMA JobFields ==
    ASSUME TypeOK, NEW w \in Workers
    PROVE  /\ work[w].message = 0 \/ work[w].message \in Messages
           /\ work[w].recipient \in 0 .. NumRecipients
           /\ work[w].step \in Step
<1>1. work[w] \in Job
  BY DEF TypeOK
<1> QED
  BY <1>1, Bounds DEF Job

\* Moving a worker to another step keeps the type of the sessions.
LEMMA StepType ==
    ASSUME TypeOK, NEW w \in Workers, NEW s \in Step, work' = [work EXCEPT ![w].step = s]
    PROVE  work' \in [Workers -> Job]
BY DEF TypeOK, Job

\* The steps of a send task keep the types.
LEMMA SendType == ASSUME TypeOK, Send PROVE TypeOK'
<1>1. ASSUME NEW r \in Recipients, SendDecline(r) PROVE TypeOK'
  <2>1. sendQ' \in [Recipients -> Nat]
    BY <1>1 DEF SendDecline, TypeOK
  <2> QED
    BY <1>1, <2>1 DEF TypeOK, SendDecline, readers, rows, history
<1>2. ASSUME NEW w \in Workers, NEW r \in Recipients, SendBegin(w, r) PROVE TypeOK'
  <2>1. sendQ' \in [Recipients -> Nat]
    BY <1>2 DEF SendBegin, TypeOK
  <2>2. FirstStep(r) \in Step
    BY DEF FirstStep, Step
  <2>3. work' \in [Workers -> Job]
    <3>1. rec[r] \in Recipient
      BY DEF TypeOK
    <3>2. [step |-> FirstStep(r), recipient |-> r, campaign |-> campaign,
           message |-> rec[r].message, batch |-> rec[r].batch,
           attempts |-> rec[r].attempts] \in Job
      BY <2>2, <3>1, Bounds DEF TypeOK, Job, Recipient
    <3> QED
      BY <1>2, <3>2 DEF SendBegin, TypeOK
  <2> QED
    BY <1>2, <2>1, <2>3 DEF TypeOK, SendBegin, readers, rows, history
<1>3. ASSUME NEW w \in Workers, Continue(w) PROVE TypeOK'
  <2>1. CASE SendAccept(w)
    <3>1. accepted' \in 0 .. MaxMessages
      BY <2>1, Bounds DEF SendAccept, TypeOK
    <3>2. ledger' \in [Messages -> Message]
      <4>1. work[w].recipient \in 0 .. NumRecipients
        BY JobFields
      <4>2. [owner |-> work[w].recipient, status |-> "accepted", wamid |-> FALSE] \in Message
        BY <4>1 DEF Message
      <4> QED
        BY <2>1, <4>2 DEF SendAccept, TypeOK
    <3>3. work' \in [Workers -> Job]
      <4>1. work[w] \in Job /\ accepted + 1 \in 0 .. MaxMessages
        BY <2>1, <3>1 DEF SendAccept, TypeOK
      <4>2. [work[w] EXCEPT !.step = "link", !.message = accepted + 1] \in Job
        BY <4>1 DEF Job, Step
      <4>3. work' = [work EXCEPT ![w] = [work[w] EXCEPT !.step = "link", !.message = accepted + 1]]
        BY <2>1, <4>1 DEF SendAccept, TypeOK
      <4> QED
        BY <4>2, <4>3 DEF TypeOK
    <3> QED
      BY <2>1, <3>1, <3>2, <3>3 DEF TypeOK, SendAccept, readers, queues, history
  <2>2. CASE SendReject(w)
    <3>1. rec' \in [Recipients -> Recipient]
      <4>1. "failed" \in RecipientStatus
        BY DEF RecipientStatus, SETTLED
      <4> QED
        BY <2>2, <4>1, RecipientType DEF SendReject, TypeOK
    <3>2. work' \in [Workers -> Job]
      BY <2>2, IdleType DEF SendReject, TypeOK
    <3> QED
      BY <2>2, <3>1, <3>2 DEF TypeOK, SendReject, readers, queues, history
  <2>3. CASE SendLink(w)
    <3>1. rec' \in [Recipients -> Recipient]
      <4>1. work[w].message \in 0 .. MaxMessages
        BY DEF TypeOK, Job
      <4>2. "queued" \in RecipientStatus
        BY DEF RecipientStatus, OWED
      <4> QED
        BY <2>3, <4>1, <4>2, RecipientType DEF SendLink, TypeOK
    <3>2. work' \in [Workers -> Job]
      BY <2>3, StepType DEF SendLink, Step
    <3> QED
      BY <2>3, <3>1, <3>2 DEF TypeOK, SendLink, readers, queues, history
  <2>4. CASE SendCall(w)
    <3>1. calls' \in [Recipients -> Nat]
      BY <2>4, CountType DEF SendCall, TypeOK
    <3>2. work' \in [Workers -> Job]
      BY <2>4, StepType DEF SendCall, Step
    <3> QED
      BY <2>4, <3>1, <3>2 DEF TypeOK, SendCall, readers, rows, queues
  <2>5. CASE SendRefused(w)
    <3>1. ledger' \in [Messages -> Message]
      BY <2>5 DEF SendRefused, TypeOK, Message
    <3>2. work' \in [Workers -> Job]
      BY <2>5, StepType DEF SendRefused, Step
    <3> QED
      BY <2>5, <3>1, <3>2 DEF TypeOK, SendRefused, readers, queues, history
  <2>6. CASE SendError(w)
    <3> DEFINE r == work[w].recipient
               n == work[w].attempts + 1
    <3>0. RecordAttempt(r, n) \/ Exhaust(r)
      BY <2>6 DEF SendError
    <3>1. rec' \in [Recipients -> Recipient] /\ RetriesOK'
      <4>1. n \in Nat
        BY DEF TypeOK, Job
      <4> QED
        BY <3>0, <4>1, RecordAttemptType, ExhaustType
    <3>3. calls' \in [Recipients -> Nat]
      <4>1. calls' = calls \/ calls' = [calls EXCEPT ![r] = @ + 1]
        BY <2>6 DEF SendError
      <4>2. CASE calls' = [calls EXCEPT ![r] = @ + 1]
        BY <4>2, CountType DEF TypeOK
      <4> QED
        BY <4>1, <4>2 DEF TypeOK
    <3>4. faults' \in 0 .. MaxFaults
      BY <2>6, FaultType DEF SendError, TypeOK
    <3>5. work' \in [Workers -> Job]
      BY <2>6, StepType DEF SendError, Step
    <3> QED
      BY <2>6, <3>1, <3>3, <3>4, <3>5 DEF TypeOK, RetriesOK, SendError, readers, queues
  <2>7. CASE SendReceipt(w)
    <3>1. ledger' \in [Messages -> Message]
      BY <2>7 DEF SendReceipt, TypeOK, Message
    <3>2. work' \in [Workers -> Job]
      BY <2>7, StepType DEF SendReceipt, Step
    <3> QED
      BY <2>7, <3>1, <3>2 DEF TypeOK, SendReceipt, readers, queues, history
  <2>8. CASE SendOutcome(w)
    <3>1. rec' \in [Recipients -> Recipient]
      BY <2>8 DEF SendOutcome, TypeOK, Recipient, RecipientStatus, SETTLED
    <3>2. work' \in [Workers -> Job]
      BY <2>8, StepType DEF SendOutcome, Step
    <3> QED
      BY <2>8, <3>1, <3>2 DEF TypeOK, SendOutcome, readers, queues, history
  <2>9. CASE SendSettle(w)
    <3>1. RetriesOK'
      BY <2>9, CloseType DEF SendSettle
    <3>2. work' \in [Workers -> Job]
      BY <2>9, StepType DEF SendSettle, Step
    <3> QED
      BY <2>9, <3>1, <3>2 DEF TypeOK, RetriesOK, SendSettle, readers, queues, history
  <2>10. CASE SendProgress(w)
    <3>1. batch' \in [Batches -> BatchStatus]
      BY <2>10 DEF SendProgress, TypeOK, BatchStatus
    <3>2. campaign' \in CampaignStatus
      BY <2>10 DEF SendProgress, TypeOK, CampaignStatus, TERMINAL
    <3>3. work' \in [Workers -> Job]
      BY <2>10, IdleType DEF SendProgress, TypeOK
    <3> QED
      BY <2>10, <3>1, <3>2, <3>3 DEF TypeOK, SendProgress, readers, queues, history
  <2> QED
    BY <1>3, <2>1, <2>2, <2>3, <2>4, <2>5, <2>6, <2>7, <2>8, <2>9, <2>10 DEF Continue
<1> QED
  BY <1>1, <1>2, <1>3 DEF Send

\* A fault keeps the types.
LEMMA FailureType == ASSUME TypeOK, Failure PROVE TypeOK'
<1>1. CASE Flush
  <2>1. /\ planQ' \in Nat
        /\ fanQ' \in [Batches -> Nat]
        /\ sendQ' \in [Recipients -> Nat]
    BY <1>1 DEF Flush
  <2>2. faults' \in 0 .. MaxFaults
    BY <1>1, FaultType DEF Flush
  <2> QED
    BY <1>1, <2>1, <2>2 DEF TypeOK, Flush, readers, rows
<1>5. ASSUME NEW s \in Scanners, ScanDies(s) PROVE TypeOK'
  <2>1. faults' \in 0 .. MaxFaults
    BY <1>5, FaultType DEF ScanDies
  <2>2. scans' \in [Scanners -> SUBSET RetryRow]
    BY <1>5 DEF ScanDies, TypeOK
  <2> QED
    BY <1>5, <2>1, <2>2 DEF TypeOK, ScanDies, rows, queues
<1>2. ASSUME NEW w \in Workers, Crash(w) PROVE TypeOK'
  <2>1. sendQ' \in [Recipients -> Nat]
    BY <1>2, CountType DEF Crash, TypeOK
  <2>2. faults' \in 0 .. MaxFaults
    BY <1>2, FaultType DEF Crash
  <2>3. work' \in [Workers -> Job]
    BY <1>2, IdleType DEF Crash, TypeOK
  <2> QED
    BY <1>2, <2>1, <2>2, <2>3 DEF TypeOK, Crash, readers, rows
<1>3. ASSUME NEW w \in Workers, Redeliver(w) PROVE TypeOK'
  <2>1. sendQ' \in [Recipients -> Nat]
    BY <1>3, CountType DEF Redeliver, TypeOK
  <2>2. faults' \in 0 .. MaxFaults
    BY <1>3, FaultType DEF Redeliver
  <2> QED
    BY <1>3, <2>1, <2>2 DEF TypeOK, Redeliver, readers, rows
<1>4. ASSUME NEW w \in Workers, Park(w) PROVE TypeOK'
  <2>1. faults' \in 0 .. MaxFaults
    BY <1>4, FaultType DEF Park
  <2>2. work' \in [Workers -> Job]
    BY <1>4, IdleType DEF Park, TypeOK
  <2> QED
    BY <1>4, <2>1, <2>2 DEF TypeOK, Park, readers, rows, queues
<1> QED
  BY <1>1, <1>2, <1>3, <1>4, <1>5 DEF Failure

\* Every step keeps the types.
LEMMA NextType == ASSUME TypeOK, [Next]_vars PROVE TypeOK'
<1>1. CASE UNCHANGED vars
  BY <1>1 DEF TypeOK, vars, rows, queues, readers, history
<1> QED
  BY <1>1, OperatorType, ControlType, SendType, FailureType DEF Next

\* The types of the rows, queues and sessions hold in every reachable state,
\* whatever the size of the roster and however many workers there are.
THEOREM TypeCorrect == Spec => []TypeOK
<1>1. TypeOK /\ [Next]_vars => TypeOK'
  BY NextType
<1> QED
  BY InitTypeOK, <1>1, PTL DEF Spec

-----------------------------------------------------------------------------
(* Messages and their owners.                                              *)

Links == LedgerGrows /\ Linked /\ JobsMakeSense /\ SentWasAcknowledged

\* Ledger rows keep their owner and, once they have it, their wamid.
LedgerKept ==
    /\ accepted' = accepted
    /\ \A m \in Messages : /\ ledger'[m].owner = ledger[m].owner
                           /\ ledger[m].wamid => ledger'[m].wamid

\* No recipient gets another message, or becomes sent.
RosterKept ==
    \A r \in Recipients : /\ rec'[r].message \in {0, rec[r].message}
                          /\ rec'[r].status = "sent" => rec[r].status = "sent"

\* Workers stop, stay or move on, none to where it reports a message sent.
WorkKept ==
    \A w \in Workers :
        \/ work'[w] = Idle
        \/ work'[w] = work[w]
        \/ /\ work[w].step \notin {"idle", "accept"}
           /\ work'[w].step \notin {"idle", "accept", "sent"}
           /\ work'[w].recipient = work[w].recipient
           /\ work'[w].message = work[w].message

\* The checkpoint a recipient's row belongs to, if it belongs to one.
LEMMA RowBatch ==
    ASSUME TypeOK, NEW r \in Recipients
    PROVE  rec[r].batch \in 0 .. MaxBatches
<1>1. rec[r] \in Recipient
  BY DEF TypeOK
<1> QED
  BY <1>1 DEF Recipient

\* The message a recipient's row links to, if it links to one.
LEMMA RowLinks ==
    ASSUME TypeOK, NEW r \in Recipients
    PROVE  rec[r].message = 0 \/ rec[r].message \in Messages
<1>1. rec[r] \in Recipient
  BY DEF TypeOK
<1> QED
  BY <1>1, Bounds DEF Recipient

\* What Links says of a recipient, of a worker and of a ledger row.
LEMMA LinksHold ==
    ASSUME TypeOK, Links, LedgerKept, RosterKept, WorkKept
    PROVE  Links'
<1> USE DEF Links
<1>1. LedgerGrows'
  BY DEF LedgerGrows, LedgerKept
<1>2. Linked'
  <2>1. ASSUME NEW r \in Recipients, rec'[r].message # 0
        PROVE  rec'[r].message <= accepted' /\ ledger'[rec'[r].message].owner = r
    <3>1. rec[r].message \in Messages /\ rec'[r].message = rec[r].message
      BY <2>1, Bounds DEF TypeOK, RosterKept, Recipient
    <3> QED
      BY <2>1, <3>1 DEF Linked, LedgerKept
  <2>2. ASSUME NEW w \in Workers, work'[w].message # 0
        PROVE  /\ work'[w].message <= accepted'
               /\ ledger'[work'[w].message].owner = work'[w].recipient
    <3>1. /\ work[w].message \in Messages
          /\ work'[w].message = work[w].message
          /\ work'[w].recipient = work[w].recipient
      BY <2>2, JobFields DEF WorkKept, Idle
    <3> QED
      BY <2>2, <3>1 DEF Linked, LedgerKept
  <2> QED
    BY <2>1, <2>2 DEF Linked
<1>3. JobsMakeSense'
  <2>1. ASSUME NEW w \in Workers
        PROVE  /\ work'[w].step # "idle" => work'[w].recipient \in Recipients
               /\ work'[w].step \notin {"idle", "accept"} => work'[w].message # 0
               /\ work'[w].step = "sent" => ledger'[work'[w].message].wamid
    <3>1. CASE work'[w] = Idle
      BY <3>1 DEF Idle
    <3>2. CASE work'[w] = work[w]
      <4>1. work[w].step = "sent" => work[w].message \in Messages
        BY JobFields DEF JobsMakeSense
      <4> QED
        BY <3>2, <4>1 DEF JobsMakeSense, LedgerKept
    <3>3. CASE /\ work[w].step \notin {"idle", "accept"}
               /\ work'[w].step \notin {"idle", "accept", "sent"}
               /\ work'[w].recipient = work[w].recipient
               /\ work'[w].message = work[w].message
      BY <3>3 DEF JobsMakeSense
    <3> QED
      BY <3>1, <3>2, <3>3 DEF WorkKept
  <2> QED
    BY <2>1 DEF JobsMakeSense
<1>4. SentWasAcknowledged'
  BY DEF SentWasAcknowledged, RosterKept, LedgerKept
<1> QED
  BY <1>1, <1>2, <1>3, <1>4

\* A campaign that was just created is linked to nothing.
LEMMA InitLinks == Init => Links
<1> SUFFICES ASSUME Init PROVE Links
  OBVIOUS
<1>1. LedgerGrows
  BY DEF Init, LedgerGrows
<1>2. Linked
  BY DEF Init, Linked, Idle, Untouched
<1>3. JobsMakeSense
  BY DEF Init, JobsMakeSense, Idle
<1>4. SentWasAcknowledged
  BY DEF Init, SentWasAcknowledged, Untouched
<1> QED
  BY <1>1, <1>2, <1>3, <1>4 DEF Links

\* No request and no control task touches a message or a worker.
LEMMA OperatorLinks == ASSUME TypeOK, Links, Operator PROVE Links'
<1> SUFFICES ASSUME NEW q \in Requests,
                    \/ (\E verb \in Verbs : Ask(q, verb)) \/ Withdraw(q)
                    \/ Start(q) \/ Pause(q) \/ Resume(q) \/ Cancel(q) \/ RetryFailed(q)
             PROVE  Links'
  BY DEF Operator
<1>1. LedgerKept /\ WorkKept
  BY DEF Ask, Withdraw, Start, Pause, Resume, Cancel, RetryFailed, LedgerKept, WorkKept, rows, queues
<1>2. RosterKept
  <2>1. CASE Cancel(q)
    BY <2>1 DEF Cancel, RosterKept, TypeOK, Recipient
  <2>2. CASE RetryFailed(q)
    BY <2>2 DEF RetryFailed, Reset, RosterKept, TypeOK, Recipient
  <2>3. CASE UNCHANGED rec
    BY <2>3 DEF RosterKept
  <2> QED
    BY <2>1, <2>2, <2>3 DEF Ask, Withdraw, Start, Pause, Resume, rows
<1> QED
  BY <1>1, <1>2, LinksHold

\* Planning, fanning out and scanning move recipients and tasks, never a
\* message id.
LEMMA ControlLinks == ASSUME TypeOK, Links, Control PROVE Links'
<1>1. LedgerKept /\ WorkKept
  BY DEF Control, Plan, FanOut, ScanRead, ScanClaim, LedgerKept, WorkKept, rows
<1>2. RosterKept
  <2>1. CASE Plan
    BY <2>1 DEF Plan, RosterKept, TypeOK, Recipient
  <2>2. CASE UNCHANGED rec
    BY <2>2 DEF RosterKept
  <2> QED
    BY <2>1, <2>2 DEF Control, FanOut, ScanRead, ScanClaim, rows
<1> QED
  BY <1>1, <1>2, LinksHold

\* A fault drops sessions and tasks, never a committed id.
LEMMA FailureLinks == ASSUME TypeOK, Links, Failure PROVE Links'
<1>1. LedgerKept
  BY DEF Failure, Flush, ScanDies, Crash, Redeliver, Park, LedgerKept, rows
<1>2. WorkKept
  BY DEF Failure, Flush, ScanDies, Crash, Redeliver, Park, WorkKept, TypeOK
<1>3. RosterKept
  BY DEF Failure, Flush, ScanDies, Crash, Redeliver, Park, RosterKept, rows
<1> QED
  BY <1>1, <1>2, <1>3, LinksHold

\* Each step of a send task keeps messages with their owners: a message is linked
\* to the recipient it was accepted for, and reported sent once acknowledged.
LEMMA SendLinks == ASSUME TypeOK, Links, Send PROVE Links'
<1>1. ASSUME NEW r \in Recipients, SendDecline(r) PROVE Links'
  BY <1>1, LinksHold DEF SendDecline, LedgerKept, RosterKept, WorkKept, rows
<1>2. ASSUME NEW w \in Workers, NEW r \in Recipients, SendBegin(w, r) PROVE Links'
  <2>1. UNCHANGED <<rec, ledger, accepted>>
    BY <1>2 DEF SendBegin, rows
  <2>2. /\ work'[w].step = FirstStep(r)
        /\ work'[w].recipient = r
        /\ work'[w].message = rec[r].message
    BY <1>2 DEF SendBegin, TypeOK
  <2>3. \A v \in Workers \ {w} : work'[v] = work[v]
    BY <1>2 DEF SendBegin, TypeOK
  <2>4. LedgerGrows' /\ SentWasAcknowledged'
    BY <2>1 DEF Links, LedgerGrows, SentWasAcknowledged
  <2>5. Linked'
    BY <2>1, <2>2, <2>3 DEF Links, Linked
  <2>6. JobsMakeSense'
    <3>1. /\ FirstStep(r) # "idle"
          /\ FirstStep(r) # "accept" => rec[r].message # 0
          /\ FirstStep(r) = "sent" => ledger[rec[r].message].wamid
      BY DEF FirstStep
    <3>2. \A v \in Workers \ {w} :
            /\ work'[v].step # "idle" => work'[v].recipient \in Recipients
            /\ work'[v].step \notin {"idle", "accept"} => work'[v].message # 0
            /\ work'[v].step = "sent" => ledger'[work'[v].message].wamid
      BY <2>1, <2>3 DEF Links, JobsMakeSense
    <3> QED
      BY <2>1, <2>2, <3>1, <3>2 DEF JobsMakeSense
  <2> QED
    BY <2>4, <2>5, <2>6 DEF Links
<1>3. ASSUME NEW w \in Workers, Continue(w) PROVE Links'
  <2>1. CASE SendAccept(w)
    <3> DEFINE m == accepted + 1
    <3>0. /\ work'[w].step = "link" /\ work'[w].message = m
          /\ work'[w].recipient = work[w].recipient
      BY <2>1 DEF SendAccept, TypeOK, Job
    <3>1. /\ m \in Messages /\ accepted' = m /\ accepted \in Nat /\ accepted < m
          /\ rec' = rec
          /\ work[w].recipient \in Recipients
      <4>1. accepted \in 0 .. MaxMessages
        BY DEF TypeOK
      <4>2. accepted < MaxMessages /\ accepted' = m /\ rec' = rec
        BY <2>1 DEF SendAccept
      <4>3. work[w].recipient \in Recipients
        BY <2>1 DEF SendAccept, Links, JobsMakeSense
      <4> QED
        BY <4>1, <4>2, <4>3, Bounds
    <3>2. \A v \in Workers \ {w} : work'[v] = work[v]
      BY <2>1 DEF SendAccept, TypeOK
    <3>3. ledger'[m].owner = work[w].recipient
      BY <2>1, <3>1 DEF SendAccept, TypeOK
    <3>4. \A x \in Messages \ {m} : ledger'[x] = ledger[x]
      BY <2>1 DEF SendAccept, TypeOK
    <3>5. ledger[m].owner = 0
      <4>1. ledger[m].owner \in 0 .. NumRecipients
        BY <3>1 DEF TypeOK, Message
      <4> QED
        BY <3>1, <4>1 DEF Links, LedgerGrows
    <3> HIDE DEF m
    <3>6. LedgerGrows'
      BY <3>1, <3>3, <3>4 DEF Links, LedgerGrows
    <3>7. Linked'
      <4>1. ASSUME NEW r \in Recipients, rec'[r].message # 0
            PROVE  rec'[r].message <= accepted' /\ ledger'[rec'[r].message].owner = r
        <5>1. rec[r].message \in Messages
          <6>1. rec[r].message \in 0 .. MaxMessages
            BY DEF TypeOK, Recipient
          <6> QED
            BY <4>1, <3>1, <6>1, Bounds
        <5>2. rec[r].message <= accepted /\ ledger[rec[r].message].owner = r
          BY <4>1, <3>1 DEF Links, Linked
        <5> QED
          BY <3>1, <3>4, <3>5, <5>1, <5>2
      <4>2. ASSUME NEW v \in Workers, work'[v].message # 0
            PROVE  /\ work'[v].message <= accepted'
                   /\ ledger'[work'[v].message].owner = work'[v].recipient
        <5>1. CASE v = w
          BY <5>1, <3>0, <3>1, <3>3
        <5>2. CASE v # w
          <6>1. work[v].message # 0 /\ work[v].message \in Messages
            BY <4>2, <5>2, <3>2, JobFields
          <6>2. /\ work[v].message <= accepted
                /\ ledger[work[v].message].owner = work[v].recipient
            BY <6>1 DEF Links, Linked
          <6>3. work[v].message # m
            BY <3>1, <6>1, <6>2
          <6> QED
            BY <5>2, <3>1, <3>2, <3>4, <6>1, <6>2, <6>3
        <5> QED
          BY <5>1, <5>2
      <4> QED
        BY <4>1, <4>2 DEF Linked
    <3>8. JobsMakeSense'
      <4>1. ASSUME NEW v \in Workers
            PROVE  /\ work'[v].step # "idle" => work'[v].recipient \in Recipients
                   /\ work'[v].step \notin {"idle", "accept"} => work'[v].message # 0
                   /\ work'[v].step = "sent" => ledger'[work'[v].message].wamid
        <5>1. CASE v = w
          BY <5>1, <3>0, <3>1
        <5>2. CASE v # w
          <6>1. work[v].step = "sent" => /\ work[v].message \in Messages
                                         /\ work[v].message <= accepted
            BY JobFields DEF Links, JobsMakeSense, Linked
          <6>2. work[v].step = "sent" => work[v].message # m
            BY <3>1, <6>1
          <6> QED
            BY <5>2, <3>2, <3>4, <6>1, <6>2 DEF Links, JobsMakeSense
        <5> QED
          BY <5>1, <5>2
      <4> QED
        BY <4>1 DEF JobsMakeSense
    <3>9. SentWasAcknowledged'
      BY <3>1, <3>4, <3>5 DEF Links, SentWasAcknowledged
    <3> QED
      BY <3>6, <3>7, <3>8, <3>9 DEF Links
  <2>2. CASE SendReject(w)
    <3>1. LedgerKept /\ WorkKept
      BY <2>2 DEF SendReject, LedgerKept, WorkKept, TypeOK
    <3>2. RosterKept
      BY <2>2 DEF SendReject, RosterKept, TypeOK, Recipient
    <3> QED
      BY <3>1, <3>2, LinksHold
  <2>3. CASE SendLink(w)
    <3> DEFINE r == work[w].recipient
    <3>1. LedgerKept /\ WorkKept
      <4>1. LedgerKept
        BY <2>3 DEF SendLink, LedgerKept
      <4>2. WorkKept
        BY <2>3 DEF SendLink, WorkKept, TypeOK, Job
      <4> QED
        BY <4>1, <4>2
    <3>2. /\ r \in Recipients
          /\ work[w].message <= accepted
          /\ ledger[work[w].message].owner = r
      BY <2>3 DEF SendLink, Links, JobsMakeSense, Linked
    <3>3. /\ rec'[r].message = work[w].message
          /\ rec'[r].status = "queued"
          /\ \A x \in Recipients \ {r} : rec'[x] = rec[x]
      BY <2>3, <3>2 DEF SendLink, TypeOK, Recipient
    <3>4. UNCHANGED <<ledger, accepted>>
      BY <2>3 DEF SendLink
    <3>5. LedgerGrows' /\ SentWasAcknowledged'
      BY <3>3, <3>4 DEF Links, LedgerGrows, SentWasAcknowledged
    <3>6. /\ \A v \in Workers : /\ work'[v].message = work[v].message
                                /\ work'[v].recipient = work[v].recipient
          /\ work'[w].step = "call" /\ work[w].step = "link"
          /\ \A v \in Workers \ {w} : work'[v].step = work[v].step
      BY <2>3 DEF SendLink, TypeOK, Job
    <3>7. Linked'
      BY <3>2, <3>3, <3>4, <3>6 DEF Links, Linked
    <3>8. JobsMakeSense'
      BY <3>4, <3>6 DEF Links, JobsMakeSense
    <3> QED
      BY <3>5, <3>7, <3>8 DEF Links
  <2>4. CASE SendCall(w)
    <3>1. LedgerKept /\ RosterKept
      BY <2>4 DEF SendCall, LedgerKept, RosterKept, rows
    <3>2. WorkKept
      BY <2>4 DEF SendCall, WorkKept, TypeOK, Job
    <3> QED
      BY <3>1, <3>2, LinksHold
  <2>5. CASE SendRefused(w)
    <3>1. RosterKept
      BY <2>5 DEF SendRefused, RosterKept
    <3>3. WorkKept
      BY <2>5 DEF SendRefused, WorkKept, TypeOK, Job
    <3>2. LedgerKept
      BY <2>5 DEF SendRefused, LedgerKept, TypeOK, Message
    <3> QED
      BY <3>1, <3>2, <3>3, LinksHold
  <2>6. CASE SendError(w)
    <3>1. LedgerKept /\ WorkKept
      <4>1. LedgerKept
        BY <2>6 DEF SendError, LedgerKept
      <4>2. WorkKept
        BY <2>6 DEF SendError, WorkKept, TypeOK, Job
      <4> QED
        BY <4>1, <4>2
    <3>2. RosterKept
      <4>1. \/ RecordAttempt(work[w].recipient, work[w].attempts + 1)
            \/ Exhaust(work[w].recipient)
        BY <2>6 DEF SendError
      <4>2. CASE RecordAttempt(work[w].recipient, work[w].attempts + 1)
        BY <4>2 DEF RecordAttempt, RosterKept, TypeOK, Recipient
      <4>3. CASE Exhaust(work[w].recipient)
        BY <4>3 DEF Exhaust, RosterKept, TypeOK, Recipient
      <4> QED
        BY <4>1, <4>2, <4>3
    <3> QED
      BY <3>1, <3>2, LinksHold
  <2>7. CASE SendReceipt(w)
    <3> DEFINE m == work[w].message
    <3>1. m \in Messages
      BY <2>7, JobFields DEF SendReceipt, Links, JobsMakeSense
    <3>2. /\ ledger'[m].wamid
          /\ \A x \in Messages : /\ ledger'[x].owner = ledger[x].owner
                                 /\ ledger[x].wamid => ledger'[x].wamid
      BY <2>7, <3>1 DEF SendReceipt, TypeOK, Message
    <3>3. UNCHANGED <<rec, accepted>>
      BY <2>7 DEF SendReceipt
    <3>4. /\ \A v \in Workers : /\ work'[v].message = work[v].message
                                /\ work'[v].recipient = work[v].recipient
          /\ work'[w].step = "sent" /\ work[w].step = "receipt"
          /\ \A v \in Workers \ {w} : work'[v].step = work[v].step
      BY <2>7 DEF SendReceipt, TypeOK, Job
    <3>5. LedgerGrows'
      BY <3>2, <3>3 DEF Links, LedgerGrows
    <3>8. SentWasAcknowledged'
      BY <3>2, <3>3 DEF Links, SentWasAcknowledged
    <3>6. Linked'
      <4>1. \A r \in Recipients : rec[r].message # 0 => rec[r].message \in Messages
        BY RowLinks
      <4> QED
        BY <3>2, <3>3, <3>4, <4>1, JobFields DEF Links, Linked
    <3>7. JobsMakeSense'
      <4>1. \A v \in Workers \ {w} :
              /\ work'[v].step # "idle" => work'[v].recipient \in Recipients
              /\ work'[v].step \notin {"idle", "accept"} => work'[v].message # 0
              /\ work'[v].step = "sent" => ledger'[work'[v].message].wamid
        BY <3>2, <3>4, JobFields DEF Links, JobsMakeSense
      <4>2. /\ work'[w].recipient \in Recipients
            /\ work'[w].message # 0
            /\ ledger'[work'[w].message].wamid
        BY <3>1, <3>2, <3>4 DEF Links, JobsMakeSense
      <4> QED
        BY <4>1, <4>2 DEF JobsMakeSense
    <3> QED
      BY <3>5, <3>6, <3>7, <3>8 DEF Links
  <2>8. CASE SendOutcome(w)
    <3> DEFINE r == work[w].recipient
    <3>1. LedgerKept /\ WorkKept
      <4>1. LedgerKept
        BY <2>8 DEF SendOutcome, LedgerKept
      <4>2. WorkKept
        BY <2>8 DEF SendOutcome, WorkKept, TypeOK, Job
      <4> QED
        BY <4>1, <4>2
    <3>2. r \in Recipients
      BY <2>8 DEF SendOutcome, Links, JobsMakeSense
    <3>3. /\ rec'[r].message = rec[r].message
          /\ rec'[r].status = work[w].step
          /\ \A x \in Recipients \ {r} : rec'[x] = rec[x]
      BY <2>8, <3>2 DEF SendOutcome, TypeOK, Recipient
    <3>4. CASE work[w].step = "failed"
      BY <3>1, <3>3, <3>4, LinksHold DEF RosterKept
    <3>5. CASE work[w].step = "sent"
      <4>1. work[w].message \in Messages /\ ledger[work[w].message].wamid
              /\ ledger[work[w].message].owner = r
        BY <3>5, JobFields DEF Links, JobsMakeSense, Linked
      <4>2. UNCHANGED <<ledger, accepted>>
        BY <2>8 DEF SendOutcome
      <4>3. SentWasAcknowledged'
        BY <3>3, <4>1, <4>2 DEF Links, SentWasAcknowledged
      <4>4. /\ \A v \in Workers : /\ work'[v].message = work[v].message
                                  /\ work'[v].recipient = work[v].recipient
            /\ work'[w].step = "settle" /\ work[w].step = "sent"
            /\ \A v \in Workers \ {w} : work'[v].step = work[v].step
        BY <2>8, <3>5 DEF SendOutcome, TypeOK, Job
      <4>5. LedgerGrows' /\ Linked'
        BY <3>2, <3>3, <4>2, <4>4 DEF Links, LedgerGrows, Linked
      <4>6. JobsMakeSense'
        BY <4>2, <4>4 DEF Links, JobsMakeSense
      <4> QED
        BY <4>3, <4>5, <4>6 DEF Links
    <3> QED
      BY <2>8, <3>4, <3>5 DEF SendOutcome
  <2>9. CASE SendSettle(w)
    <3>1. LedgerKept /\ RosterKept
      BY <2>9 DEF SendSettle, LedgerKept, RosterKept
    <3>2. WorkKept
      BY <2>9 DEF SendSettle, WorkKept, TypeOK, Job
    <3> QED
      BY <3>1, <3>2, LinksHold
  <2>10. CASE SendProgress(w)
    <3>1. LedgerKept /\ RosterKept /\ WorkKept
      BY <2>10 DEF SendProgress, LedgerKept, RosterKept, WorkKept, TypeOK
    <3> QED
      BY <3>1, LinksHold
  <2> QED
    BY <1>3, <2>1, <2>2, <2>3, <2>4, <2>5, <2>6, <2>7, <2>8, <2>9, <2>10 DEF Continue
<1> QED
  BY <1>1, <1>2, <1>3 DEF Send

\* Every step keeps Links.
LEMMA NextLinks == ASSUME TypeOK, Links, [Next]_vars PROVE Links'
<1>1. CASE UNCHANGED vars
  BY <1>1, LinksHold DEF vars, rows, LedgerKept, RosterKept, WorkKept
<1> QED
  BY <1>1, OperatorLinks, ControlLinks, SendLinks, FailureLinks DEF Next

\* Every message id a recipient or a worker holds is that of a message accepted
\* for that recipient: send workers that accept at the same time, die, are
\* delivered again or race a pause never cross their ids.
THEOREM MessagesNeverCross == Spec => []MessagesBelong
<1>1. Init => TypeOK /\ Links
  BY InitTypeOK, InitLinks
<1>2. TypeOK /\ Links /\ [Next]_vars => (TypeOK /\ Links)'
  BY NextType, NextLinks
<1>3. Links => MessagesBelong
  BY DEF Links, Linked, MessagesBelong
<1> QED
  BY <1>1, <1>2, <1>3, PTL DEF Spec

\* A recipient is only ever reported sent when the channel acknowledged a message
\* accepted for it, under every fault, for every number of workers.
THEOREM SentIsAcknowledged == Spec => []SentWasAcknowledged
<1>1. Init => TypeOK /\ Links
  BY InitTypeOK, InitLinks
<1>2. TypeOK /\ Links /\ [Next]_vars => (TypeOK /\ Links)'
  BY NextType, NextLinks
<1>3. Links => SentWasAcknowledged
  BY DEF Links
<1> QED
  BY <1>1, <1>2, <1>3, PTL DEF Spec

-----------------------------------------------------------------------------
(* The account of calls and chances.                                       *)

\* What a set of callers counts when one leaves or joins.
LEMMA CallersCount ==
    ASSUME NEW A, NEW B, NEW w, IsFiniteSet(A)
    PROVE  /\ Cardinality(A) \in Nat
           /\ B \subseteq A => Cardinality(B) \in Nat /\ Cardinality(B) <= Cardinality(A)
           /\ w \in A /\ B \subseteq A \ {w} =>
                Cardinality(B) \in Nat /\ Cardinality(B) + 1 <= Cardinality(A)
           /\ B \subseteq A \cup {w} =>
                Cardinality(B) \in Nat /\ Cardinality(B) <= Cardinality(A) + 1
<1>1. Cardinality(A) \in Nat
  BY FS_CardinalityType
<1>2. ASSUME B \subseteq A PROVE Cardinality(B) \in Nat /\ Cardinality(B) <= Cardinality(A)
  <2>1. IsFiniteSet(B) /\ Cardinality(B) <= Cardinality(A)
    BY <1>2, FS_Subset
  <2> QED
    BY <2>1, FS_CardinalityType
<1>3. ASSUME w \in A, B \subseteq A \ {w}
      PROVE  Cardinality(B) \in Nat /\ Cardinality(B) + 1 <= Cardinality(A)
  <2>1. IsFiniteSet(A \ {w}) /\ Cardinality(A \ {w}) = Cardinality(A) - 1
    BY <1>3, FS_RemoveElement
  <2>2. IsFiniteSet(B) /\ Cardinality(B) <= Cardinality(A \ {w})
    BY <1>3, <2>1, FS_Subset
  <2>3. Cardinality(B) \in Nat
    BY <2>2, FS_CardinalityType
  <2> QED
    BY <1>1, <2>1, <2>2, <2>3
<1>4. ASSUME B \subseteq A \cup {w}
      PROVE  Cardinality(B) \in Nat /\ Cardinality(B) <= Cardinality(A) + 1
  <2>1. IsFiniteSet(A \cup {w}) /\ Cardinality(A \cup {w}) \in {Cardinality(A), Cardinality(A) + 1}
    BY FS_AddElement
  <2>2. IsFiniteSet(B) /\ Cardinality(B) <= Cardinality(A \cup {w})
    BY <1>4, <2>1, FS_Subset
  <2>3. Cardinality(B) \in Nat
    BY <2>2, FS_CardinalityType
  <2> QED
    BY <1>1, <2>1, <2>2, <2>3
<1> QED
  BY <1>1, <1>2, <1>3, <1>4

\* The workers about to call for a recipient are finitely many.
LEMMA CallersFinite == \A r : IsFiniteSet(Callers(r))
BY WorkersAssumption, FS_Subset DEF Callers

\* The retry rows that wait are finitely many; what their number does when one
\* leaves, when one joins, and when some leave.
LEMMA DueCount ==
    ASSUME TypeOK, NEW r \in Recipients
    PROVE  /\ Due(r) \in Nat
           /\ retries'[r].pending \subseteq retries[r].pending =>
                Due(r)' \in Nat /\ Due(r)' <= Due(r)
           /\ \A i \in retries[r].pending :
                retries'[r].pending = retries[r].pending \ {i} => Due(r)' = Due(r) - 1
           /\ \A i : /\ i \notin retries[r].pending
                     /\ retries'[r].pending = retries[r].pending \cup {i}
                     => Due(r)' = Due(r) + 1
<1>1. IsFiniteSet(retries[r].pending)
  <2>1. retries[r].written \in Nat /\ retries[r].pending \subseteq 1 .. retries[r].written
    BY DEF TypeOK, RetryRows
  <2>2. IsFiniteSet(1 .. retries[r].written)
    BY <2>1, FS_Interval
  <2> QED
    BY <2>1, <2>2, FS_Subset
<1>2. Due(r) \in Nat
  BY <1>1, FS_CardinalityType
<1>3. ASSUME retries'[r].pending \subseteq retries[r].pending
      PROVE  Due(r)' \in Nat /\ Due(r)' <= Due(r)
  BY <1>1, <1>3, CallersCount
<1>4. ASSUME NEW i \in retries[r].pending, retries'[r].pending = retries[r].pending \ {i}
      PROVE  Due(r)' = Due(r) - 1
  BY <1>1, <1>4, FS_RemoveElement
<1>5. ASSUME NEW i, i \notin retries[r].pending, retries'[r].pending = retries[r].pending \cup {i}
      PROVE  Due(r)' = Due(r) + 1
  BY <1>1, <1>5, FS_AddElement
<1> QED
  BY <1>2, <1>3, <1>4, <1>5

\* An attempt recorded adds a row; closing a recipient leaves none.
LEMMA AttemptDue ==
    ASSUME TypeOK, NEW r \in Recipients, NEW n
    PROVE  /\ RecordAttempt(r, n) => Due(r)' = Due(r) + 1
           /\ Exhaust(r) => Due(r)' = 0
           /\ \A x \in Recipients \ {r} :
                RecordAttempt(r, n) \/ Exhaust(r) => retries'[x] = retries[x] /\ rec'[x] = rec[x]
<1>1. retries[r] \in RetryRows /\ retries[r].pending \subseteq 1 .. retries[r].written
  BY DEF TypeOK
<1>2. ASSUME RecordAttempt(r, n) PROVE Due(r)' = Due(r) + 1
  <2>1. retries'[r].pending = retries[r].pending \cup {retries[r].written + 1}
    BY <1>1, <1>2 DEF RecordAttempt, TypeOK, RetryRows
  <2>2. retries[r].written + 1 \notin retries[r].pending
    BY <1>1 DEF RetryRows
  <2> QED
    BY <2>1, <2>2, DueCount
<1>3. ASSUME Exhaust(r) PROVE Due(r)' = 0
  <2>1. retries'[r].pending = {}
    BY <1>1, <1>3 DEF Exhaust, TypeOK, RetryRows
  <2> QED
    BY <2>1, FS_EmptySet
<1>4. \A x \in Recipients \ {r} :
        RecordAttempt(r, n) \/ Exhaust(r) => retries'[x] = retries[x] /\ rec'[x] = rec[x]
  BY DEF RecordAttempt, Exhaust, TypeOK
<1> QED
  BY <1>2, <1>3, <1>4

\* The terms of the account are numbers.
LEMMA Terms ==
    ASSUME TypeOK, NEW r \in Recipients
    PROVE  /\ Dormant \in {0, 1}
           /\ planQ \in Nat
           /\ Fanned(r) \in Nat
           /\ sendQ[r] \in Nat
           /\ Due(r) \in Nat
           /\ Cardinality(Callers(r)) \in Nat
           /\ calls[r] \in Nat
           /\ faults \in Nat /\ pauses \in Nat /\ reruns \in Nat /\ overlaps \in Nat
<1>1. rec[r].batch \in 0 .. MaxBatches
  BY DEF TypeOK, Recipient
<1>2. Fanned(r) \in Nat
  BY <1>1, Bounds DEF Fanned, TypeOK
<1>3. Cardinality(Callers(r)) \in Nat
  BY CallersFinite, CallersCount
<1>4. Due(r) \in Nat
  BY DueCount
<1>5. Dormant \in {0, 1}
  BY DEF Dormant
<1> QED
  BY <1>2, <1>3, <1>4, <1>5, Bounds DEF TypeOK

\* Enqueueing the control task costs one chance or one fault.
LEMMA EnqueueCost ==
    ASSUME TypeOK, EnqueuePlan
    PROVE  \/ planQ' = planQ + 1 /\ faults' = faults
           \/ planQ' = planQ /\ faults' = faults + 1
BY DEF EnqueuePlan, Fault

\* What was checked is still there, or an overlap is counted.
LEMMA OverlapCost ==
    ASSUME TypeOK, NEW gone \in BOOLEAN, Overlap(gone)
    PROVE  \/ ~ gone /\ overlaps' = overlaps
           \/ gone /\ overlaps' = overlaps + 1
BY DEF Overlap

\* The operator's requests keep the account: a pause and a manual retry pay
\* for the chance they add; a start and a resume add none, unless the status they
\* were allowed on has gone, and then it is an overlap; a cancellation adds none.
LEMMA OperatorAccount == ASSUME TypeOK, Accounted, Operator PROVE Accounted'
<1> SUFFICES ASSUME NEW q \in Requests,
                    \/ (\E verb \in Verbs : Ask(q, verb)) \/ Withdraw(q)
                    \/ Start(q) \/ Pause(q) \/ Resume(q) \/ Cancel(q) \/ RetryFailed(q),
                    NEW r \in Recipients
             PROVE  calls'[r] + Chances(r)' <= 1 + Causes'
  BY DEF Operator, Accounted
<1>0. calls[r] + Chances(r) <= 1 + Causes
  BY DEF Accounted
<1> USE Terms DEF Chances
<1>1. UNCHANGED <<fanQ, sendQ, work, calls>>
  BY DEF Ask, Withdraw, Start, Pause, Resume, Cancel, RetryFailed, rows, queues, history
<1>2. Callers(r)' = Callers(r) /\ sendQ'[r] = sendQ[r] /\ calls'[r] = calls[r]
  BY <1>1 DEF Callers
<1>3. CASE (\E verb \in Verbs : Ask(q, verb)) \/ Withdraw(q)
  <2>1. UNCHANGED <<campaign, rec, retries, planQ, faults, pauses, reruns, overlaps>>
    BY <1>3 DEF Ask, Withdraw, rows, queues, history
  <2>2. Dormant' = Dormant /\ Fanned(r)' = Fanned(r)
    BY <1>1, <2>1 DEF Dormant, Fanned
  <2> QED
    BY <1>0, <1>2, <2>1, <2>2
<1>4. CASE Start(q) \/ Resume(q)
  <2>1. /\ Dormant' = 0
        /\ \/ Dormant = 1 /\ overlaps' = overlaps
           \/ overlaps' = overlaps + 1
    <3>1. CASE Start(q)
      <4>1. Dormant' = 0
        BY <3>1 DEF Start, Dormant, DISPATCHABLE
      <4>2. Allows("start", campaign) => Dormant = 1
        BY DEF Allows, Dormant
      <4> QED
        BY <3>1, <4>1, <4>2, OverlapCost DEF Start
    <3>2. CASE Resume(q)
      <4>1. Dormant' = 0
        BY <3>2 DEF Resume, Dormant, DISPATCHABLE
      <4>2. Allows("resume", campaign) => Dormant = 1
        BY DEF Allows, Dormant
      <4> QED
        BY <3>2, <4>1, <4>2, OverlapCost DEF Resume
    <3> QED
      BY <1>4, <3>1, <3>2
  <2>2. Fanned(r)' = Fanned(r) /\ Due(r)' = Due(r) /\ pauses' = pauses /\ reruns' = reruns
    BY <1>1, <1>4 DEF Start, Resume, Fanned, rows
  <2>3. \/ planQ' = planQ + 1 /\ faults' = faults
        \/ planQ' = planQ /\ faults' = faults + 1
    BY <1>4, EnqueueCost DEF Start, Resume
  <2> QED
    BY <1>0, <1>2, <2>1, <2>2, <2>3
<1>5. CASE Pause(q)
  <2>1. Dormant' = 1
    BY <1>5 DEF Pause, Dormant
  <2>2. Fanned(r)' = Fanned(r) /\ Due(r)' = Due(r)
    BY <1>1, <1>5 DEF Pause, Fanned, rows
  <2>3. /\ pauses' = pauses + 1 /\ reruns' = reruns /\ planQ' = planQ /\ faults' = faults
        /\ overlaps' = overlaps
    BY <1>5 DEF Pause, queues
  <2> QED
    BY <1>0, <1>2, <2>1, <2>2, <2>3
<1>6. CASE Cancel(q)
  <2>1. Dormant' = 0
    BY <1>6 DEF Cancel, Dormant, DISPATCHABLE
  <2>2. rec'[r].batch = rec[r].batch
    BY <1>6 DEF Cancel, TypeOK, Recipient
  <2>3. Fanned(r)' = Fanned(r)
    BY <1>1, <2>2 DEF Fanned
  <2>4. Due(r)' \in Nat /\ Due(r)' <= Due(r)
    <3>1. retries'[r].pending \subseteq retries[r].pending
      BY <1>6 DEF Cancel, TypeOK, RetryRows
    <3> QED
      BY <3>1, DueCount
  <2>5. /\ pauses' = pauses /\ reruns' = reruns /\ planQ' = planQ /\ faults' = faults
        /\ overlaps' = overlaps
    BY <1>6 DEF Cancel, queues
  <2> QED
    BY <1>0, <1>2, <2>1, <2>3, <2>4, <2>5
<1>7. CASE RetryFailed(q)
  <2>1. Dormant' \in {0, 1} /\ Dormant' <= Dormant
    BY <1>7 DEF RetryFailed, Dormant, DISPATCHABLE
  <2>2. rec'[r].batch \in {0, rec[r].batch}
    BY <1>7 DEF RetryFailed, Reset
  <2>3. Fanned(r)' \in Nat /\ Fanned(r)' <= Fanned(r)
    BY <1>1, <2>2 DEF Fanned
  <2>4. Due(r)' = Due(r)
    BY <1>7 DEF RetryFailed
  <2>5. pauses' = pauses /\ reruns' = reruns + 1 /\ overlaps' = overlaps
    BY <1>7 DEF RetryFailed
  <2>6. \/ planQ' = planQ + 1 /\ faults' = faults
        \/ planQ' = planQ /\ faults' = faults + 1
    BY <1>7, EnqueueCost DEF RetryFailed
  <2> QED
    BY <1>0, <1>2, <2>1, <2>3, <2>4, <2>5, <2>6
<1> QED
  BY <1>3, <1>4, <1>5, <1>6, <1>7

\* The control lane keeps the account: planning turns a plan task into batch
\* tasks, fanning out a batch task into send tasks, a scan a due row into a task.
LEMMA ControlAccount ==
    ASSUME TypeOK, FannedBatchesExist, Accounted, Control PROVE Accounted'
<1> SUFFICES ASSUME NEW r \in Recipients
             PROVE  calls'[r] + Chances(r)' <= 1 + Causes'
  BY DEF Accounted
<1>0. calls[r] + Chances(r) <= 1 + Causes
  BY DEF Accounted
<1>1. UNCHANGED <<work, calls, pauses, reruns>>
  BY DEF Control, Plan, FanOut, ScanRead, ScanClaim, history
<1>2. Callers(r)' = Callers(r) /\ calls'[r] = calls[r] /\ pauses' = pauses /\ reruns' = reruns
  BY <1>1 DEF Callers
<1>3. rec[r].batch \in 0 .. MaxBatches /\ Batches = (0 .. MaxBatches) \ {0}
  BY Bounds, RowBatch
<1>4. CASE Plan
  <2> DEFINE unbatched == {x \in Recipients : rec[x].status = "pending" /\ rec[x].batch = 0}
  <2>1. Dormant' = 0
    BY <1>4 DEF Plan, Dormant, DISPATCHABLE
  <2>2. sendQ'[r] = sendQ[r] /\ Due(r)' = Due(r)
    BY <1>4 DEF Plan
  <2>3. \/ planQ' = planQ - 1 /\ faults' = faults
        \/ planQ' = planQ /\ faults' = faults + 1
    BY <1>4 DEF Plan, Fault
  <2>4. \A b \in Batches : fanQ'[b] \in {fanQ[b], fanQ[b] + 1}
    BY <1>4 DEF Plan
  <2>5. Fanned(r)' \in Nat /\ Fanned(r)' <= Fanned(r) + 1
    <3>1. CASE r \in unbatched
      <4>1. Slice(unbatched, r) \in Batches
        BY <1>4, <3>1 DEF Plan
      <4>2. rec'[r].batch = Slice(unbatched, r)
        BY <1>4, <3>1 DEF Plan, TypeOK, Recipient
      <4>3. batch[Slice(unbatched, r)] = "none"
        <5>1. unbatched \in SUBSET Recipients
          OBVIOUS
        <5> HIDE DEF unbatched
        <5>2. \A b \in Batches : batch[b] # "none" => b < Slice(unbatched, r)
          BY <3>1, <5>1, SliceIsNew
        <5> QED
          BY <4>1, <5>2, Bounds
      <4>4. fanQ[Slice(unbatched, r)] = 0
        BY <4>1, <4>3 DEF FannedBatchesExist
      <4> HIDE DEF unbatched
      <4>5. Fanned(r)' \in {0, 1}
        BY <4>1, <4>2, <4>4, <2>4 DEF Fanned
      <4> QED
        BY <4>5, Terms
    <3>2. CASE r \notin unbatched
      <4>1. rec'[r] = rec[r]
        BY <1>4, <3>2 DEF Plan
      <4>2. CASE rec[r].batch = 0
        BY <4>1, <4>2, Terms DEF Fanned
      <4>3. CASE rec[r].batch # 0
        <5>1. rec[r].batch \in Batches /\ fanQ[rec[r].batch] \in Nat
          BY <1>3, <4>3 DEF TypeOK
        <5> QED
          BY <2>4, <4>1, <4>3, <5>1 DEF Fanned
      <4> QED
        BY <4>2, <4>3
    <3> QED
      BY <3>1, <3>2
  <2>6. overlaps' = overlaps
    BY <1>4 DEF Plan
  <2> QED
    BY <1>0, <1>2, <2>1, <2>2, <2>3, <2>5, <2>6, Terms DEF Chances
<1>5. ASSUME NEW b \in Batches, FanOut(b)
      PROVE  calls'[r] + Chances(r)' <= 1 + Causes'
  <2>1. Dormant' = Dormant /\ planQ' = planQ /\ Due(r)' = Due(r)
    BY <1>5 DEF FanOut, Dormant
  <2>2. rec'[r].batch = rec[r].batch /\ overlaps' = overlaps
    BY <1>5 DEF FanOut
  <2>3. CASE rec[r].batch = b
    <3>1. Fanned(r) = fanQ[b] /\ Fanned(r)' = fanQ'[b] /\ fanQ[b] \in Nat
      BY <1>3, <2>2, <2>3 DEF Fanned, TypeOK
    <3>2. sendQ'[r] \in {sendQ[r], sendQ[r] + 1}
      BY <1>5 DEF FanOut
    <3>3. \/ fanQ'[b] = fanQ[b] - 1 /\ faults' = faults
          \/ fanQ'[b] = fanQ[b] /\ faults' = faults + 1
      BY <1>5 DEF FanOut, Fault, TypeOK
    <3> QED
      BY <1>0, <1>2, <2>1, <2>2, <3>1, <3>2, <3>3, Terms DEF Chances
  <2>4. CASE rec[r].batch # b
    <3>1. Fanned(r)' = Fanned(r)
      <4>1. \A x \in Batches \ {b} : fanQ'[x] = fanQ[x]
        BY <1>5 DEF FanOut, TypeOK
      <4> QED
        BY <1>3, <2>2, <2>4, <4>1 DEF Fanned
    <3>2. sendQ'[r] = sendQ[r]
      BY <1>5, <2>4 DEF FanOut
    <3>3. faults' \in {faults, faults + 1}
      BY <1>5 DEF FanOut, Fault
    <3> QED
      BY <1>0, <1>2, <2>1, <2>2, <3>1, <3>2, <3>3, Terms DEF Chances
  <2> QED
    BY <2>3, <2>4
<1>6. ASSUME NEW s \in Scanners, ScanRead(s) PROVE calls'[r] + Chances(r)' <= 1 + Causes'
  <2>1. UNCHANGED <<campaign, rec, retries, planQ, fanQ, sendQ, faults, overlaps>>
    BY <1>6 DEF ScanRead, rows, queues, history
  <2>2. Dormant' = Dormant /\ Fanned(r)' = Fanned(r)
    BY <2>1 DEF Dormant, Fanned
  <2> QED
    BY <1>0, <1>2, <2>1, <2>2, Terms DEF Chances
<1>7. ASSUME NEW s \in Scanners, NEW row \in scans[s], ScanClaim(s, row[1], row[2])
      PROVE  calls'[r] + Chances(r)' <= 1 + Causes'
  <2> DEFINE x == row[1]
             i == row[2]
  <2>1. Dormant' = Dormant /\ planQ' = planQ /\ Fanned(r)' = Fanned(r)
    BY <1>7 DEF ScanClaim, Dormant, Fanned
  <2>2. \/ i \in retries[x].pending /\ overlaps' = overlaps
        \/ i \notin retries[x].pending /\ overlaps' = overlaps + 1
    BY <1>7, OverlapCost DEF ScanClaim
  <2>3. retries' = [retries EXCEPT ![x].pending = retries[x].pending \ {i}]
    BY <1>7 DEF ScanClaim
  <2>4. \/ sendQ' = [sendQ EXCEPT ![x] = @ + 1] /\ faults' = faults
        \/ sendQ' = sendQ /\ faults' = faults + 1
    BY <1>7 DEF ScanClaim, Fault
  <2> HIDE DEF x, i
  <2>5. CASE x = r
    <3>1. retries'[r].pending = retries[r].pending \ {i}
      BY <2>3, <2>5 DEF TypeOK, RetryRows
    <3>2. \/ sendQ'[r] = sendQ[r] + 1 /\ faults' = faults
          \/ sendQ'[r] = sendQ[r] /\ faults' = faults + 1
      BY <2>4, <2>5 DEF TypeOK
    <3>3. CASE i \in retries[r].pending
      <4>1. Due(r)' = Due(r) - 1 /\ overlaps' = overlaps
        BY <2>2, <2>5, <3>1, <3>3, DueCount
      <4> QED
        BY <1>0, <1>2, <2>1, <3>2, <4>1, Terms DEF Chances
    <3>4. CASE i \notin retries[r].pending
      <4>1. retries'[r].pending = retries[r].pending /\ overlaps' = overlaps + 1
        BY <2>2, <2>5, <3>1, <3>4
      <4> QED
        BY <1>0, <1>2, <2>1, <3>2, <4>1, Terms DEF Chances
    <3> QED
      BY <3>3, <3>4
  <2>6. CASE x # r
    <3>1. Due(r)' = Due(r) /\ sendQ'[r] = sendQ[r]
      BY <2>3, <2>4, <2>6 DEF TypeOK
    <3>2. faults' \in {faults, faults + 1} /\ overlaps' \in {overlaps, overlaps + 1}
      BY <2>2, <2>4
    <3> QED
      BY <1>0, <1>2, <2>1, <3>1, <3>2, Terms DEF Chances
  <2> QED
    BY <2>5, <2>6
<1> QED
  BY <1>4, <1>5, <1>6, <1>7 DEF Control

\* A fault keeps the account: it pays for the task it delivers again.
LEMMA FailureAccount == ASSUME TypeOK, Links, Accounted, Failure PROVE Accounted'
<1> SUFFICES ASSUME NEW r \in Recipients
             PROVE  calls'[r] + Chances(r)' <= 1 + Causes'
  BY DEF Accounted
<1>0. calls[r] + Chances(r) <= 1 + Causes
  BY DEF Accounted
<1>1. /\ Dormant' = Dormant
      /\ calls'[r] = calls[r]
      /\ Due(r)' = Due(r)
      /\ rec'[r].batch = rec[r].batch
      /\ faults' = faults + 1 /\ pauses' = pauses /\ reruns' = reruns /\ overlaps' = overlaps
  BY DEF Failure, Flush, ScanDies, Crash, Redeliver, Park, Fault, Dormant, rows
<1>2. \A w \in Workers : work'[w] = Idle \/ work'[w] = work[w]
  BY DEF Failure, Flush, ScanDies, Crash, Redeliver, Park, TypeOK
<1>3. Callers(r)' \subseteq Callers(r)
  BY <1>2 DEF Callers, Idle
<1>4. Cardinality(Callers(r)') \in Nat /\ Cardinality(Callers(r)') <= Cardinality(Callers(r))
  BY <1>3, CallersFinite, CallersCount
<1>5. CASE Flush
  <2>1. planQ' = 0 /\ sendQ'[r] = 0
    BY <1>5 DEF Flush
  <2>2. Fanned(r)' = 0
    <3>1. rec'[r].batch = 0 \/ rec'[r].batch \in Batches
      BY <1>1, Bounds, RowBatch
    <3> QED
      BY <1>5, <3>1 DEF Flush, Fanned
  <2> QED
    BY <1>0, <1>1, <1>4, <2>1, <2>2, Terms DEF Chances
<1>6. CASE ~ Flush
  <2>1. planQ' = planQ /\ fanQ' = fanQ
    BY <1>6 DEF Failure, ScanDies, Crash, Redeliver, Park, queues
  <2>2. Fanned(r)' = Fanned(r)
    BY <1>1, <2>1 DEF Fanned
  <2>3. sendQ'[r] \in {sendQ[r], sendQ[r] + 1}
    BY <1>6 DEF Failure, ScanDies, Crash, Redeliver, Park, queues, TypeOK
  <2> QED
    BY <1>0, <1>1, <1>4, <2>1, <2>2, <2>3, Terms DEF Chances
<1> QED
  BY <1>5, <1>6

\* What the steps of a running send task leave alone: the lanes, the other
\* workers, and but for the last one the campaign and its batches.
LEMMA ContinueShape ==
    ASSUME TypeOK, NEW w \in Workers, Continue(w)
    PROVE  /\ UNCHANGED <<planQ, fanQ, sendQ, readers, pauses, cancels, reruns, overlaps>>
           /\ \A v \in Workers \ {w} : work'[v] = work[v]
           /\ UNCHANGED <<campaign, batch>> \/ SendProgress(w)
           /\ work[w].step # "idle"
<1> USE DEF queues, history, TypeOK
<1>1. CASE SendAccept(w) \/ SendLink(w)
  BY <1>1 DEF SendAccept, SendLink
<1>2. CASE SendReject(w)
  BY <1>2 DEF SendReject
<1>3. CASE SendCall(w) \/ SendRefused(w)
  BY <1>3 DEF SendCall, SendRefused, rows
<1>4. CASE SendError(w)
  BY <1>4 DEF SendError
<1>5. CASE SendReceipt(w) \/ SendOutcome(w)
  BY <1>5 DEF SendReceipt, SendOutcome
<1>6. CASE SendSettle(w)
  BY <1>6 DEF SendSettle
<1>7. CASE SendProgress(w)
  BY <1>7 DEF SendProgress
<1> QED
  BY <1>1, <1>2, <1>3, <1>4, <1>5, <1>6, <1>7 DEF Continue

\* And whose checkpoint a recipient is in.
LEMMA ContinueBatch ==
    ASSUME TypeOK, NEW w \in Workers, Continue(w), NEW r \in Recipients
    PROVE  rec'[r].batch = rec[r].batch
<1>1. CASE UNCHANGED rec
  BY <1>1
<1>2. CASE SendReject(w)
  BY <1>2 DEF SendReject, TypeOK, Recipient
<1>3. CASE SendLink(w)
  BY <1>3 DEF SendLink, TypeOK, Recipient
<1>4. CASE SendError(w)
  <2> DEFINE x == work[w].recipient
  <2>1. RecordAttempt(x, work[w].attempts + 1) \/ Exhaust(x)
    BY <1>4 DEF SendError
  <2>2. CASE RecordAttempt(x, work[w].attempts + 1)
    <3>1. rec \in [Recipients -> Recipient]
      BY DEF TypeOK
    <3>2. rec'[r] = IF r = x THEN [rec[r] EXCEPT !.attempts = work[w].attempts + 1] ELSE rec[r]
      BY <2>2, <3>1 DEF RecordAttempt
    <3> QED
      BY <3>1, <3>2 DEF Recipient
  <2>3. CASE Exhaust(x)
    BY <2>3 DEF Exhaust, TypeOK, Recipient
  <2> QED
    BY <2>1, <2>2, <2>3
<1>5. CASE SendOutcome(w)
  BY <1>5 DEF SendOutcome, TypeOK, Recipient
<1> QED
  BY <1>1, <1>2, <1>3, <1>4, <1>5
     DEF Continue, SendAccept, SendCall, SendRefused, SendReceipt, SendSettle, SendProgress, rows

\* A task that begins or is declined spends its own delivery; a call is made by a
\* caller, which is one no more; a retry row is written by one that will not call.
LEMMA SendAccount == ASSUME TypeOK, Links, Accounted, Send PROVE Accounted'
<1> SUFFICES ASSUME NEW r \in Recipients
             PROVE  calls'[r] + Chances(r)' <= 1 + Causes'
  BY DEF Accounted
<1>0. calls[r] + Chances(r) <= 1 + Causes
  BY DEF Accounted
<1>1. ASSUME NEW x \in Recipients, SendDecline(x)
      PROVE  calls'[r] + Chances(r)' <= 1 + Causes'
  <2>1. UNCHANGED <<campaign, rec, retries, planQ, fanQ, work, calls, faults, pauses,
                  reruns, overlaps>>
    BY <1>1 DEF SendDecline, rows, history
  <2>2. Dormant' = Dormant /\ Fanned(r)' = Fanned(r) /\ Callers(r)' = Callers(r)
    BY <2>1 DEF Dormant, Fanned, Callers
  <2>3. sendQ'[r] \in {sendQ[r], sendQ[r] - 1}
    BY <1>1 DEF SendDecline, TypeOK
  <2> QED
    BY <1>0, <2>1, <2>2, <2>3, Terms DEF Chances
<1>2. ASSUME NEW w \in Workers, NEW x \in Recipients, SendBegin(w, x)
      PROVE  calls'[r] + Chances(r)' <= 1 + Causes'
  <2>1. UNCHANGED <<campaign, rec, retries, planQ, fanQ, calls, faults, pauses,
                  reruns, overlaps>>
    BY <1>2 DEF SendBegin, rows, history
  <2>2. Dormant' = Dormant /\ Fanned(r)' = Fanned(r)
    BY <2>1 DEF Dormant, Fanned
  <2>3. /\ work'[w].recipient = x
        /\ \A v \in Workers \ {w} : work'[v] = work[v]
    BY <1>2 DEF SendBegin, TypeOK
  <2>4. CASE x = r
    <3>1. sendQ'[r] = sendQ[r] - 1
      BY <1>2, <2>4 DEF SendBegin, TypeOK
    <3>2. Callers(r)' \subseteq Callers(r) \cup {w}
      BY <2>3 DEF Callers
    <3>3. /\ Cardinality(Callers(r)') \in Nat
          /\ Cardinality(Callers(r)') <= Cardinality(Callers(r)) + 1
      BY <3>2, CallersFinite, CallersCount
    <3> QED
      BY <1>0, <2>1, <2>2, <3>1, <3>3, Terms DEF Chances
  <2>5. CASE x # r
    <3>1. sendQ'[r] = sendQ[r]
      BY <1>2, <2>5 DEF SendBegin, TypeOK
    <3>2. Callers(r)' \subseteq Callers(r)
      BY <2>3, <2>5 DEF Callers
    <3>3. /\ Cardinality(Callers(r)') \in Nat
          /\ Cardinality(Callers(r)') <= Cardinality(Callers(r))
      BY <3>2, CallersFinite, CallersCount
    <3> QED
      BY <1>0, <2>1, <2>2, <3>1, <3>3, Terms DEF Chances
  <2> QED
    BY <2>4, <2>5
<1>3. ASSUME NEW w \in Workers, Continue(w)
      PROVE  calls'[r] + Chances(r)' <= 1 + Causes'
  <2> DEFINE x == work[w].recipient
  <2>1. UNCHANGED <<planQ, fanQ, sendQ, pauses, reruns, overlaps>>
    BY <1>3, ContinueShape
  <2>2. Dormant' \in {0, 1} /\ Dormant' <= Dormant
    <3>1. campaign' \in {campaign, "completed"}
      BY <1>3, ContinueShape DEF SendProgress
    <3> QED
      BY <3>1 DEF Dormant, DISPATCHABLE
  <2>3. rec'[r].batch = rec[r].batch
    BY <1>3, ContinueBatch
  <2>4. Fanned(r)' = Fanned(r) /\ planQ' = planQ /\ sendQ'[r] = sendQ[r]
          /\ pauses' = pauses /\ reruns' = reruns /\ overlaps' = overlaps
    BY <2>1, <2>3 DEF Fanned
  <2>5. \A v \in Workers \ {w} : work'[v] = work[v]
    BY <1>3, ContinueShape
  <2>6. CASE \/ SendAccept(w) \/ SendReject(w) \/ SendLink(w) \/ SendRefused(w)
             \/ SendReceipt(w) \/ SendOutcome(w) \/ SendSettle(w) \/ SendProgress(w)
    <3>1. calls' = calls /\ faults' = faults
      BY <2>6 DEF SendAccept, SendReject, SendLink, SendRefused, SendReceipt, SendOutcome,
                  SendSettle, SendProgress, history
    <3>2. Due(r)' \in {0, Due(r)}
      <4>1. CASE SendSettle(w)
        <5>1. retries'[r].pending \in {{}, retries[r].pending}
          BY <4>1 DEF SendSettle, TypeOK, RetryRows
        <5> QED
          BY <5>1, FS_EmptySet
      <4> QED
        BY <2>6, <4>1 DEF SendAccept, SendReject, SendLink, SendRefused, SendReceipt,
                          SendOutcome, SendProgress
    <3>3. work'[w].step \in {"accept", "link", "call"} =>
            /\ work[w].step \in {"accept", "link", "call"}
            /\ work'[w].recipient = work[w].recipient
      BY <2>6 DEF SendAccept, SendReject, SendLink, SendRefused, SendReceipt, SendOutcome,
                  SendSettle, SendProgress, Idle, TypeOK, Job
    <3>4. Callers(r)' \subseteq Callers(r)
      BY <2>5, <3>3 DEF Callers
    <3>5. /\ Cardinality(Callers(r)') \in Nat
          /\ Cardinality(Callers(r)') <= Cardinality(Callers(r))
      BY <3>4, CallersFinite, CallersCount
    <3> QED
      BY <1>0, <2>2, <2>4, <3>1, <3>2, <3>5, Terms DEF Chances
  <2>7. CASE SendCall(w) \/ SendError(w)
    <3>1. work[w].step = "call" /\ work'[w].step \notin {"accept", "link", "call"}
      BY <2>7 DEF SendCall, SendError, TypeOK, Job
    <3>2. CASE x = r
      <4>1. w \in Callers(r) /\ Callers(r)' \subseteq Callers(r) \ {w}
        BY <2>5, <3>1, <3>2 DEF Callers
      <4>2. /\ Cardinality(Callers(r)') \in Nat
            /\ Cardinality(Callers(r)') + 1 <= Cardinality(Callers(r))
        BY <4>1, CallersFinite, CallersCount
      <4>3. CASE SendCall(w)
        <5>1. calls'[r] = calls[r] + 1 /\ faults' = faults
          BY <3>2, <4>3 DEF SendCall, TypeOK
        <5>2. Due(r)' = Due(r)
          BY <4>3 DEF SendCall, rows
        <5> QED
          BY <1>0, <2>2, <2>4, <4>2, <5>1, <5>2, Terms DEF Chances
      <4>4. CASE SendError(w)
        <5>1. \/ calls'[r] = calls[r] /\ faults' = faults
              \/ calls'[r] = calls[r] + 1 /\ faults' = faults + 1
          BY <3>2, <4>4 DEF SendError, Fault, TypeOK
        <5>2. Due(r)' \in {0, Due(r) + 1}
          BY <3>2, <4>4, AttemptDue DEF SendError
        <5> QED
          BY <1>0, <2>2, <2>4, <4>2, <5>1, <5>2, Terms DEF Chances
      <4> QED
        BY <2>7, <4>3, <4>4
    <3>3. CASE x # r
      <4>1. Callers(r)' \subseteq Callers(r)
        BY <2>5, <3>1 DEF Callers
      <4>2. /\ Cardinality(Callers(r)') \in Nat
            /\ Cardinality(Callers(r)') <= Cardinality(Callers(r))
        BY <4>1, CallersFinite, CallersCount
      <4>3. calls'[r] = calls[r] /\ faults' \in {faults, faults + 1}
        <5>1. calls' = calls \/ calls' = [calls EXCEPT ![x] = @ + 1]
          BY <2>7 DEF SendCall, SendError
        <5>2. calls'[r] = calls[r]
          BY <3>3, <5>1 DEF TypeOK
        <5> QED
          BY <2>7, <5>2 DEF SendCall, SendError, Fault
      <4>4. Due(r)' = Due(r)
        <5>1. CASE SendCall(w)
          BY <5>1 DEF SendCall, rows
        <5>2. CASE SendError(w)
          BY <3>3, <5>2 DEF SendError, RecordAttempt, Exhaust, TypeOK
        <5> QED
          BY <2>7, <5>1, <5>2
      <4> QED
        BY <1>0, <2>2, <2>4, <4>2, <4>3, <4>4, Terms DEF Chances
    <3> QED
      BY <3>2, <3>3
  <2> QED
    BY <1>3, <2>6, <2>7 DEF Continue
<1> QED
  BY <1>1, <1>2, <1>3 DEF Send

\* A campaign that was just created has made no call and has one chance: its
\* start.
LEMMA InitAccount == Init => FannedBatchesExist /\ Accounted
<1> SUFFICES ASSUME Init PROVE FannedBatchesExist /\ Accounted
  OBVIOUS
<1>1. FannedBatchesExist
  BY DEF Init, FannedBatchesExist
<1>2. ASSUME NEW r \in Recipients PROVE calls[r] + Chances(r) <= 1 + Causes
  <2>1. Callers(r) = {}
    BY DEF Init, Callers, Idle
  <2>2. Cardinality(Callers(r)) = 0
    BY <2>1, FS_EmptySet
  <2>3. Dormant \in {0, 1}
    BY DEF Dormant
  <2>4. Fanned(r) = 0
    BY DEF Init, Fanned, Untouched
  <2>5. Due(r) = 0
    <3>1. retries[r].pending = {}
      BY DEF Init
    <3> QED
      BY <3>1, FS_EmptySet
  <2>6. planQ = 0 /\ faults = 0 /\ pauses = 0 /\ reruns = 0 /\ overlaps = 0
    BY DEF Init
  <2>7. calls = [x \in Recipients |-> 0] /\ sendQ = [x \in Recipients |-> 0]
    BY DEF Init
  <2>8. calls[r] = 0 /\ sendQ[r] = 0
    BY <2>7
  <2> QED
    BY <2>2, <2>3, <2>4, <2>5, <2>6, <2>8 DEF Chances
<1> QED
  BY <1>1, <1>2 DEF Accounted

\* Planning fans out only checkpoints it has just created or found, and no step
\* makes a checkpoint disappear.
LEMMA NextFanned == ASSUME TypeOK, FannedBatchesExist, [Next]_vars PROVE FannedBatchesExist'
<1> SUFFICES ASSUME NEW b \in Batches, batch'[b] = "none" PROVE fanQ'[b] = 0
  BY DEF FannedBatchesExist
<1>1. CASE Plan
  BY <1>1 DEF Plan, FannedBatchesExist
<1>2. ASSUME NEW c \in Batches, FanOut(c) PROVE fanQ'[b] = 0
  BY <1>2 DEF FanOut, FannedBatchesExist, TypeOK
<1>3. CASE Flush
  BY <1>3 DEF Flush
<1>4. ASSUME NEW w \in Workers, SendProgress(w) PROVE fanQ'[b] = 0
  BY <1>4 DEF SendProgress, FannedBatchesExist, TypeOK, queues
<1>5. CASE UNCHANGED <<batch, fanQ>>
  BY <1>5 DEF FannedBatchesExist
<1>6. CASE Operator
  BY <1>5, <1>6 DEF Operator, Ask, Withdraw, Start, Pause, Resume, Cancel, RetryFailed, rows, queues
<1>7. CASE Control
  BY <1>1, <1>2, <1>5, <1>7 DEF Control, ScanRead, ScanClaim, rows, queues
<1>8. CASE Send
  <2>1. ASSUME NEW w \in Workers, Continue(w) PROVE fanQ'[b] = 0
    BY <1>4, <1>5, <2>1 DEF Continue, SendAccept, SendReject, SendLink, SendCall, SendRefused,
       SendError, SendReceipt, SendOutcome, SendSettle, rows, queues
  <2> QED
    BY <1>5, <1>8, <2>1 DEF Send, SendDecline, SendBegin, rows
<1>9. CASE Failure
  BY <1>3, <1>5, <1>9 DEF Failure, ScanDies, Crash, Redeliver, Park, rows, queues
<1>10. CASE UNCHANGED vars
  BY <1>5, <1>10 DEF vars, rows, queues
<1> QED
  BY <1>6, <1>7, <1>8, <1>9, <1>10 DEF Next

\* Every step keeps the account.
LEMMA NextAccount ==
    ASSUME TypeOK, Links, FannedBatchesExist, Accounted, [Next]_vars PROVE Accounted'
<1>1. CASE UNCHANGED vars
  BY <1>1 DEF vars, rows, queues, history, Accounted, Chances, Dormant, Fanned, Callers
<1> QED
  BY <1>1, OperatorAccount, ControlAccount, SendAccount, FailureAccount DEF Next

-----------------------------------------------------------------------------
(* The undisturbed campaign: one thing sees to each recipient that is owed. *)

Numbers ==
    /\ faults \in Nat /\ pauses \in Nat /\ cancels \in Nat
    /\ reruns \in Nat /\ overlaps \in Nat

LEMMA NumbersAre == TypeOK => Numbers
BY Bounds DEF TypeOK, Numbers

\* A campaign that nothing has disturbed has not been disturbed before either,
\* and is not now.
LEMMA UndisturbedStep ==
    ASSUME TypeOK, [Next]_vars, Undisturbed'
    PROVE  /\ Undisturbed /\ faults' = faults /\ overlaps' = overlaps
           /\ \A q \in Requests : ~ Pause(q) /\ ~ Cancel(q) /\ ~ RetryFailed(q)
           /\ ~ Failure
<1>1. faults' = 0 /\ pauses' = 0 /\ cancels' = 0 /\ reruns' = 0 /\ overlaps' = 0
  BY DEF Undisturbed
<1>2. Numbers
  BY NumbersAre
<1> USE DEF Numbers
<1>3. (\A k : ~ Fault(k)) /\ \A g : Overlap(g) => overlaps' = overlaps
  BY <1>1, <1>2 DEF Fault, Overlap
<1>4. ~ Failure
  BY <1>3 DEF Failure, Flush, ScanDies, Crash, Redeliver, Park
<1>5. \A q \in Requests : ~ Pause(q) /\ ~ Cancel(q) /\ ~ RetryFailed(q)
  BY <1>1, <1>2 DEF Pause, Cancel, RetryFailed
<1>6. UNCHANGED <<faults, pauses, cancels, reruns, overlaps>>
  <2>1. ASSUME NEW q \in Requests,
               \/ (\E verb \in Verbs : Ask(q, verb)) \/ Withdraw(q) \/ Start(q) \/ Resume(q)
        PROVE  UNCHANGED <<faults, pauses, cancels, reruns, overlaps>>
    BY <1>3, <2>1 DEF Ask, Withdraw, Start, Resume, EnqueuePlan, history
  <2>2. CASE Control
    BY <1>3, <2>2 DEF Control, Plan, FanOut, ScanRead, ScanClaim, history
  <2>3. ASSUME NEW w \in Workers, Continue(w)
        PROVE  UNCHANGED <<faults, pauses, cancels, reruns, overlaps>>
    BY <1>3, <2>3 DEF Continue, SendAccept, SendReject, SendLink, SendCall, SendRefused,
       SendError, SendReceipt, SendOutcome, SendSettle, SendProgress, history
  <2>4. CASE Send
    BY <2>3, <2>4 DEF Send, SendDecline, SendBegin, history
  <2>5. CASE UNCHANGED vars
    BY <2>5 DEF vars, history
  <2> QED
    BY <1>4, <1>5, <2>1, <2>2, <2>4, <2>5 DEF Next, Operator
<1> QED
  BY <1>1, <1>4, <1>5, <1>6 DEF Undisturbed

\* The terms of what carries a recipient are numbers.
LEMMA Carriers ==
    ASSUME TypeOK, NEW r \in Recipients
    PROVE  /\ Dormant \in {0, 1} /\ planQ \in Nat /\ Fanned(r) \in Nat
           /\ sendQ[r] \in Nat /\ Due(r) \in Nat
           /\ IsFiniteSet(Working(r)) /\ Cardinality(Working(r)) \in Nat
<1>1. IsFiniteSet(Working(r))
  BY WorkersAssumption, FS_Subset DEF Working
<1> QED
  BY <1>1, Terms, FS_CardinalityType

\* A worker that has yet to write an outcome is its recipient's only carrier.
LEMMA Carrying ==
    ASSUME TypeOK, OneEach, NEW r \in Recipients, NEW w \in Working(r)
    PROVE  /\ r \in Outstanding
           /\ Dormant = 0 /\ planQ = 0 /\ Fanned(r) = 0 /\ sendQ[r] = 0
           /\ Due(r) = 0 /\ Cardinality(Working(r)) = 1
<1>1. Cardinality(Working(r)) # 0
  BY Carriers, FS_EmptySet
<1>2. Carried(r) = IF r \in Outstanding THEN 1 ELSE 0
  BY DEF OneEach
<1> QED
  BY <1>1, <1>2, Carriers DEF Carried

\* Nothing carries a recipient that is owed nothing.
LEMMA Idling ==
    ASSUME TypeOK, OneEach, NEW r \in Recipients, r \notin Outstanding
    PROVE  /\ Dormant = 0 /\ planQ = 0 /\ Fanned(r) = 0 /\ sendQ[r] = 0
           /\ Due(r) = 0 /\ Working(r) = {}
<1>1. Carried(r) = 0
  BY DEF OneEach
<1>2. Cardinality(Working(r)) = 0
  BY <1>1, Carriers DEF Carried
<1>3. Working(r) = {}
  BY <1>2, Carriers, FS_EmptySet
<1> QED
  BY <1>1, <1>3, Carriers DEF Carried

LEMMA WorkingCount ==
    ASSUME TypeOK, NEW r \in Recipients, NEW w
    PROVE  /\ w \notin Working(r) => Cardinality(Working(r) \cup {w}) = Cardinality(Working(r)) + 1
           /\ w \in Working(r) => Cardinality(Working(r) \ {w}) = Cardinality(Working(r)) - 1
BY Carriers, FS_AddElement, FS_RemoveElement

\* Undisturbed, who is owed nothing keeps its status.
LEMMA StatusStays ==
    ASSUME TypeOK, Links, OneEach, [Next]_vars, Undisturbed',
           NEW r \in Recipients, r \notin Outstanding
    PROVE  rec'[r].status = rec[r].status
<1>1. ASSUME NEW w \in Workers, Continue(w) PROVE rec'[r].status = rec[r].status
  <2> DEFINE x == work[w].recipient
  <2>1. CASE UNCHANGED rec
    BY <2>1
  <2>2. ASSUME SendReject(w) \/ SendLink(w) \/ SendError(w) \/ SendOutcome(w) PROVE x # r
    <3>1. work[w].step \in {"accept", "link", "call", "sent", "failed"}
      BY <2>2 DEF SendReject, SendLink, SendError, SendOutcome
    <3>2. Working(r) = {}
      BY Idling
    <3> QED
      BY <3>1, <3>2 DEF Working
  <2>3. CASE SendReject(w)
    BY <2>2, <2>3 DEF SendReject, TypeOK
  <2>4. CASE SendLink(w)
    BY <2>2, <2>4 DEF SendLink, TypeOK
  <2>5. CASE SendError(w)
    BY <2>2, <2>5 DEF SendError, RecordAttempt, Exhaust, TypeOK
  <2>6. CASE SendOutcome(w)
    BY <2>2, <2>6 DEF SendOutcome, TypeOK
  <2> QED
    BY <1>1, <2>1, <2>3, <2>4, <2>5, <2>6
       DEF Continue, SendAccept, SendCall, SendRefused, SendReceipt, SendSettle, SendProgress, rows
<1>2. CASE Send
  BY <1>1, <1>2 DEF Send, SendDecline, SendBegin, rows
<1>3. CASE Plan
  BY <1>3 DEF Plan, TypeOK, Recipient
<1>4. CASE Control
  BY <1>3, <1>4 DEF Control, FanOut, ScanRead, ScanClaim, rows
<1>5. ASSUME NEW q \in Requests,
             \/ (\E verb \in Verbs : Ask(q, verb)) \/ Withdraw(q) \/ Start(q) \/ Resume(q)
      PROVE  rec'[r].status = rec[r].status
  BY <1>5 DEF Ask, Withdraw, Start, Resume, rows
<1>6. CASE UNCHANGED vars
  BY <1>6 DEF vars, rows
<1> QED
  BY <1>2, <1>4, <1>5, <1>6, UndisturbedStep DEF Next, Operator

\* Undisturbed, who is owed nothing is owed nothing again.
LEMMA OwedShrinks ==
    ASSUME TypeOK, Links, OneEach, [Next]_vars, Undisturbed'
    PROVE  Outstanding' \subseteq Outstanding
<1> SUFFICES ASSUME NEW r \in Recipients, r \notin Outstanding PROVE r \notin Outstanding'
  BY DEF Outstanding
<1> QED
  BY StatusStays DEF Outstanding

LEMMA InitOrderly == Init => Orderly
<1> SUFFICES ASSUME Init PROVE Orderly
  OBVIOUS
<1>1. TypeOK
  BY InitTypeOK
<1>2. Dormant = 1 /\ planQ = 0
  BY DEF Init, Dormant
<1>3. ASSUME NEW r \in Recipients
      PROVE  /\ rec[r].status = "pending" /\ rec[r].batch = 0
             /\ sendQ[r] = 0 /\ Due(r) = 0
  <2>1. retries[r].pending = {}
    BY DEF Init
  <2> QED
    BY <2>1, FS_EmptySet DEF Init, Untouched
<1>4. ASSUME NEW r \in Recipients PROVE r \in Outstanding /\ Carried(r) = 1 /\ Fanned(r) = 0
  <2>1. Working(r) = {}
    BY DEF Init, Working, Idle
  <2>2. Cardinality(Working(r)) = 0
    BY <2>1, FS_EmptySet
  <2>3. Fanned(r) = 0
    BY <1>3 DEF Fanned
  <2>4. r \in Outstanding
    BY <1>3 DEF Outstanding, OWED
  <2> QED
    BY <1>2, <1>3, <2>2, <2>3, <2>4 DEF Carried
<1>5. UntouchedBefore
  BY <1>3, <1>4 DEF UntouchedBefore, Init
<1>6. ClosedIsSettled
  BY DEF ClosedIsSettled, Init, Idle
<1> QED
  BY <1>4, <1>5, <1>6 DEF Orderly, OneEach, Init

\* What a lane or a worker gives up the next one takes.
LEMMA StartOneEach ==
    ASSUME TypeOK, OneEach, NEW q \in Requests, Start(q), faults' = faults, overlaps' = overlaps
    PROVE  OneEach'
<1> SUFFICES ASSUME NEW r \in Recipients
             PROVE  Carried(r)' = IF r \in Outstanding' THEN 1 ELSE 0
  BY DEF OneEach
<1>1. planQ' = planQ + 1 /\ faults \in Nat
  BY NumbersAre DEF Start, EnqueuePlan, Fault, Numbers
<1>2. Dormant = 1 /\ Dormant' = 0
  <2>1. Allows("start", campaign)
    BY NumbersAre DEF Start, Overlap, Numbers
  <2> QED
    BY <2>1 DEF Start, Allows, Dormant, DISPATCHABLE
<1>3. UNCHANGED <<rec, retries, fanQ, sendQ, work>>
  BY DEF Start, rows
<1>4. /\ Fanned(r)' = Fanned(r) /\ Working(r)' = Working(r) /\ Outstanding' = Outstanding
      /\ sendQ'[r] = sendQ[r] /\ Due(r)' = Due(r)
  BY <1>3 DEF Fanned, Working, Outstanding
<1>5. Carried(r) = IF r \in Outstanding THEN 1 ELSE 0
  BY DEF OneEach
<1> QED
  BY <1>1, <1>2, <1>4, <1>5, Carriers DEF Carried

\* The one plan finds every recipient pending and no batch, and fans out each
\* batch it creates once.
LEMMA PlanOneEach ==
    ASSUME TypeOK, OneEach, UntouchedBefore, FannedBatchesExist, Plan, faults' = faults
    PROVE  OneEach'
<1> SUFFICES ASSUME NEW r \in Recipients
             PROVE  Carried(r)' = IF r \in Outstanding' THEN 1 ELSE 0
  BY DEF OneEach
<1> DEFINE U == {x \in Recipients : rec[x].status = "pending" /\ rec[x].batch = 0}
           b == Slice(U, r)
<1>1. planQ > 0 /\ faults \in Nat /\ planQ \in Nat
  BY NumbersAre DEF Plan, Numbers, TypeOK
<1>2. /\ \A x \in Recipients : rec[x].status = "pending" /\ rec[x].batch = 0
      /\ \A c \in Batches : batch[c] = "none"
  BY <1>1, Carriers DEF UntouchedBefore
<1>3. r \in U /\ r \in Outstanding
  BY <1>2 DEF Outstanding, OWED
<1>4. b \in Batches
  BY <1>3 DEF Plan
<1>5. planQ' = planQ - 1 /\ fanQ'[b] = fanQ[b] + 1
  <2>1. ~ Fault("crash")
    BY <1>1 DEF Fault
  <2>2. b \in {Slice(U, x) : x \in U}
    BY <1>3
  <2> HIDE DEF b
  <2> QED
    BY <1>4, <2>1, <2>2 DEF Plan
<1>6. rec'[r].batch = b /\ rec'[r].status = "pending"
  BY <1>2, <1>3 DEF Plan, TypeOK, Recipient
<1>7. fanQ[b] = 0
  BY <1>2, <1>4 DEF FannedBatchesExist
<1>8. Carried(r) = 1
  BY <1>3 DEF OneEach
<1>9. /\ Dormant = 0 /\ planQ = 1 /\ sendQ[r] = 0 /\ Due(r) = 0
      /\ Cardinality(Working(r)) = 0
  BY <1>1, <1>8, Carriers DEF Carried
<1>10. /\ Dormant' = 0 /\ sendQ'[r] = sendQ[r] /\ Due(r)' = Due(r)
       /\ Working(r)' = Working(r)
  BY DEF Plan, Dormant, DISPATCHABLE, Working
<1>11. r \in Outstanding'
  BY <1>6 DEF Outstanding, OWED
<1> HIDE DEF b
<1>12. Fanned(r)' = 1
  BY <1>4, <1>5, <1>6, <1>7, Bounds DEF Fanned
<1> QED
  BY <1>5, <1>9, <1>10, <1>11, <1>12 DEF Carried

\* A batch task becomes a send task of each recipient in its batch: all are
\* pending still.
LEMMA FanOutOneEach ==
    ASSUME TypeOK, OneEach, UntouchedBefore, NEW b \in Batches, FanOut(b), faults' = faults
    PROVE  OneEach'
<1> SUFFICES ASSUME NEW r \in Recipients
             PROVE  Carried(r)' = IF r \in Outstanding' THEN 1 ELSE 0
  BY DEF OneEach
<1>1. fanQ[b] > 0 /\ fanQ[b] \in Nat /\ faults \in Nat
  BY NumbersAre DEF FanOut, Numbers, TypeOK
<1>2. /\ Dormant' = Dormant /\ planQ' = planQ /\ Due(r)' = Due(r)
      /\ Working(r)' = Working(r) /\ Outstanding' = Outstanding /\ rec' = rec
  BY DEF FanOut, Dormant, Working, Outstanding
<1>3. /\ fanQ' = [fanQ EXCEPT ![b] = @ - 1]
      /\ sendQ' = [x \in Recipients |->
                     IF rec[x].batch = b /\ rec[x].status = "pending" THEN sendQ[x] + 1
                     ELSE sendQ[x]]
  BY <1>1 DEF FanOut, Fault
<1>4. rec[r].batch \in 0 .. MaxBatches /\ b # 0
  BY RowBatch, Bounds
<1>5. Carried(r) = IF r \in Outstanding THEN 1 ELSE 0
  BY DEF OneEach
<1>6. CASE rec[r].batch = b
  <2>1. Fanned(r) = fanQ[b] /\ Fanned(r)' = fanQ[b] - 1
    BY <1>2, <1>3, <1>4, <1>6 DEF Fanned, TypeOK
  <2>2. rec[r].status = "pending"
    BY <1>1, <2>1 DEF UntouchedBefore
  <2>3. sendQ'[r] = sendQ[r] + 1
    BY <1>3, <1>6, <2>2
  <2> QED
    BY <1>1, <1>2, <1>5, <2>1, <2>3, Carriers DEF Carried
<1>7. CASE rec[r].batch # b
  <2>1. Fanned(r)' = Fanned(r)
    BY <1>2, <1>3, <1>4, <1>7 DEF Fanned, TypeOK
  <2>2. sendQ'[r] = sendQ[r]
    BY <1>3, <1>7
  <2> QED
    BY <1>2, <1>5, <2>1, <2>2, Carriers DEF Carried
<1> QED
  BY <1>6, <1>7

\* A due row becomes a send task: undisturbed, the row a scan selected still waits.
LEMMA ScanOneEach ==
    ASSUME TypeOK, OneEach, NEW s \in Scanners, NEW row \in scans[s],
           ScanClaim(s, row[1], row[2]), faults' = faults, overlaps' = overlaps
    PROVE  OneEach'
<1> SUFFICES ASSUME NEW r \in Recipients
             PROVE  Carried(r)' = IF r \in Outstanding' THEN 1 ELSE 0
  BY DEF OneEach
<1> DEFINE x == row[1]
           i == row[2]
<1>1. /\ Dormant' = Dormant /\ planQ' = planQ /\ Fanned(r)' = Fanned(r)
      /\ Working(r)' = Working(r) /\ Outstanding' = Outstanding
  BY DEF ScanClaim, Dormant, Fanned, Working, Outstanding
<1>2. faults \in Nat /\ overlaps \in Nat
  BY NumbersAre DEF Numbers
<1>3. /\ sendQ' = [sendQ EXCEPT ![x] = @ + 1]
      /\ retries' = [retries EXCEPT ![x].pending = retries[x].pending \ {i}]
      /\ i \in retries[x].pending
  BY <1>2 DEF ScanClaim, Fault, Overlap
<1>4. Carried(r) = IF r \in Outstanding THEN 1 ELSE 0
  BY DEF OneEach
<1> HIDE DEF x, i
<1>5. CASE x = r
  <2>1. retries'[r].pending = retries[r].pending \ {i}
    BY <1>3, <1>5 DEF TypeOK, RetryRows
  <2>2. Due(r)' = Due(r) - 1
    BY <1>3, <1>5, <2>1, DueCount
  <2>3. sendQ'[r] = sendQ[r] + 1
    BY <1>3, <1>5 DEF TypeOK
  <2> QED
    BY <1>1, <1>4, <2>2, <2>3, Carriers DEF Carried
<1>6. CASE x # r
  <2>1. Due(r)' = Due(r) /\ sendQ'[r] = sendQ[r]
    BY <1>3, <1>6 DEF TypeOK
  <2> QED
    BY <1>1, <1>4, <2>1 DEF Carried
<1> QED
  BY <1>5, <1>6

\* A check or a selection moves nothing.
LEMMA ReadOneEach ==
    ASSUME OneEach, UNCHANGED <<campaign, rows, queues, work>>
    PROVE  OneEach'
<1>1. \A r \in Recipients : Carried(r)' = Carried(r)
  BY DEF rows, queues, Carried, Dormant, Fanned, Working
<1>2. Outstanding' = Outstanding
  BY DEF rows, Outstanding
<1> QED
  BY <1>1, <1>2 DEF OneEach

\* A send task is never declined: its recipient is owed and its campaign sends.
LEMMA NeverDeclined ==
    ASSUME TypeOK, Undisturbed, Orderly, CompletedOwesNobody, NEW r \in Recipients
    PROVE  ~ SendDecline(r)
<1> SUFFICES ASSUME SendDecline(r) PROVE FALSE
  OBVIOUS
<1>1. sendQ[r] > 0 /\ OneEach
  BY DEF SendDecline, Orderly
<1>2. r \in Outstanding
  BY <1>1, Idling
<1>3. Carried(r) = 1
  BY <1>1, <1>2 DEF OneEach
<1>4. Dormant = 0
  BY <1>1, <1>3, Carriers DEF Carried
<1>5. campaign \in SENDING
  BY <1>2, <1>4 DEF Orderly, Dormant, CompletedOwesNobody
<1>6. rec[r].status \notin SETTLED
  BY <1>2 DEF Outstanding, OWED, SETTLED
<1> QED
  BY <1>5, <1>6 DEF SendDecline

LEMMA BeginOneEach ==
    ASSUME TypeOK, OneEach, NEW w \in Workers, NEW x \in Recipients, SendBegin(w, x)
    PROVE  OneEach'
<1> SUFFICES ASSUME NEW r \in Recipients
             PROVE  Carried(r)' = IF r \in Outstanding' THEN 1 ELSE 0
  BY DEF OneEach
<1>1. /\ Dormant' = Dormant /\ planQ' = planQ /\ Fanned(r)' = Fanned(r)
      /\ Due(r)' = Due(r) /\ Outstanding' = Outstanding
  BY DEF SendBegin, Dormant, Fanned, Outstanding, rows
<1>2. /\ work'[w].recipient = x /\ work'[w].step = FirstStep(x)
      /\ \A v \in Workers \ {w} : work'[v] = work[v]
      /\ work[w].step = "idle"
  BY DEF SendBegin, TypeOK
<1>3. FirstStep(x) \in {"accept", "sent", "failed", "call"}
  BY DEF FirstStep
<1>4. Carried(r) = IF r \in Outstanding THEN 1 ELSE 0
  BY DEF OneEach
<1>5. w \notin Working(r)
  BY <1>2 DEF Working
<1>6. CASE x = r
  <2>1. sendQ'[r] = sendQ[r] - 1
    BY <1>6 DEF SendBegin, TypeOK
  <2>2. Working(r)' = Working(r) \cup {w}
    BY <1>2, <1>3, <1>6 DEF Working
  <2>3. Cardinality(Working(r)') = Cardinality(Working(r)) + 1
    BY <1>5, <2>2, WorkingCount
  <2> QED
    BY <1>1, <1>4, <2>1, <2>3, Carriers DEF Carried
<1>7. CASE x # r
  <2>1. sendQ'[r] = sendQ[r]
    BY <1>7 DEF SendBegin, TypeOK
  <2>2. Working(r)' = Working(r)
    BY <1>2, <1>5, <1>7 DEF Working
  <2> QED
    BY <1>1, <1>4, <2>1, <2>2 DEF Carried
<1> QED
  BY <1>6, <1>7

\* The steps of a running send task: it carries its recipient until it writes an
\* outcome, or hands it to a retry row.
LEMMA ContinueFacts ==
    ASSUME TypeOK, Links, OneEach, Undisturbed', NEW w \in Workers, Continue(w),
           NEW r \in Recipients
    PROVE  /\ planQ' = planQ /\ sendQ'[r] = sendQ[r] /\ Fanned(r)' = Fanned(r)
           /\ rec'[r].batch = rec[r].batch
           /\ campaign' \in {campaign, "completed"}
           /\ \A v \in Workers \ {w} : work'[v] = work[v]
           /\ work[w].recipient \in Recipients
<1>1. UNCHANGED <<planQ, fanQ, sendQ>> /\ \A v \in Workers \ {w} : work'[v] = work[v]
  BY ContinueShape
<1>2. campaign' \in {campaign, "completed"}
  BY ContinueShape DEF SendProgress
<1>4. rec'[r].batch = rec[r].batch
  BY ContinueBatch
<1>5. work[w].recipient \in Recipients
  BY ContinueShape DEF Links, JobsMakeSense
<1>6. Fanned(r)' = Fanned(r)
  BY <1>1, <1>4 DEF Fanned
<1> QED
  BY <1>1, <1>2, <1>4, <1>5, <1>6

\* A completion comes when nobody is owed, and then nothing is dormant.
LEMMA ContinueDormant ==
    ASSUME TypeOK, Links, OneEach, Undisturbed', NEW w \in Workers, Continue(w)
    PROVE  Dormant' = Dormant
<1>1. CASE UNCHANGED campaign
  BY <1>1 DEF Dormant
<1>2. CASE ~ UNCHANGED campaign
  <2>1. SendProgress(w)
    BY <1>2, ContinueShape
  <2>2. Outstanding = {} /\ campaign' = "completed"
    BY <1>2, <2>1 DEF SendProgress
  <2>3. 1 \in Recipients
    BY Bounds
  <2>4. Dormant = 0
    BY <2>2, <2>3, Idling
  <2> QED
    BY <2>2, <2>4 DEF Dormant, DISPATCHABLE
<1> QED
  BY <1>1, <1>2

\* A step on the way to the outcome.
LEMMA MoveOneEach ==
    ASSUME TypeOK, Links, OneEach, Undisturbed', NEW w \in Workers,
           SendAccept(w) \/ SendLink(w) \/ SendCall(w) \/ SendRefused(w) \/ SendReceipt(w)
    PROVE  OneEach'
<1> SUFFICES ASSUME NEW r \in Recipients
             PROVE  Carried(r)' = IF r \in Outstanding' THEN 1 ELSE 0
  BY DEF OneEach
<1>0. Continue(w)
  BY DEF Continue
<1>1. /\ work[w].step \in {"accept", "link", "call", "receipt"}
      /\ work'[w].step \in {"link", "call", "receipt", "sent", "failed"}
      /\ work'[w].recipient = work[w].recipient
  BY DEF SendAccept, SendLink, SendCall, SendRefused, SendReceipt, TypeOK, Job
<1>2. Working(r)' = Working(r)
  BY <1>0, <1>1, ContinueFacts DEF Working
<1>3. retries' = retries
  BY DEF SendAccept, SendLink, SendCall, SendRefused, SendReceipt, rows
<1>4. r \in Outstanding' <=> r \in Outstanding
  <2>1. CASE SendLink(w)
    <3>1. CASE work[w].recipient = r
      <4>1. r \in Outstanding
        BY <1>1, <3>1, Carrying DEF Working
      <4>2. rec'[r].status = "queued"
        BY <2>1, <3>1 DEF SendLink, TypeOK, Recipient
      <4> QED
        BY <4>1, <4>2 DEF Outstanding, OWED
    <3>2. CASE work[w].recipient # r
      BY <2>1, <3>2 DEF SendLink, TypeOK, Outstanding
    <3> QED
      BY <3>1, <3>2
  <2>2. CASE UNCHANGED rec
    BY <2>2 DEF Outstanding
  <2> QED
    BY <2>1, <2>2 DEF SendAccept, SendCall, SendRefused, SendReceipt, rows
<1>5. Carried(r) = IF r \in Outstanding THEN 1 ELSE 0
  BY DEF OneEach
<1> QED
  BY <1>0, <1>2, <1>3, <1>4, <1>5, ContinueFacts, ContinueDormant DEF Carried

\* The outcome, or another attempt: the worker lets go of its recipient.
LEMMA EndOneEach ==
    ASSUME TypeOK, Links, OneEach, Undisturbed', NEW w \in Workers,
           SendReject(w) \/ SendError(w) \/ SendOutcome(w)
    PROVE  OneEach'
<1> SUFFICES ASSUME NEW r \in Recipients
             PROVE  Carried(r)' = IF r \in Outstanding' THEN 1 ELSE 0
  BY DEF OneEach
<1> DEFINE x == work[w].recipient
<1>0. Continue(w)
  BY DEF Continue
<1>1. /\ work[w].step \in {"accept", "call", "sent", "failed"}
      /\ work'[w].step \in {"idle", "progress", "settle"}
  BY DEF SendReject, SendError, SendOutcome, TypeOK, Job, Idle
<1>2. Carried(r) = IF r \in Outstanding THEN 1 ELSE 0
  BY DEF OneEach
<1>3. CASE x = r
  <2>1. w \in Working(r)
    BY <1>1, <1>3 DEF Working
  <2>2. /\ r \in Outstanding
        /\ Dormant = 0 /\ planQ = 0 /\ Fanned(r) = 0 /\ sendQ[r] = 0
        /\ Due(r) = 0 /\ Cardinality(Working(r)) = 1
    BY <2>1, Carrying
  <2>3. Working(r)' = Working(r) \ {w}
    <3>1. \A v \in Workers \ {w} : work'[v] = work[v]
      BY <1>0, ContinueShape
    <3>2. w \notin Working(r)'
      BY <1>1 DEF Working
    <3>3. \A v \in Workers \ {w} : v \in Working(r)' <=> v \in Working(r)
      BY <3>1 DEF Working
    <3> QED
      BY <3>2, <3>3 DEF Working
  <2>4. Cardinality(Working(r)') = 0
    BY <2>1, <2>2, <2>3, WorkingCount
  <2>5. Due(r)' = IF r \in Outstanding' THEN 1 ELSE 0
    <3>1. CASE SendReject(w) \/ SendOutcome(w)
      <4>1. rec'[r].status \in {"sent", "failed"} /\ retries' = retries
        <5>1. CASE SendReject(w)
          BY <1>3, <5>1 DEF SendReject, TypeOK, Recipient
        <5>2. CASE SendOutcome(w)
          BY <1>3, <5>2 DEF SendOutcome, TypeOK, Recipient
        <5> QED
          BY <3>1, <5>1, <5>2
      <4> QED
        BY <2>2, <4>1 DEF Outstanding, OWED
    <3>2. CASE SendError(w) /\ RecordAttempt(r, work[w].attempts + 1)
      <4>1. rec'[r].status = rec[r].status
        BY <3>2 DEF RecordAttempt, TypeOK, Recipient
      <4>2. Due(r)' = 1
        BY <2>2, <3>2, AttemptDue
      <4> QED
        BY <2>2, <4>1, <4>2 DEF Outstanding
    <3>3. CASE SendError(w) /\ Exhaust(r)
      <4>1. rec'[r].status = "failed"
        BY <3>3 DEF Exhaust, TypeOK, Recipient
      <4>2. Due(r)' = 0
        BY <3>3, AttemptDue
      <4> QED
        BY <4>1, <4>2 DEF Outstanding, OWED
    <3> QED
      BY <1>3, <3>1, <3>2, <3>3 DEF SendError
  <2> QED
    BY <1>0, <2>2, <2>4, <2>5, ContinueFacts, ContinueDormant DEF Carried
<1>4. CASE x # r
  <2>1. Working(r)' = Working(r)
    BY <1>0, <1>1, <1>4, ContinueFacts DEF Working
  <2>2. rec'[r] = rec[r] /\ retries'[r] = retries[r]
    BY <1>4 DEF SendReject, SendError, SendOutcome, RecordAttempt, Exhaust, TypeOK
  <2>3. r \in Outstanding' <=> r \in Outstanding
    BY <2>2 DEF Outstanding
  <2> QED
    BY <1>0, <1>2, <2>1, <2>2, <2>3, ContinueFacts, ContinueDormant DEF Carried
<1> QED
  BY <1>3, <1>4

\* What is closed afterwards was empty: the recipient is settled.
LEMMA CloseOneEach ==
    ASSUME TypeOK, Links, OneEach, ClosedIsSettled, Undisturbed', NEW w \in Workers,
           SendSettle(w) \/ SendProgress(w)
    PROVE  OneEach'
<1> SUFFICES ASSUME NEW r \in Recipients
             PROVE  Carried(r)' = IF r \in Outstanding' THEN 1 ELSE 0
  BY DEF OneEach
<1>0. Continue(w)
  BY DEF Continue
<1>1. /\ work[w].step \in {"settle", "close", "progress"}
      /\ work'[w].step \in {"idle", "close"}
  BY DEF SendSettle, SendProgress, TypeOK, Job, Idle
<1>2. Working(r)' = Working(r)
  BY <1>0, <1>1, ContinueFacts DEF Working
<1>3. Outstanding' = Outstanding
  BY DEF SendSettle, SendProgress, Outstanding
<1>4. Due(r)' = Due(r)
  <2>1. CASE SendSettle(w) /\ work[w].recipient = r
    <3>1. rec[r].status \in SETTLED
      BY <2>1 DEF SendSettle, ClosedIsSettled
    <3>2. r \notin Outstanding
      BY <3>1 DEF Outstanding, OWED, SETTLED
    <3>3. Due(r)' = 0
      <4>1. retries'[r].pending = {}
        BY <2>1 DEF SendSettle, TypeOK, RetryRows
      <4> QED
        BY <4>1, FS_EmptySet
    <3> QED
      BY <3>2, <3>3, Idling
  <2>2. CASE SendSettle(w) /\ work[w].recipient # r
    BY <2>2 DEF SendSettle, TypeOK
  <2>3. CASE SendProgress(w)
    BY <2>3 DEF SendProgress
  <2> QED
    BY <2>1, <2>2, <2>3
<1>5. Carried(r) = IF r \in Outstanding THEN 1 ELSE 0
  BY DEF OneEach
<1> QED
  BY <1>0, <1>2, <1>3, <1>4, <1>5, ContinueFacts, ContinueDormant DEF Carried

\* No resume commits: nothing is paused.
LEMMA NeverResumed ==
    ASSUME TypeOK, Orderly, overlaps' = overlaps, NEW q \in Requests
    PROVE  ~ Resume(q)
<1> SUFFICES ASSUME Resume(q) PROVE FALSE
  OBVIOUS
<1>1. Allows("resume", campaign)
  BY NumbersAre DEF Resume, Overlap, Numbers
<1> QED
  BY <1>1 DEF Allows, Orderly, DISPATCHABLE, SENDING

LEMMA NextOneEach ==
    ASSUME TypeOK, Links, FannedBatchesExist, Undisturbed, Orderly, CompletedOwesNobody,
           [Next]_vars, Undisturbed'
    PROVE  OneEach'
<1>1. OneEach /\ UntouchedBefore /\ ClosedIsSettled /\ faults' = faults /\ overlaps' = overlaps
  BY UndisturbedStep DEF Orderly
<1>2. ASSUME NEW q \in Requests, Start(q) PROVE OneEach'
  BY <1>1, <1>2, StartOneEach
<1>3. ASSUME NEW q \in Requests, (\E verb \in Verbs : Ask(q, verb)) \/ Withdraw(q)
      PROVE  OneEach'
  BY <1>1, <1>3, ReadOneEach DEF Ask, Withdraw
<1>4. \A q \in Requests : ~ Resume(q)
  BY <1>1, NeverResumed
<1>5. CASE Control
  BY <1>1, <1>5, PlanOneEach, FanOutOneEach, ScanOneEach, ReadOneEach DEF Control, ScanRead
<1>6. CASE Send
  <2>1. ASSUME NEW w \in Workers, Continue(w) PROVE OneEach'
    BY <1>1, <2>1, MoveOneEach, EndOneEach, CloseOneEach DEF Continue
  <2> QED
    BY <1>1, <1>6, <2>1, NeverDeclined, BeginOneEach DEF Send
<1>7. CASE UNCHANGED vars
  BY <1>1, <1>7, ReadOneEach DEF vars
<1> QED
  BY <1>2, <1>3, <1>4, <1>5, <1>6, <1>7, UndisturbedStep DEF Next, Operator

\* Nobody is touched before the plan, or before its batch is fanned out.
LEMMA NextUntouched ==
    ASSUME TypeOK, Links, FannedBatchesExist, Undisturbed, Orderly, CompletedOwesNobody,
           [Next]_vars, Undisturbed'
    PROVE  UntouchedBefore'
<1>1. /\ OneEach /\ UntouchedBefore /\ ClosedIsSettled
      /\ faults' = faults /\ faults \in Nat /\ overlaps' = overlaps
  BY UndisturbedStep, NumbersAre DEF Orderly, Numbers
<1>2. planQ \in Nat /\ Dormant \in {0, 1} /\ 1 \in Recipients
  BY Bounds, Carriers
<1>3. ASSUME NEW q \in Requests, Start(q) PROVE UntouchedBefore'
  <2>0. Allows("start", campaign)
    BY <1>1, <1>3, NumbersAre DEF Start, Overlap, Numbers
  <2>1. Dormant + planQ > 0 /\ UNCHANGED <<rec, batch, fanQ>>
    BY <1>2, <1>3, <2>0 DEF Start, Allows, Dormant, rows
  <2>2. \A r \in Recipients : Fanned(r)' = Fanned(r)
    BY <2>1 DEF Fanned
  <2> QED
    BY <1>1, <2>1, <2>2 DEF UntouchedBefore
<1>4. CASE Plan
  <2>1. planQ > 0
    BY <1>4 DEF Plan
  <2>2. \A r \in Recipients : rec[r].status = "pending" /\ rec'[r].status = "pending"
    BY <1>1, <1>2, <1>4, <2>1 DEF UntouchedBefore, Plan, TypeOK, Recipient
  <2>3. 1 \in Outstanding
    BY <1>2, <2>2 DEF Outstanding, OWED
  <2>4. Carried(1) = 1
    BY <1>1, <1>2, <2>3 DEF OneEach
  <2>5. planQ = 1
    BY <1>2, <2>1, <2>4, Carriers DEF Carried
  <2>6. Dormant' = 0 /\ planQ' = planQ - 1
    BY <1>1, <1>4 DEF Plan, Fault, Dormant, DISPATCHABLE
  <2> QED
    BY <2>2, <2>5, <2>6 DEF UntouchedBefore
<1>5. ASSUME NEW b \in Batches, FanOut(b) PROVE UntouchedBefore'
  <2>1. UNCHANGED <<rec, planQ, campaign>>
    BY <1>5 DEF FanOut
  <2>2. Dormant' = Dormant
    BY <2>1 DEF Dormant
  <2>3. batch[b] # "none"
    BY <1>5 DEF FanOut, FannedBatchesExist
  <2>4. ASSUME NEW r \in Recipients, Fanned(r)' > 0 PROVE rec'[r].status = "pending"
    <3>1. rec[r].batch \in 0 .. MaxBatches
      BY RowBatch
    <3>2. \A c \in Batches : fanQ'[c] \in {fanQ[c], fanQ[c] - 1} /\ fanQ[c] \in Nat
      BY <1>5 DEF FanOut, TypeOK
    <3>3. Fanned(r) > 0
      BY <2>1, <2>4, <3>1, <3>2, Bounds DEF Fanned
    <3> QED
      BY <1>1, <2>1, <3>3 DEF UntouchedBefore
  <2> QED
    BY <1>1, <2>1, <2>2, <2>3, <2>4 DEF UntouchedBefore
<1>6. CASE UNCHANGED <<rec, batch, fanQ, planQ, campaign>>
  BY <1>1, <1>6 DEF UntouchedBefore, Dormant, Fanned
<1>7. ASSUME NEW w \in Workers, NEW r \in Recipients, SendBegin(w, r) PROVE UntouchedBefore'
  BY <1>6, <1>7 DEF SendBegin, rows
<1>8. ASSUME NEW w \in Workers, Continue(w) PROVE UntouchedBefore'
  <2> DEFINE x == work[w].recipient
  <2>1. x \in Recipients /\ Dormant' = Dormant /\ planQ' = planQ
    BY <1>1, <1>2, <1>8, ContinueFacts, ContinueDormant
  <2>2. \A r \in Recipients : Fanned(r)' = Fanned(r) /\ rec'[r].batch = rec[r].batch
    BY <1>1, <1>8, ContinueFacts
  <2>3. CASE UNCHANGED <<rec, batch>>
    BY <1>1, <2>1, <2>2, <2>3 DEF UntouchedBefore
  <2>4. CASE work[w].step \in {"accept", "link", "call", "receipt", "sent", "failed"}
    <3>1. w \in Working(x)
      BY <2>4 DEF Working
    <3>2. Dormant = 0 /\ planQ = 0 /\ Fanned(x) = 0
      BY <1>1, <2>1, <3>1, Carrying
    <3>3. \A r \in Recipients \ {x} : rec'[r] = rec[r]
      BY <1>8 DEF Continue, SendAccept, SendReject, SendLink, SendCall, SendRefused, SendError,
         RecordAttempt, Exhaust, SendReceipt, SendOutcome, SendSettle, SendProgress, rows, TypeOK
    <3>4. \A r \in Recipients : Fanned(r)' > 0 => rec'[r].status = "pending"
      BY <1>1, <2>2, <3>2, <3>3 DEF UntouchedBefore
    <3> QED
      BY <2>1, <3>2, <3>4 DEF UntouchedBefore
  <2>5. CASE SendProgress(w) /\ work[w].step = "close"
    <3>1. rec[x].status \in SETTLED
      BY <1>1, <2>5 DEF ClosedIsSettled
    <3>2. x \notin Outstanding
      BY <3>1 DEF Outstanding, OWED, SETTLED
    <3>3. Dormant = 0 /\ planQ = 0
      BY <1>1, <2>1, <3>2, Idling
    <3>4. UNCHANGED rec
      BY <2>5 DEF SendProgress
    <3> QED
      BY <1>1, <2>1, <2>2, <3>3, <3>4 DEF UntouchedBefore
  <2>6. CASE SendProgress(w) /\ work[w].step # "close"
    BY <2>3, <2>6 DEF SendProgress
  <2> QED
    BY <1>8, <2>3, <2>4, <2>5, <2>6
    DEF Continue, SendAccept, SendReject, SendLink, SendCall, SendRefused, SendError, SendReceipt,
        SendOutcome, SendSettle
<1>9. CASE UNCHANGED vars
  BY <1>1, <1>9 DEF vars, rows, queues, UntouchedBefore, Dormant, Fanned
<1>10. (\A q \in Requests : ~ Resume(q)) /\ \A r \in Recipients : ~ SendDecline(r)
  BY <1>1, NeverResumed, NeverDeclined
<1> QED
  BY <1>3, <1>4, <1>5, <1>6, <1>7, <1>8, <1>9, <1>10, UndisturbedStep
  DEF Next, Operator, Ask, Withdraw, Control, ScanRead, ScanClaim, Send, rows, queues

\* Who closes has written the outcome, which stays.
LEMMA NextClosed ==
    ASSUME TypeOK, Links, Undisturbed, Orderly, [Next]_vars, Undisturbed'
    PROVE  ClosedIsSettled'
<1> SUFFICES ASSUME NEW w \in Workers, work'[w].step \in {"settle", "close"}
             PROVE  rec'[work'[w].recipient].status \in SETTLED
  BY DEF ClosedIsSettled
<1>1. OneEach /\ ClosedIsSettled
  BY DEF Orderly
<1>2. CASE work'[w].recipient = work[w].recipient /\ work[w].step \in {"settle", "close"}
  <2>1. work[w].recipient \in Recipients /\ rec[work[w].recipient].status \in SETTLED
    BY <1>1, <1>2 DEF ClosedIsSettled, Links, JobsMakeSense
  <2>2. work[w].recipient \notin Outstanding
    BY <2>1 DEF Outstanding, OWED, SETTLED
  <2> QED
    BY <1>1, <1>2, <2>1, <2>2, StatusStays
<1>3. CASE SendOutcome(w)
  <2>1. work[w].recipient \in Recipients /\ work'[w].recipient = work[w].recipient
    BY <1>3 DEF SendOutcome, Links, JobsMakeSense, TypeOK, Job
  <2>2. rec'[work[w].recipient].status \in {"sent", "failed"}
    BY <1>3, <2>1 DEF SendOutcome, TypeOK, Recipient
  <2> QED
    BY <2>1, <2>2 DEF SETTLED
<1>4. ASSUME NEW v \in Workers, Continue(v), ~ (v = w /\ SendOutcome(w))
      PROVE  work'[w].recipient = work[w].recipient /\ work[w].step \in {"settle", "close"}
  <2>1. CASE v # w
    BY <1>4, <2>1 DEF Continue, SendAccept, SendReject, SendLink, SendCall, SendRefused, SendError,
       SendReceipt, SendOutcome, SendSettle, SendProgress, TypeOK
  <2>2. CASE v = w /\ SendSettle(w)
    BY <2>2 DEF SendSettle, TypeOK, Job
  <2>3. CASE v = w /\ ~ SendSettle(w) /\ ~ SendOutcome(w)
    BY <1>4, <2>3 DEF Continue, SendAccept, SendReject, SendLink, SendCall, SendRefused, SendError,
       SendReceipt, SendProgress, Idle, TypeOK, Job
  <2> QED
    BY <1>4, <2>1, <2>2, <2>3
<1>5. ASSUME NEW v \in Workers, NEW r \in Recipients, SendBegin(v, r)
      PROVE  work'[w].recipient = work[w].recipient /\ work[w].step \in {"settle", "close"}
  <2>1. FirstStep(r) \notin {"settle", "close"}
    BY DEF FirstStep
  <2> QED
    BY <1>5, <2>1 DEF SendBegin, TypeOK
<1>6. CASE UNCHANGED work
  BY <1>2, <1>6
<1> QED
  BY <1>2, <1>3, <1>4, <1>5, <1>6, UndisturbedStep
  DEF Next, vars, Operator, Ask, Withdraw, Start, Resume, Control, Plan, FanOut, ScanRead, ScanClaim,
      Send, SendDecline

\* A campaign is completed, and a batch done, when nobody of it is owed.
LEMMA NextCompleted ==
    ASSUME TypeOK, Links, Undisturbed, Orderly, CompletedOwesNobody, [Next]_vars, Undisturbed'
    PROVE  CompletedOwesNobody'
<1>1. OneEach /\ UntouchedBefore
  BY DEF Orderly
<1>2. Outstanding' \subseteq Outstanding
  BY <1>1, OwedShrinks
<1>3. campaign' = "completed" => Outstanding' = {}
  <2>1. CASE campaign = "completed"
    BY <1>2, <2>1 DEF CompletedOwesNobody
  <2>2. CASE UNCHANGED campaign
    BY <2>1, <2>2
  <2>3. ASSUME NEW w \in Workers, Continue(w) PROVE campaign' = "completed" => Outstanding' = {}
    <3>1. CASE SendProgress(w)
      BY <1>2, <2>2, <3>1 DEF SendProgress
    <3> QED
      BY <2>2, <2>3, <3>1, ContinueShape
  <2>4. CASE (\E q \in Requests : Start(q) \/ Resume(q)) \/ Plan
    BY <2>4 DEF Start, Resume, Plan
  <2> QED
    BY <2>1, <2>2, <2>3, <2>4, UndisturbedStep
    DEF Next, vars, Operator, Ask, Withdraw, Control, FanOut, ScanRead, ScanClaim,
        Send, SendDecline, SendBegin
<1>4. ASSUME NEW b \in Batches, batch'[b] = "done", NEW r \in Outstanding', rec'[r].batch = b
      PROVE  FALSE
  <2>1. r \in Recipients /\ r \in Outstanding
    BY <1>2, <1>4 DEF Outstanding
  <2>2. CASE Plan
    <3>1. batch[b] = "done"
      BY <1>4, <2>2 DEF Plan
    <3>2. planQ > 0 /\ planQ \in Nat /\ Dormant \in {0, 1}
      BY <2>1, <2>2, Carriers DEF Plan
    <3> QED
      BY <1>1, <3>1, <3>2 DEF UntouchedBefore
  <2>3. ASSUME NEW w \in Workers, SendProgress(w) PROVE FALSE
    <3>1. rec[r].batch = b
      BY <1>4, <2>3 DEF SendProgress
    <3>2. batch[b] = "done" \/ \A y \in Outstanding : rec[y].batch # b
      BY <1>4, <2>3 DEF SendProgress, TypeOK
    <3> QED
      BY <2>1, <3>1, <3>2 DEF CompletedOwesNobody
  <2>4. ASSUME rec'[r].batch = rec[r].batch, batch[b] = "done" PROVE FALSE
    BY <1>4, <2>1, <2>4 DEF CompletedOwesNobody
  <2>5. ASSUME NEW c \in Batches, FanOut(c) PROVE FALSE
    BY <1>4, <2>4, <2>5 DEF FanOut, TypeOK
  <2>6. ASSUME NEW w \in Workers, Continue(w) PROVE FALSE
    <3>1. rec'[r].batch = rec[r].batch
      BY <1>1, <2>1, <2>6, ContinueFacts
    <3>2. SendProgress(w) \/ UNCHANGED batch
      BY <2>6, ContinueShape
    <3> QED
      BY <1>4, <2>3, <2>4, <3>1, <3>2
  <2>7. CASE UNCHANGED <<rec, batch>>
    BY <1>4, <2>4, <2>7
  <2> QED
    BY <2>2, <2>5, <2>6, <2>7, UndisturbedStep
    DEF Next, vars, rows, Operator, Ask, Withdraw, Start, Resume, Control, ScanRead, ScanClaim,
        Send, SendDecline, SendBegin
<1> QED
  BY <1>3, <1>4 DEF CompletedOwesNobody

LEMMA NextOrderly ==
    ASSUME TypeOK, Links, FannedBatchesExist, Undisturbed => Orderly, CompletedOwesNobody,
           [Next]_vars
    PROVE  (Undisturbed => Orderly)' /\ CompletedOwesNobody'
<1>1. CASE ~ Undisturbed'
  BY <1>1 DEF CompletedOwesNobody
<1>2. CASE Undisturbed'
  <2>1. Undisturbed /\ Orderly
    BY <1>2, UndisturbedStep
  <2>2. campaign' \in {campaign, "queued", "running", "completed"}
    <3>1. ASSUME NEW w \in Workers, Continue(w) PROVE campaign' \in {campaign, "completed"}
      BY <3>1, ContinueShape DEF SendProgress
    <3>2. CASE (\E q \in Requests : Start(q) \/ Resume(q)) \/ Plan
      BY <3>2 DEF Start, Resume, Plan
    <3> QED
      BY <1>2, <3>1, <3>2, UndisturbedStep
      DEF Next, vars, Operator, Ask, Withdraw, Control, FanOut, ScanRead, ScanClaim,
          Send, SendDecline, SendBegin
  <2>3. campaign' \in DISPATCHABLE \cup SENDING \cup {"completed"}
    BY <2>1, <2>2 DEF Orderly, SENDING
  <2> QED
    BY <1>2, <2>1, <2>3, NextOneEach, NextUntouched, NextClosed, NextCompleted DEF Orderly
<1> QED
  BY <1>1, <1>2

\* The invariant that the safety theorems share is inductive: it holds at
\* first and every step keeps it.
THEOREM IInvHolds == Spec => []IInv
<1>1. Init => IInv
  <2>1. Init => CompletedOwesNobody
    BY DEF Init, CompletedOwesNobody, DISPATCHABLE
  <2> QED
    BY <2>1, InitTypeOK, InitLinks, InitAccount, InitOrderly DEF IInv, Links
<1>2. IInv /\ [Next]_vars => IInv'
  BY NextType, NextLinks, NextFanned, NextAccount, NextOrderly DEF IInv, Links
<1> QED
  BY <1>1, <1>2, PTL DEF Spec

\* The channel takes a recipient's message at most once, and once more for every
\* fault, pause or manual retry so far, and for every start, resume or claim that
\* acted on what another had taken: however the tasks of a campaign interleave on
\* however many workers, a duplicate has one of these behind it.
THEOREM DuplicatesHaveACause == Spec => []DuplicatesAreAccounted
<1>1. IInv => DuplicatesAreAccounted
  <2> SUFFICES ASSUME IInv, NEW r \in Recipients
               PROVE  calls[r] <= 1 + Causes
    BY DEF DuplicatesAreAccounted
  <2>1. calls[r] + Chances(r) <= 1 + Causes
    BY DEF IInv, Accounted
  <2>2. TypeOK
    BY DEF IInv
  <2> QED
    BY <2>1, <2>2, Terms DEF Chances
<1> QED
  BY <1>1, IInvHolds, PTL

\* A campaign that no fault, pause, cancellation, manual retry or overlap has
\* reached owes nobody once it is completed, and nobody in a batch that is done
\* (refresh_progress, complete_if_settled).
THEOREM CompletedCampaignOwesNobody == Spec => []CompletedOwesNobody
<1>1. IInv => CompletedOwesNobody
  BY DEF IInv
<1> QED
  BY <1>1, IInvHolds, PTL

\* Such a campaign, running with nothing left in any lane, owes nobody: no order
\* of batches, sends and re-attempts loses the one thing that will see to a
\* recipient.
THEOREM NobodyIsStranded == Spec => []NobodyStranded
<1>1. IInv => NobodyStranded
  <2> SUFFICES ASSUME IInv, Undisturbed, campaign = "running", Quiet,
                      NEW r \in Recipients, r \in Outstanding
               PROVE  FALSE
    BY DEF NobodyStranded, Outstanding
  <2>1. TypeOK /\ OneEach
    BY DEF IInv, Orderly
  <2>2. Carried(r) = 1
    BY <2>1 DEF OneEach
  <2>3. Dormant = 0 /\ planQ = 0 /\ sendQ[r] = 0 /\ Due(r) = 0
    <3>1. retries[r].pending = {}
      BY DEF Quiet
    <3>2. Due(r) = 0
      BY <3>1, FS_EmptySet
    <3> QED
      BY <3>2 DEF Dormant, DISPATCHABLE, Quiet
  <2>4. Fanned(r) = 0
    BY <2>1, RowBatch, Bounds DEF Fanned, Quiet
  <2>5. Cardinality(Working(r)) = 0
    <3>1. Working(r) = {}
      BY DEF Working, Quiet
    <3> QED
      BY <3>1, FS_EmptySet
  <2> QED
    BY <2>2, <2>3, <2>4, <2>5 DEF Carried
<1> QED
  BY <1>1, IInvHolds, PTL

\* And every outcome it writes is final: no task that read the recipient before
\* another one settled it is still there to write over it.
THEOREM OutcomesAreFinal == Spec => OutcomeIsFinal
<1> DEFINE Final == \A r \in Recipients :
               Undisturbed' /\ rec[r].status \in SETTLED => rec'[r].status = rec[r].status
<1>1. IInv /\ [Next]_vars => [Final]_vars
  <2> SUFFICES ASSUME IInv, [Next]_vars, NEW r \in Recipients,
                      Undisturbed', rec[r].status \in SETTLED
               PROVE  rec'[r].status = rec[r].status
    OBVIOUS
  <2>1. TypeOK /\ Links
    BY DEF IInv, Links
  <2>2. OneEach
    BY <2>1, UndisturbedStep DEF IInv, Orderly
  <2>3. r \notin Outstanding
    BY DEF Outstanding, SETTLED, OWED
  <2> QED
    BY <2>1, <2>2, <2>3, StatusStays
<1> QED
  BY <1>1, IInvHolds, PTL DEF Spec, OutcomeIsFinal

=============================================================================
