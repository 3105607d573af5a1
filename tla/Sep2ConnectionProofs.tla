------------------------ MODULE Sep2ConnectionProofs ------------------------
(***************************************************************************)
(* Proofs about Sep2Connection, for every bound and whatever the server    *)
(* answers: the loop, its retries and its resets implement the outbox, the *)
(* outbox posts in order, and work that is left undone is retried.         *)
(***************************************************************************)
EXTENDS Sep2Connection, TLAPS

-----------------------------------------------------------------------------
(* The outbox, by itself. *)

LEMMA NonemptyHasLength ==
  ASSUME NEW queue \in Seq(Nat), queue # <<>>
  PROVE  Len(queue) > 0
OBVIOUS

(* A queue without its oldest is ordered as it was. *)
LEMMA TailOrdered ==
  ASSUME NEW queue \in Seq(Nat), Len(queue) > 0,
         \A i, j \in DOMAIN queue : i < j => queue[i] < queue[j]
  PROVE  /\ Tail(queue) \in Seq(Nat)
         /\ \A i \in DOMAIN Tail(queue) : i + 1 \in DOMAIN queue /\ Tail(queue)[i] = queue[i + 1]
         /\ \A i, j \in DOMAIN Tail(queue) : i < j => Tail(queue)[i] < Tail(queue)[j]
         /\ 1 \in DOMAIN queue /\ Head(queue) = queue[1]
<1>1. Len(queue) \in Nat /\ Len(queue) > 0
  OBVIOUS
<1>2. \A i \in DOMAIN Tail(queue) :
        i \in Nat /\ i + 1 \in DOMAIN queue /\ Tail(queue)[i] = queue[i + 1]
  BY <1>1
<1>3. QED
  BY <1>1, <1>2

(* A longer queue is ordered as the shorter one was. *)
LEMMA PushOrdered ==
  ASSUME NEW queue \in Seq(Nat), NEW n \in Nat,
         \A j \in DOMAIN queue : queue[j] < n,
         \A i, j \in DOMAIN queue : i < j => queue[i] < queue[j]
  PROVE  /\ Out!Push(queue, n) \in Seq(Nat)
         /\ \A i, j \in DOMAIN Out!Push(queue, n) :
              i < j => Out!Push(queue, n)[i] < Out!Push(queue, n)[j]
         /\ \A i \in DOMAIN Out!Push(queue, n) :
              Out!Push(queue, n)[i] = n \/ \E j \in DOMAIN queue : Out!Push(queue, n)[i] = queue[j]
<1> DEFINE longer == Append(queue, n)
<1>1. longer \in Seq(Nat) /\ Len(longer) = Len(queue) + 1 /\ Len(longer) > 0
  OBVIOUS
<1>2. \A i \in DOMAIN longer :
        longer[i] = IF i = Len(queue) + 1 THEN n ELSE queue[i]
  OBVIOUS
<1>3. \A i, j \in DOMAIN longer : i < j => longer[i] < longer[j]
  BY <1>1, <1>2
<1>4. \A i \in DOMAIN longer : longer[i] = n \/ \E j \in DOMAIN queue : longer[i] = queue[j]
  BY <1>1, <1>2
<1>5. /\ Tail(longer) \in Seq(Nat)
      /\ \A i \in DOMAIN Tail(longer) : i + 1 \in DOMAIN longer /\ Tail(longer)[i] = longer[i + 1]
      /\ \A i, j \in DOMAIN Tail(longer) : i < j => Tail(longer)[i] < Tail(longer)[j]
  BY <1>1, <1>3, TailOrdered
<1> HIDE DEF longer
<1>6. CASE Out!Push(queue, n) = longer
  BY <1>1, <1>3, <1>4, <1>6
<1>7. CASE Out!Push(queue, n) = Tail(longer)
  BY <1>4, <1>5, <1>7
<1>8. QED
  BY <1>6, <1>7 DEF Out!Push, longer

LEMMA AppendEntries ==
  ASSUME NEW log \in Seq(Nat), NEW n \in Nat
  PROVE  /\ Append(log, n) \in Seq(Nat)
         /\ \A i \in DOMAIN Append(log, n) :
              \/ i \in DOMAIN log /\ Append(log, n)[i] = log[i]
              \/ i = Len(log) + 1 /\ i \notin DOMAIN log /\ Append(log, n)[i] = n
OBVIOUS

(* The outbox posts in order: a response that stays in the queue, or is put  *)
(* back, is older than all those behind it, and newer than all that went.    *)
LEMMA OutboxInit == Out!Init => Out!OutboxInv
BY DEF Out!Init, Out!OutboxInv, Out!OutboxTypeOK, Out!QueueOrdered, Out!PostedInOrder

LEMMA OutboxStep == Out!OutboxInv /\ [Out!Next]_(Out!outboxVars) => Out!OutboxInv'
<1> SUFFICES ASSUME Out!OutboxInv, [Out!Next]_(Out!outboxVars)
             PROVE  Out!OutboxInv'
  OBVIOUS
<1> USE DEF Out!OutboxInv, Out!OutboxTypeOK, Out!QueueOrdered, Out!PostedInOrder
<1>1. CASE Out!Accept
  <2>1. /\ responses' = Out!Push(responses, accepted + 1)
        /\ accepted' = accepted + 1 /\ posted' = posted
    BY <1>1 DEF Out!Accept
  <2>2. \A j \in DOMAIN responses : responses[j] \in Nat /\ responses[j] < accepted + 1
    OBVIOUS
  <2>3. /\ responses' \in Seq(Nat)
        /\ \A i, j \in DOMAIN responses' : i < j => responses'[i] < responses'[j]
        /\ \A i \in DOMAIN responses' :
             responses'[i] = accepted + 1 \/ \E j \in DOMAIN responses : responses'[i] = responses[j]
    BY <2>1, <2>2, PushOrdered
  <2>4. \A i \in DOMAIN posted : posted[i] \in Nat /\ posted[i] <= accepted
    OBVIOUS
  <2>5. \A j \in DOMAIN responses' : responses'[j] <= accepted'
    <3> SUFFICES ASSUME NEW j \in DOMAIN responses'
                 PROVE  responses'[j] <= accepted + 1
      BY <2>1
    <3>1. CASE responses'[j] = accepted + 1
      BY <3>1
    <3>2. CASE \E k \in DOMAIN responses : responses'[j] = responses[k]
      BY <2>2, <3>2
    <3>3. QED
      BY <2>3, <3>1, <3>2
  <2>6. \A i \in DOMAIN posted', j \in DOMAIN responses' : posted'[i] <= responses'[j]
    <3> SUFFICES ASSUME NEW i \in DOMAIN posted, NEW j \in DOMAIN responses'
                 PROVE  posted[i] <= responses'[j]
      BY <2>1
    <3>1. CASE responses'[j] = accepted + 1
      BY <2>4, <3>1
    <3>2. CASE \E k \in DOMAIN responses : responses'[j] = responses[k]
      BY <3>2
    <3>3. QED
      BY <2>3, <3>1, <3>2
  <2>7. QED
    BY <2>1, <2>3, <2>4, <2>5, <2>6
<1>2. CASE Out!Post
  <2>1. /\ responses # <<>> /\ posted' = Append(posted, Head(responses))
        /\ responses' \in {responses, Tail(responses)} /\ accepted' = accepted
    BY <1>2 DEF Out!Post
  <2>2. Head(responses) \in Nat /\ Head(responses) = responses[1] /\ 1 \in DOMAIN responses
    BY <2>1, NonemptyHasLength, TailOrdered
  <2>3. \A j \in DOMAIN responses : Head(responses) <= responses[j]
    BY <2>2
  <2>4. /\ posted' \in Seq(Nat)
        /\ \A i \in DOMAIN posted' : posted'[i] = Head(responses) \/ (i \in DOMAIN posted /\ posted'[i] = posted[i])
        /\ \A i \in DOMAIN posted' : i \notin DOMAIN posted => posted'[i] = Head(responses)
    <3>1. posted' = Append(posted, Head(responses)) /\ posted \in Seq(Nat) /\ Head(responses) \in Nat
      BY <2>1, <2>2
    <3>2. QED
      BY <3>1, AppendEntries
  <2>5. \A i \in DOMAIN posted : posted[i] <= Head(responses)
    BY <2>2
  <2>6. \A i, j \in DOMAIN posted' : i < j => posted'[i] <= posted'[j]
    <3> SUFFICES ASSUME NEW i \in DOMAIN posted', NEW j \in DOMAIN posted', i < j
                 PROVE  posted'[i] <= posted'[j]
      OBVIOUS
    <3>1. i \in DOMAIN posted /\ posted'[i] = posted[i]
      BY <2>1, <2>2
    <3>2. CASE j \in DOMAIN posted
      BY <2>1, <2>2, <3>1, <3>2
    <3>3. CASE j \notin DOMAIN posted
      BY <2>4, <2>5, <3>1, <3>3
    <3>4. QED
      BY <3>2, <3>3
  <2>7. /\ responses' \in Seq(Nat)
        /\ \A i, j \in DOMAIN responses' : i < j => responses'[i] < responses'[j]
        /\ \A i \in DOMAIN responses' : \E j \in DOMAIN responses : responses'[i] = responses[j]
    <3>1. CASE responses' = responses
      BY <3>1
    <3>2. CASE responses' = Tail(responses)
      BY <2>1, <3>2, NonemptyHasLength, TailOrdered
    <3>3. QED
      BY <2>1, <3>1, <3>2
  <2>8. \A i \in DOMAIN posted', j \in DOMAIN responses' : posted'[i] <= responses'[j]
    <3> SUFFICES ASSUME NEW i \in DOMAIN posted', NEW j \in DOMAIN responses'
                 PROVE  posted'[i] <= responses'[j]
      OBVIOUS
    <3>1. PICK k \in DOMAIN responses : responses'[j] = responses[k]
      BY <2>7
    <3>2. QED
      BY <2>3, <2>4, <3>1
  <2>9. \A i \in DOMAIN posted' : posted'[i] <= accepted
    BY <2>2, <2>4
  <2>10. \A j \in DOMAIN responses' : responses'[j] <= accepted
    BY <2>7
  <2>11. QED
    BY <2>1, <2>4, <2>6, <2>7, <2>8, <2>9, <2>10
<1>3. CASE Out!Discard
  <2>1. responses # <<>> /\ responses' = Tail(responses) /\ UNCHANGED <<accepted, posted>>
    BY <1>3 DEF Out!Discard
  <2>2. /\ responses' \in Seq(Nat)
        /\ \A i, j \in DOMAIN responses' : i < j => responses'[i] < responses'[j]
        /\ \A i \in DOMAIN responses' : \E j \in DOMAIN responses : responses'[i] = responses[j]
    BY <2>1, NonemptyHasLength, TailOrdered
  <2>3. QED
    BY <2>1, <2>2
<1>4. CASE UNCHANGED Out!outboxVars
  BY <1>4 DEF Out!outboxVars
<1>5. QED
  BY <1>1, <1>2, <1>3, <1>4 DEF Out!Next

THEOREM OutboxInOrder == Out!Spec => []Out!PostedInOrder
<1>1. Out!OutboxInv => Out!PostedInOrder
  BY DEF Out!OutboxInv
<1>2. QED
  BY <1>1, OutboxInit, OutboxStep, PTL DEF Out!Spec

-----------------------------------------------------------------------------
(* The task implements the outbox. *)

(* Every action but four leaves the responses alone. *)
LEMMA StepsToOutbox == [Next]_vars => [Out!Next]_(Out!outboxVars)
<1> SUFFICES ASSUME [Next]_vars
             PROVE  Out!Next \/ UNCHANGED Out!outboxVars
  OBVIOUS
<1> USE DEF outbox, Out!outboxVars
<1>1. CASE TakeResponse
  <2>1. Out!Accept
    BY <1>1 DEF TakeResponse, Out!Accept, Push, Out!Push
  <2>2. QED
    BY <2>1 DEF Out!Next
<1>2. CASE ResponsePosted
  <2>1. Out!Post
    BY <1>2 DEF ResponsePosted, Received, Out!Post
  <2>2. QED
    BY <2>1 DEF Out!Next
<1>3. CASE ResponseDiscarded
  <2>1. Out!Discard
    BY <1>3 DEF ResponseDiscarded, Out!Discard
  <2>2. QED
    BY <2>1 DEF Out!Next
<1>4. CASE ResponseFailed
  <2>1. Out!Post \/ UNCHANGED outbox
    BY <1>4 DEF ResponseFailed, Received, Out!Post
  <2>2. QED
    BY <2>1 DEF Out!Next
<1>5. CASE TakeWake \/ TakeReset \/ (\E r \in Report : TakeReport(r))
           \/ TakePostRates \/ TakeSubscription
  BY <1>5 DEF TakeWake, TakeReset, TakeReport, TakePostRates, TakeSubscription
<1>6. CASE FetchDcap \/ EnsureDevice \/ ValidatePin \/ ResponsesSent \/ EnsureDer
           \/ \E i \in DOMAIN Reports : SendReport(i)
  BY <1>6 DEF FetchDcap, EnsureDevice, ValidatePin, ResponsesSent, EnsureDer, SendReport
<1>7. CASE MaintainRetry \/ RetryTask \/ DcapPolling \/ Environment
  BY <1>7 DEF MaintainRetry, RetryTask, RetryTimeout, RetrySend, DcapPolling, DcapPoll,
     DcapPollSend, Environment, ArriveResponse, ArriveOther, RateElapses, ServerChanges
<1>8. CASE Idle \/ UNCHANGED vars
  BY <1>8 DEF Idle, vars
<1>9. QED
  BY <1>1, <1>2, <1>3, <1>4, <1>5, <1>6, <1>7, <1>8 DEF Next, Loop, TakeCommand, Pass

(* Whatever the server answers, whatever arrives and whenever the connection *)
(* is reset, the responses go through the outbox and nothing else.           *)
THEOREM Implements == Spec => ImplementsOutbox
<1>1. Init => Out!Init
  BY DEF Init, Out!Init
<1>2. QED
  BY <1>1, StepsToOutbox, PTL DEF Spec, ImplementsOutbox, Out!Spec

(* ... and so reach the server in the order of the events they report. *)
THEOREM InOrder == Spec => []ResponsesInOrder
BY Implements, OutboxInOrder, PTL DEF ImplementsOutbox, ResponsesInOrder

-----------------------------------------------------------------------------
(* The shapes of the variables. *)

LEMMA ReportKinds ==
  /\ DOMAIN Reports = 1..4
  /\ ReportPcs = {"settings", "status", "capability", "readings"}
  /\ Reports[1] = "settings" /\ Reports[2] = "status"
  /\ Reports[3] = "capability" /\ Reports[4] = "readings"
<1>1. /\ DOMAIN Reports = 1..4
      /\ Reports[1] = "settings" /\ Reports[2] = "status"
      /\ Reports[3] = "capability" /\ Reports[4] = "readings"
  BY DEF Reports
<1>2. QED
  BY <1>1 DEF ReportPcs

(* An element taken from a queue, and one put into it. *)
LEMMA QueueTail ==
  ASSUME NEW S, NEW queue \in Seq(S), queue # <<>>
  PROVE  /\ Tail(queue) \in Seq(S) /\ Len(Tail(queue)) = Len(queue) - 1
         /\ Head(queue) \in S /\ Len(queue) \in Nat /\ Len(queue) > 0
OBVIOUS

LEMMA QueueAppend ==
  ASSUME NEW S, NEW queue \in Seq(S), NEW e \in S
  PROVE  /\ Append(queue, e) \in Seq(S)
         /\ Len(Append(queue, e)) = Len(queue) + 1 /\ Len(queue) \in Nat
         /\ Append(queue, e) # <<>>
         /\ queue # <<>> => Head(Append(queue, e)) = Head(queue)
<1>1. /\ Append(queue, e) \in Seq(S)
      /\ Len(Append(queue, e)) = Len(queue) + 1 /\ Len(queue) \in Nat
  OBVIOUS
<1>2. Append(queue, e) # <<>>
  BY <1>1
<1>3. ASSUME queue # <<>> PROVE Head(Append(queue, e)) = Head(queue)
  <2>1. Len(queue) > 0
    BY <1>3
  <2>2. QED
    BY <1>1, <2>1
<1>4. QED
  BY <1>1, <1>2, <1>3

(* The queue of responses stays below its limit. *)
LEMMA PushBounded ==
  ASSUME NEW queue \in Seq(Nat), Len(queue) < MaxQueue, NEW n \in Nat
  PROVE  Push(queue, n) \in Seq(Nat) /\ Len(Push(queue, n)) < MaxQueue
<1> DEFINE longer == Append(queue, n)
<1>1. longer \in Seq(Nat) /\ Len(longer) = Len(queue) + 1 /\ longer # <<>> /\ Len(queue) \in Nat
  BY QueueAppend
<1>2. Tail(longer) \in Seq(Nat) /\ Len(Tail(longer)) = Len(longer) - 1
  BY <1>1, QueueTail
<1> HIDE DEF longer
<1>3. MaxQueue \in Nat
  BY ConnectionAssumption
<1>4. CASE Len(longer) >= MaxQueue
  BY <1>1, <1>2, <1>3, <1>4 DEF Push, longer
<1>5. CASE ~(Len(longer) >= MaxQueue)
  BY <1>1, <1>3, <1>5 DEF Push, longer
<1>6. QED
  BY <1>4, <1>5

LEMMA TypeInit == Init => TypeOK
<1> SUFFICES ASSUME Init PROVE TypeOK
  OBVIOUS
<1>1. LoopTypeOK
  BY DEF Init, LoopTypeOK, Pcs
<1>2. FlagTypeOK
  BY DEF Init, FlagTypeOK
<1>3. input \in Seq(Commands) /\ Len(input) = 1
  BY DEF Init, Commands
<1>4. QueueTypeOK
  BY <1>3, ConnectionAssumption DEF Init, QueueTypeOK
<1>5. QED
  BY <1>1, <1>2, <1>4 DEF TypeOK

LEMMA LoopTypeStep == LoopTypeOK /\ [Next]_vars => LoopTypeOK'
<1> SUFFICES ASSUME LoopTypeOK, [Next]_vars
             PROVE  LoopTypeOK'
  OBVIOUS
<1> USE ConnectionAssumption, ReportKinds DEF LoopTypeOK, Pcs, known, reports, retrying, polling
<1>1. CASE MaintainRetry \/ TakeWake \/ TakeReset \/ TakeResponse \/ TakeSubscription
  BY <1>1 DEF MaintainRetry, TakeWake, TakeReset, TakeResponse, TakeSubscription, Take,
     Proceed, Continue, Forget
<1>2. ASSUME NEW r \in Report, TakeReport(r) PROVE LoopTypeOK'
  BY <1>2 DEF TakeReport, Take, Proceed, Continue
<1>3. CASE TakePostRates
  <2>1. sent' \in [Report -> {"never", "recently", "longAgo"}]
    BY <1>3 DEF TakePostRates
  <2>2. QED
    BY <1>3, <2>1 DEF TakePostRates, Take, Proceed, Continue
<1>4. CASE FetchDcap
  BY <1>4 DEF FetchDcap, Continue
<1>5. CASE EnsureDevice \/ ValidatePin \/ EnsureDer
  BY <1>5 DEF EnsureDevice, ValidatePin, EnsureDer, Continue
<1>6. CASE ResponsePosted \/ ResponseDiscarded \/ ResponseFailed \/ ResponsesSent
  BY <1>6 DEF ResponsePosted, ResponseDiscarded, ResponseFailed, ResponsesSent, Continue
<1>7. ASSUME NEW i \in DOMAIN Reports, SendReport(i) PROVE LoopTypeOK'
  <2>1. sent' \in [Report -> {"never", "recently", "longAgo"}]
    BY <1>7 DEF SendReport
  <2>2. pc' \in Pcs
    BY <1>7 DEF SendReport, Continue, Reports
  <2>3. QED
    BY <1>7, <2>1, <2>2 DEF SendReport
<1>8. CASE RetryTask \/ DcapPolling \/ ArriveResponse \/ ArriveOther \/ ServerChanges
  BY <1>8 DEF RetryTask, RetryTimeout, RetrySend, DcapPolling, DcapPoll, DcapPollSend,
     ArriveResponse, ArriveOther, ServerChanges
<1>9. CASE RateElapses
  BY <1>9 DEF RateElapses
<1>10. CASE Idle \/ UNCHANGED vars
  BY <1>10 DEF Idle, vars
<1>11. QED
  BY <1>1, <1>2, <1>3, <1>4, <1>5, <1>6, <1>7, <1>8, <1>9, <1>10
  DEF Next, Loop, TakeCommand, Pass, Environment

LEMMA FlagTypeStep == LoopTypeOK /\ FlagTypeOK /\ [Next]_vars => FlagTypeOK'
<1> SUFFICES ASSUME LoopTypeOK, FlagTypeOK, [Next]_vars
             PROVE  FlagTypeOK'
  OBVIOUS
<1> USE DEF FlagTypeOK, known, reports, retrying, polling
<1>1. CASE MaintainRetry \/ TakeWake \/ TakeReset \/ TakeResponse \/ TakePostRates \/ TakeSubscription
  BY <1>1 DEF MaintainRetry, TakeWake, TakeReset, TakeResponse, TakePostRates,
     TakeSubscription, Take, Proceed, Continue, Forget
<1>2. ASSUME NEW r \in Report, TakeReport(r) PROVE FlagTypeOK'
  BY <1>2 DEF TakeReport, Take, Proceed, Continue
<1>3. CASE FetchDcap
  BY <1>3 DEF FetchDcap, Continue
<1>4. CASE EnsureDevice \/ ValidatePin \/ EnsureDer
  BY <1>4 DEF EnsureDevice, ValidatePin, EnsureDer, Continue
<1>5. CASE ResponsePosted \/ ResponseDiscarded \/ ResponseFailed \/ ResponsesSent
  BY <1>5 DEF ResponsePosted, ResponseDiscarded, ResponseFailed, ResponsesSent, Continue
<1>6. ASSUME NEW i \in DOMAIN Reports, SendReport(i) PROVE FlagTypeOK'
  <2>1. latest' \in [Report -> BOOLEAN]
    BY <1>6 DEF SendReport
  <2>2. retryRequested' \in BOOLEAN
    BY <1>6 DEF SendReport
  <2>3. QED
    BY <1>6, <2>1, <2>2 DEF SendReport
<1>7. CASE RetryTask \/ DcapPolling \/ Environment
  BY <1>7 DEF RetryTask, RetryTimeout, RetrySend, DcapPolling, DcapPoll, DcapPollSend,
     Environment, ArriveResponse, ArriveOther, RateElapses, ServerChanges
<1>8. CASE Idle \/ UNCHANGED vars
  BY <1>8 DEF Idle, vars
<1>9. QED
  BY <1>1, <1>2, <1>3, <1>4, <1>5, <1>6, <1>7, <1>8 DEF Next, Loop, TakeCommand, Pass

LEMMA InputTypeStep ==
  QueueTypeOK /\ [Next]_vars => input' \in Seq(Commands) /\ Len(input') <= QueueCapacity
<1> SUFFICES ASSUME QueueTypeOK, [Next]_vars
             PROVE  input' \in Seq(Commands) /\ Len(input') <= QueueCapacity
  OBVIOUS
<1> USE DEF QueueTypeOK
<1>0. QueueCapacity \in Nat
  BY ConnectionAssumption
<1>1. ASSUME NEW command, Take(command)
      PROVE  input' \in Seq(Commands) /\ Len(input') <= QueueCapacity
  BY <1>0, <1>1, QueueTail DEF Take
<1>2. ASSUME NEW command \in Commands, Send(command)
      PROVE  input' \in Seq(Commands) /\ Len(input') <= QueueCapacity
  BY <1>0, <1>2, QueueAppend DEF Send
<1>3. CASE TakeCommand
  BY <1>1, <1>3 DEF TakeCommand, TakeWake, TakeReset, TakeResponse, TakeReport, TakePostRates,
     TakeSubscription
<1>4. CASE RetrySend \/ DcapPollSend \/ ArriveResponse \/ ArriveOther
  BY <1>2, <1>4 DEF RetrySend, DcapPollSend, ArriveResponse, ArriveOther, Commands
<1>5. CASE MaintainRetry \/ Pass \/ RetryTimeout \/ DcapPoll \/ RateElapses \/ ServerChanges \/ Idle
  <2>1. UNCHANGED input
    BY <1>5 DEF MaintainRetry, Pass, FetchDcap, EnsureDevice, ValidatePin, ResponsePosted,
       ResponseDiscarded, ResponseFailed, ResponsesSent, EnsureDer, SendReport, RetryTimeout,
       DcapPoll, RateElapses, ServerChanges, Idle, vars
  <2>2. QED
    BY <2>1
<1>6. CASE UNCHANGED vars
  BY <1>6 DEF vars
<1>7. QED
  BY <1>3, <1>4, <1>5, <1>6 DEF Next, Loop, RetryTask, DcapPolling, Environment

LEMMA ResponsesTypeStep ==
  QueueTypeOK /\ [Next]_vars =>
    /\ accepted' \in Nat /\ posted' \in Seq(Nat)
    /\ responses' \in Seq(Nat) /\ Len(responses') < MaxQueue
<1> SUFFICES ASSUME QueueTypeOK, [Next]_vars
             PROVE  /\ accepted' \in Nat /\ posted' \in Seq(Nat)
                    /\ responses' \in Seq(Nat) /\ Len(responses') < MaxQueue
  OBVIOUS
<1> USE DEF QueueTypeOK
<1>0. MaxQueue \in Nat
  BY ConnectionAssumption
<1>1. CASE Out!Accept
  <2>1. responses' = Push(responses, accepted + 1) /\ accepted' = accepted + 1 /\ posted' = posted
    BY <1>1 DEF Out!Accept, Out!Push, Push
  <2>2. QED
    BY <2>1, PushBounded
<1>2. CASE Out!Post
  <2>1. /\ responses # <<>> /\ posted' = Append(posted, Head(responses)) /\ accepted' = accepted
        /\ responses' \in {responses, Tail(responses)}
    BY <1>2 DEF Out!Post
  <2>2. /\ Tail(responses) \in Seq(Nat) /\ Len(Tail(responses)) < MaxQueue /\ Head(responses) \in Nat
    BY <1>0, <2>1, QueueTail
  <2>3. posted' \in Seq(Nat)
    BY <2>1, <2>2, QueueAppend
  <2>4. QED
    BY <2>1, <2>2, <2>3
<1>3. CASE Out!Discard
  BY <1>0, <1>3, QueueTail DEF Out!Discard
<1>4. CASE UNCHANGED Out!outboxVars
  BY <1>4 DEF Out!outboxVars
<1>5. QED
  BY <1>1, <1>2, <1>3, <1>4, StepsToOutbox DEF Out!Next

LEMMA TypeStep == TypeOK /\ [Next]_vars => TypeOK'
<1>1. TypeOK /\ [Next]_vars => LoopTypeOK'
  BY LoopTypeStep DEF TypeOK
<1>2. TypeOK /\ [Next]_vars => FlagTypeOK'
  BY FlagTypeStep DEF TypeOK
<1>3. TypeOK /\ [Next]_vars => QueueTypeOK'
  BY InputTypeStep, ResponsesTypeStep DEF TypeOK, QueueTypeOK
<1>4. QED
  BY <1>1, <1>2, <1>3 DEF TypeOK

(* Every variable keeps its shape, and both queues keep to their bounds:     *)
(* the input channel to its capacity, the responses to MAX_RESPONSE_QUEUE_   *)
(* SIZE, which they never reach.                                             *)
THEOREM TypeCorrect == Spec => []TypeOK
BY TypeInit, TypeStep, PTL DEF Spec

-----------------------------------------------------------------------------
(* What a pass builds on. *)

(* Outside a pass, and in everything that goes on beside it, nothing that    *)
(* the pass has found out changes.                                           *)
LEMMA BesideThePass ==
  MaintainRetry \/ RetryTask \/ DcapPolling \/ Environment \/ Idle \/ UNCHANGED vars =>
    /\ UNCHANGED <<known, responses, retryRequested>>
    /\ pc' = pc \/ (pc = "top" /\ pc' = "recv")
BY DEF MaintainRetry, RetryTask, RetryTimeout, RetrySend, DcapPolling, DcapPoll, DcapPollSend,
   Environment, ArriveResponse, ArriveOther, RateElapses, ServerChanges, Idle, vars,
   known, outbox, retrying

(* A command is followed by the top of the loop or the start of a pass. *)
LEMMA AfterTheCommand ==
  TakeCommand =>
    /\ pc = "recv" /\ pc' \in {"top", "dcap"} /\ UNCHANGED retry
    /\ pc' = "dcap" => retryRequested'
    /\ UNCHANGED known \/ Forget
BY DEF TakeCommand, TakeWake, TakeReset, TakeResponse, TakeReport, TakePostRates,
   TakeSubscription, Take, Proceed, Continue, retrying

LEMMA PassInit == Init => PassInv
BY ReportKinds DEF Init, PassInv

LEMMA PassStep == TypeOK /\ PassInv /\ [Next]_vars => PassInv'
<1> SUFFICES ASSUME TypeOK, PassInv, [Next]_vars
             PROVE  PassInv'
  OBVIOUS
<1> USE ConnectionAssumption, ReportKinds DEF PassInv, known
<1>1. CASE MaintainRetry \/ RetryTask \/ DcapPolling \/ Environment \/ Idle \/ UNCHANGED vars
  BY <1>1, BesideThePass
<1>2. CASE TakeCommand
  BY <1>2, AfterTheCommand
<1>3. CASE FetchDcap
  BY <1>3 DEF FetchDcap, Continue
<1>4. CASE EnsureDevice
  BY <1>4 DEF EnsureDevice, Continue
<1>5. CASE ValidatePin
  BY <1>5 DEF ValidatePin, Continue
<1>6. CASE ResponsePosted \/ ResponseDiscarded \/ ResponseFailed \/ ResponsesSent
  BY <1>6 DEF ResponsePosted, ResponseDiscarded, ResponseFailed, ResponsesSent, Continue, outbox
<1>7. CASE EnsureDer
  BY <1>7 DEF EnsureDer, Continue, outbox
<1>8. ASSUME NEW i \in DOMAIN Reports, SendReport(i) PROVE PassInv'
  <2>1. pc \in ReportPcs
    BY <1>8 DEF SendReport
  <2>2. UNCHANGED <<known, responses>> /\ pc' \in ReportPcs \cup {"top"}
    BY <1>8 DEF SendReport, Continue, Reports, outbox
  <2>3. QED
    BY <2>1, <2>2
<1>9. QED
  BY <1>1, <1>2, <1>3, <1>4, <1>5, <1>6, <1>7, <1>8 DEF Next, Loop, Pass

LEMMA WatchedStep == TypeOK /\ DcapWatched /\ [Next]_vars => DcapWatched'
<1> SUFFICES ASSUME TypeOK, DcapWatched, [Next]_vars
             PROVE  DcapWatched'
  OBVIOUS
<1> USE DEF DcapWatched, known, polling
<1>1. CASE MaintainRetry \/ RetryTask \/ DcapPolling \/ Environment \/ Idle \/ UNCHANGED vars
  BY <1>1 DEF MaintainRetry, RetryTask, RetryTimeout, RetrySend, DcapPolling, DcapPoll,
     DcapPollSend, Environment, ArriveResponse, ArriveOther, RateElapses, ServerChanges, Idle, vars
<1>2. CASE TakeCommand
  BY <1>2 DEF TakeCommand, TakeWake, TakeReset, TakeResponse, TakeReport, TakePostRates,
     TakeSubscription, Take, Forget
<1>3. CASE FetchDcap
  BY <1>3 DEF FetchDcap
<1>4. CASE Pass /\ ~FetchDcap
  BY <1>4 DEF Pass, EnsureDevice, ValidatePin, ResponsePosted, ResponseDiscarded,
     ResponseFailed, ResponsesSent, EnsureDer, SendReport
<1>5. QED
  BY <1>1, <1>2, <1>3, <1>4 DEF Next, Loop, Pass

(* Whenever the loop builds on a DeviceCapability, it is the one the poll    *)
(* compares with.                                                            *)
THEOREM StaysWatched == Spec => []DcapWatched
<1>1. Init => DcapWatched
  BY DEF Init, DcapWatched
<1>2. QED
  BY <1>1, TypeInit, TypeStep, WatchedStep, PTL DEF Spec

LEMMA KnownStep == TypeOK /\ PassInv /\ KnownFromTheTop /\ [Next]_vars => KnownFromTheTop'
<1> SUFFICES ASSUME TypeOK, PassInv, KnownFromTheTop, [Next]_vars
             PROVE  KnownFromTheTop'
  OBVIOUS
<1> USE ConnectionAssumption, ReportKinds DEF KnownFromTheTop, known, PassInv
<1>1. CASE MaintainRetry \/ RetryTask \/ DcapPolling \/ Environment \/ Idle \/ UNCHANGED vars
  BY <1>1, BesideThePass
<1>2. CASE TakeCommand
  BY <1>2, AfterTheCommand DEF Forget
<1>3. CASE FetchDcap
  BY <1>3 DEF FetchDcap, TypeOK, LoopTypeOK
<1>4. CASE EnsureDevice
  BY <1>4 DEF EnsureDevice
<1>5. CASE ValidatePin
  BY <1>5 DEF ValidatePin
<1>6. CASE EnsureDer
  BY <1>6 DEF EnsureDer
<1>7. CASE ResponsePosted \/ ResponseDiscarded \/ ResponseFailed \/ ResponsesSent
  BY <1>7 DEF ResponsePosted, ResponseDiscarded, ResponseFailed, ResponsesSent
<1>8. ASSUME NEW i \in DOMAIN Reports, SendReport(i) PROVE KnownFromTheTop'
  BY <1>8 DEF SendReport
<1>9. QED
  BY <1>1, <1>2, <1>3, <1>4, <1>5, <1>6, <1>7, <1>8 DEF Next, Loop, Pass

(* Whatever resets and failures interleave, nothing of an earlier connection *)
(* is built upon.                                                            *)
THEOREM KnownTopDown == Spec => []KnownFromTheTop
<1>1. Init => KnownFromTheTop
  BY DEF Init, KnownFromTheTop
<1>2. QED
  BY <1>1, TypeInit, TypeStep, PassInit, PassStep, KnownStep, PTL DEF Spec

-----------------------------------------------------------------------------
(* Work left undone is retried. *)

LEMMA RetryInit == Init => RetryInv
BY DEF Init, RetryInv

(* What others put into the channel leaves its head alone. *)
LEMMA SentBehind ==
  ASSUME QueueTypeOK, RetryTask \/ DcapPolling \/ Environment \/ Idle \/ UNCHANGED vars
  PROVE  /\ UNCHANGED pc /\ (retry' = "none" <=> retry = "none")
         /\ input # <<>> => input' # <<>> /\ Head(input') = Head(input)
<1>1. ASSUME NEW command \in Commands, Send(command)
      PROVE  input # <<>> => input' # <<>> /\ Head(input') = Head(input)
  BY <1>1, QueueAppend DEF Send, QueueTypeOK
<1>2. CASE RetrySend \/ DcapPollSend \/ ArriveResponse \/ ArriveOther
  BY <1>1, <1>2 DEF RetrySend, DcapPollSend, ArriveResponse, ArriveOther, Commands, retrying
<1>3. CASE RetryTimeout \/ DcapPoll \/ RateElapses \/ ServerChanges \/ Idle \/ UNCHANGED vars
  BY <1>3 DEF RetryTimeout, DcapPoll, RateElapses, ServerChanges, Idle, vars, retrying
<1>4. QED
  BY <1>2, <1>3 DEF RetryTask, DcapPolling, Environment

LEMMA ReportInit == Init => ReportInv
BY ReportKinds DEF Init, ReportInv

(* No step but that of a report sends one, and none but a command brings one *)
(* or takes what was sent for unsent.                                        *)
LEMMA BesideTheReports ==
  ASSUME TypeOK,
         MaintainRetry \/ RetryTask \/ DcapPolling \/ Environment \/ Idle \/ UNCHANGED vars
           \/ (Pass /\ ~\E i \in DOMAIN Reports : SendReport(i))
  PROVE  /\ \A r \in Report : (Unsent(r)' <=> Unsent(r)) /\ (Waiting(r) => Waiting(r)')
         /\ UNCHANGED retryRequested
<1> USE DEF TypeOK, LoopTypeOK, reports, retrying
<1>1. CASE RateElapses
  <2>1. PICK q \in Report : sent[q] = "recently" /\ sent' = [sent EXCEPT ![q] = "longAgo"]
    BY <1>1 DEF RateElapses
  <2>2. /\ UNCHANGED <<latest, retryRequested>>
        /\ \A r \in Report : sent'[r] = sent[r] \/ (sent[r] = "recently" /\ sent'[r] = "longAgo")
    BY <1>1, <2>1 DEF RateElapses
  <2>3. QED
    BY <2>2 DEF Unsent, Waiting
<1>2. CASE MaintainRetry \/ RetryTask \/ DcapPolling \/ (Environment /\ ~RateElapses) \/ Idle
             \/ UNCHANGED vars
  <2>1. UNCHANGED <<latest, sent, retryRequested>>
    BY <1>2 DEF MaintainRetry, RetryTask, RetryTimeout, RetrySend, DcapPolling, DcapPoll,
       DcapPollSend, Environment, ArriveResponse, ArriveOther, ServerChanges, Idle, vars
  <2>2. QED
    BY <2>1 DEF Unsent, Waiting
<1>3. CASE Pass /\ ~\E i \in DOMAIN Reports : SendReport(i)
  <2>1. UNCHANGED <<latest, sent, retryRequested>>
    BY <1>3 DEF Pass, FetchDcap, EnsureDevice, ValidatePin, ResponsePosted, ResponseDiscarded,
       ResponseFailed, ResponsesSent, EnsureDer
  <2>2. QED
    BY <2>1 DEF Unsent, Waiting
<1>4. QED
  BY <1>1, <1>2, <1>3

(* One report: sent, found not to be due, or failed, and then it waits.      *)
LEMMA OneReport ==
  ASSUME TypeOK, NEW i \in DOMAIN Reports, SendReport(i)
  PROVE  /\ pc = Reports[i]
         /\ \A r \in Report : Unsent(r)' => Unsent(r)
         /\ \/ /\ Reports[i] \in Report => ~Unsent(Reports[i])'
               /\ \/ i < 4 /\ pc' = Reports[i + 1] /\ UNCHANGED retryRequested
                  \/ i = 4 /\ pc' = "top" /\ ~retryRequested'
            \/ /\ Reports[i] \in Report /\ Waiting(Reports[i])'
               /\ pc' = "top" /\ UNCHANGED retryRequested
<1> DEFINE r == Reports[i]
           due == r \in Report /\ latest[r] /\ sent[r] # "recently"
           sends == /\ latest' = [latest EXCEPT ![r] = (r = "capability")]
                    /\ sent' = [sent EXCEPT ![r] = "recently"]
           goes == \/ i < 4 /\ pc' = Reports[i + 1] /\ UNCHANGED retryRequested
                   \/ i = 4 /\ pc' = "top" /\ ~retryRequested'
           fails == pc' = "top" /\ UNCHANGED <<reports, retryRequested>>
<1>1. pc = r /\ Len(Reports) = 4 /\ i \in 1 .. 4
  BY ReportKinds DEF SendReport, Reports
<1>2. \/ due /\ sends /\ goes
      \/ due /\ fails
      \/ ~due /\ UNCHANGED reports /\ goes
  BY <1>1 DEF SendReport, Continue
<1>3. latest \in [Report -> BOOLEAN] /\ sent \in [Report -> {"never", "recently", "longAgo"}]
  BY DEF TypeOK, LoopTypeOK, FlagTypeOK
<1>4. CASE due /\ sends /\ goes
  <2>1. \A q \in Report : q # r => latest'[q] = latest[q] /\ sent'[q] = sent[q]
    BY <1>3, <1>4
  <2>2. sent'[r] = "recently"
    BY <1>3, <1>4
  <2>3. \A q \in Report : Unsent(q)' => Unsent(q)
    BY <2>1, <2>2 DEF Unsent
  <2>4. QED
    BY <1>1, <1>4, <2>2, <2>3 DEF Unsent
<1>5. CASE due /\ fails
  BY <1>1, <1>5 DEF Unsent, Waiting, reports
<1>6. CASE ~due /\ UNCHANGED reports /\ goes
  BY <1>1, <1>6 DEF Unsent, reports
<1>7. QED
  BY <1>2, <1>4, <1>5, <1>6

LEMMA ReportStep == TypeOK /\ PassInv /\ ReportInv /\ [Next]_vars => ReportInv'
<1> SUFFICES ASSUME TypeOK, ReportInv, [Next]_vars
             PROVE  ReportInv'
  OBVIOUS
<1> USE ReportKinds
<1>1. CASE MaintainRetry \/ RetryTask \/ DcapPolling \/ Environment \/ Idle \/ UNCHANGED vars
  <2>1. pc' = pc \/ pc' = "recv"
    BY <1>1, BesideThePass
  <2>2. \A r \in Report : Unsent(r)' <=> Unsent(r)
    BY <1>1, BesideTheReports
  <2>3. QED
    BY <2>1, <2>2 DEF ReportInv
<1>2. CASE TakeCommand
  BY <1>2, AfterTheCommand DEF ReportInv
<1>3. CASE Pass /\ ~\E i \in DOMAIN Reports : SendReport(i)
  <2>1. \A i \in DOMAIN Reports : pc' = Reports[i] => i = 1
    BY <1>3 DEF Pass, FetchDcap, EnsureDevice, ValidatePin, ResponsePosted, ResponseDiscarded,
       ResponseFailed, ResponsesSent, EnsureDer, Continue
  <2>2. QED
    BY <2>1 DEF ReportInv
<1>4. ASSUME NEW i \in DOMAIN Reports, SendReport(i)
      PROVE  ReportInv'
  <2>1. /\ pc = Reports[i]
        /\ \A r \in Report : Unsent(r)' => Unsent(r)
        /\ \/ /\ Reports[i] \in Report => ~Unsent(Reports[i])'
              /\ (i < 4 /\ pc' = Reports[i + 1]) \/ pc' = "top"
           \/ pc' = "top"
    BY <1>4, OneReport
  <2>2. CASE pc' = "top"
    BY <2>2 DEF ReportInv
  <2>3. CASE (Reports[i] \in Report => ~Unsent(Reports[i])') /\ i < 4 /\ pc' = Reports[i + 1]
    <3>1. ASSUME NEW j \in DOMAIN Reports, pc' = Reports[j] PROVE j = i + 1
      <4>1. j \in 1 .. 4 /\ i \in 1 .. 3 /\ Reports[j] = Reports[i + 1]
        BY <2>3, <3>1
      <4>2. CASE i = 1
        BY <4>1, <4>2
      <4>3. CASE i = 2
        BY <4>1, <4>3
      <4>4. CASE i = 3
        BY <4>1, <4>4
      <4>5. QED
        BY <4>1, <4>2, <4>3, <4>4
    <3>2. \A k \in 1 .. i - 1 : Reports[k] \in Report => ~Unsent(Reports[k])'
      BY <2>1 DEF ReportInv
    <3>3. \A k \in 1 .. (i + 1) - 1 : k \in 1 .. i - 1 \/ k = i
      OBVIOUS
    <3>4. QED
      BY <2>3, <3>1, <3>2, <3>3 DEF ReportInv
  <2>4. QED
    BY <2>1, <2>2, <2>3
<1>5. QED
  BY <1>1, <1>2, <1>3, <1>4 DEF Next, Loop, Pass

(* What is undone changes with what the server told, the queue and the       *)
(* reports only.                                                             *)
LEMMA UndoneKept ==
  ASSUME UNCHANGED <<known, responses>>, \A r \in Report : Unsent(r)' <=> Unsent(r)
  PROVE  Undone' <=> Undone
BY DEF Undone, known

(* A step of a pass leaves the retry requested, until the pass is through.   *)
LEMMA PassKeepsRetry ==
  ASSUME TypeOK, PassInv, ReportInv, RetryInv, Pass
  PROVE  /\ pc \notin {"recv", "top"} /\ pc' # "recv"
         /\ retryRequested' \/ (pc' = "top" /\ ~Undone')
<1> USE ReportKinds DEF RetryInv, retrying, Continue
<1>1. CASE Pass /\ ~\E i \in DOMAIN Reports : SendReport(i)
  BY <1>1 DEF Pass, FetchDcap, EnsureDevice, ValidatePin, ResponsePosted, ResponseDiscarded,
     ResponseFailed, ResponsesSent, EnsureDer
<1>2. ASSUME NEW i \in DOMAIN Reports, SendReport(i)
      PROVE  /\ pc \notin {"recv", "top"} /\ pc' # "recv"
             /\ retryRequested' \/ (pc' = "top" /\ ~Undone')
  <2>1. pc \in ReportPcs /\ retryRequested /\ pc = Reports[i]
    BY <1>2 DEF SendReport
  <2>2. UNCHANGED <<known, responses>> /\ responses = <<>> /\ dcap # NoDcap /\ device /\ der
    BY <1>2, <2>1 DEF SendReport, outbox, PassInv
  <2>3. pc' # "recv" /\ (UNCHANGED retryRequested \/ pc' = "top")
    BY <1>2 DEF SendReport, Reports
  <2>4. ASSUME ~retryRequested' PROVE ~Undone'
    <3>1. /\ i = 4 /\ \A r \in Report : Unsent(r)' => Unsent(r)
          /\ Reports[i] \in Report => ~Unsent(Reports[i])'
      <4>1. ~UNCHANGED retryRequested
        BY <2>1, <2>4
      <4>2. QED
        BY <1>2, <4>1, OneReport
    <3>2. \A k \in 1 .. 3 : Reports[k] \in Report => ~Unsent(Reports[k])
      BY <2>1, <3>1 DEF ReportInv
    <3>3. \A r \in Report : \E k \in 1 .. 4 : r = Reports[k]
      BY ConnectionAssumption
    <3>4. \A r \in Report : ~Unsent(r)'
      BY <3>1, <3>2, <3>3
    <3>5. QED
      BY <2>2, <3>4 DEF Undone, known
  <2>5. QED
    BY <2>1, <2>3, <2>4
<1>3. QED
  BY <1>1, <1>2

LEMMA RetryStep == TypeOK /\ PassInv /\ ReportInv /\ RetryInv /\ [Next]_vars => RetryInv'
<1> SUFFICES ASSUME TypeOK, PassInv, ReportInv, RetryInv, [Next]_vars
             PROVE  RetryInv'
  OBVIOUS
<1>1. CASE MaintainRetry
  <2>1. pc = "top" /\ pc' = "recv" /\ UNCHANGED <<known, responses, retryRequested, input>>
    BY <1>1 DEF MaintainRetry, outbox
  <2>2. retryRequested' <=> retry' # "none"
    BY <1>1 DEF MaintainRetry
  <2>3. retryRequested \/ ~Undone
    BY <2>1 DEF RetryInv
  <2>4. Undone' <=> Undone
    BY <1>1, <2>1, BesideTheReports, UndoneKept
  <2>5. QED
    BY <2>1, <2>2, <2>3, <2>4 DEF RetryInv
<1>2. CASE RetryTask \/ DcapPolling \/ Environment \/ Idle \/ UNCHANGED vars
  <2>1. /\ UNCHANGED pc /\ (retry' = "none" <=> retry = "none")
        /\ input # <<>> => input' # <<>> /\ Head(input') = Head(input)
    BY <1>2, SentBehind DEF TypeOK
  <2>2. UNCHANGED <<known, responses, retryRequested>>
    BY <1>2, BesideThePass
  <2>3. Undone' <=> Undone
    BY <1>2, <2>2, BesideTheReports, UndoneKept
  <2>4. QED
    BY <2>1, <2>2, <2>3 DEF RetryInv
<1>3. CASE TakeCommand
  <2>1. pc = "recv" /\ pc' \in {"top", "dcap"} /\ (pc' = "dcap" => retryRequested')
    BY <1>3, AfterTheCommand
  <2>2. pc' = "dcap" => RetryInv'
    BY <2>1 DEF RetryInv
  <2>3. ASSUME pc' = "top" PROVE retryRequested' \/ ~Undone'
    <3>1. CASE TakeWake \/ TakeReset
      BY <2>3, <3>1 DEF TakeWake, TakeReset, Proceed
    <3>2. CASE TakeSubscription
      <4>1. Head(input) # "Wake" /\ UNCHANGED <<known, responses, latest, sent, retryRequested>>
        BY <3>2 DEF TakeSubscription, Take, outbox, reports, retrying
      <4>2. Undone' <=> Undone
        BY <4>1, UndoneKept DEF Unsent
      <4>3. QED
        BY <4>1, <4>2 DEF RetryInv
    <3>3. CASE TakeResponse \/ TakePostRates \/ \E r \in Report : TakeReport(r)
      <4>1. retry # "none" /\ UNCHANGED retryRequested
        BY <2>3, <3>3 DEF TakeResponse, TakePostRates, TakeReport, Proceed
      <4>2. QED
        BY <2>1, <4>1 DEF RetryInv
    <3>4. QED
      BY <1>3, <3>1, <3>2, <3>3 DEF TakeCommand
  <2>4. QED
    BY <2>1, <2>2, <2>3 DEF RetryInv
<1>4. CASE Pass
  BY <1>4, PassKeepsRetry DEF RetryInv
<1>5. QED
  BY <1>1, <1>2, <1>3, <1>4 DEF Next, Loop

(* However requests fail, commands arrive and the connection is reset: the   *)
(* loop waits for a command with work undone only when a retry task is       *)
(* there to wake it.                                                         *)
THEOREM StaysRetried == Spec => []UndoneIsRetried
<1>1. RetryInv => UndoneIsRetried
  BY DEF RetryInv, UndoneIsRetried
<1>2. QED
  BY <1>1, TypeInit, TypeStep, PassInit, PassStep, ReportInit, ReportStep, RetryInit, RetryStep,
     PTL DEF Spec

LEMMA PushNonempty ==
  ASSUME NEW queue \in Seq(Nat), NEW n \in Nat
  PROVE  Push(queue, n) # <<>>
<1>1. Append(queue, n) \in Seq(Nat) /\ Len(Append(queue, n)) = Len(queue) + 1
  OBVIOUS
<1>2. CASE Len(Append(queue, n)) >= MaxQueue
  <2>1. Len(Append(queue, n)) >= 2
    BY <1>1, <1>2, ConnectionAssumption
  <2>2. Len(Tail(Append(queue, n))) >= 1
    BY <1>1, <2>1
  <2>3. QED
    BY <1>2, <2>2 DEF Push
<1>3. CASE ~(Len(Append(queue, n)) >= MaxQueue)
  BY <1>1, <1>3 DEF Push
<1>4. QED
  BY <1>2, <1>3

LEMMA ReasonInit == Init => ReasonInv
BY DEF Init, ReasonInv

(* What a command brings may be one more thing to do, and none less.         *)
LEMMA CommandKeepsReason ==
  ASSUME TypeOK, RetryInv, ReasonInv, TakeCommand, pc' = "top", retryRequested'
  PROVE  Reason'
<1> USE ConnectionAssumption
<1>1. pc = "recv" /\ (UNCHANGED known \/ Forget)
  BY AfterTheCommand
<1>2. CASE TakeWake \/ TakeReset
  BY <1>2 DEF TakeWake, TakeReset, Proceed
<1>3. CASE TakeSubscription
  <2>1. UNCHANGED <<known, responses, latest, sent, retryRequested>>
    BY <1>3 DEF TakeSubscription, outbox, reports, retrying
  <2>2. Reason
    BY <1>1, <2>1 DEF ReasonInv
  <2>3. QED
    BY <2>1, <2>2 DEF Reason, Undone, Unsent, Waiting, known
<1>4. CASE TakeResponse
  <2>1. responses' = Push(responses, accepted + 1)
    BY <1>4 DEF TakeResponse
  <2>2. responses' # <<>>
    <3>1. responses \in Seq(Nat) /\ accepted + 1 \in Nat
      BY DEF TypeOK, QueueTypeOK
    <3>2. Push(responses, accepted + 1) # <<>>
      BY <3>1, PushNonempty
    <3>3. QED
      BY <2>1, <3>2
  <2>3. QED
    BY <2>2 DEF Reason, Undone
<1>5. CASE TakePostRates \/ \E r \in Report : TakeReport(r)
  <2>1. /\ UNCHANGED <<known, responses, retryRequested>>
        /\ latest' \in [Report -> BOOLEAN] /\ \A r \in Report : latest[r] => latest'[r]
        /\ \A r \in Report : sent[r] = "never" => sent'[r] = "never"
        /\ "capability" \in Report /\ sent["capability"] # "recently"
             => sent'["capability"] # "recently"
    <3>1. /\ latest \in [Report -> BOOLEAN]
          /\ sent \in [Report -> {"never", "recently", "longAgo"}]
      BY DEF TypeOK, LoopTypeOK, FlagTypeOK
    <3>2. CASE TakePostRates
      <4>1. PICK recent \in SUBSET Report :
              sent' = [r \in Report |->
                        IF sent[r] = "never" \/ r = "capability" THEN sent[r]
                        ELSE IF r \in recent THEN "recently" ELSE "longAgo"]
        BY <3>2 DEF TakePostRates
      <4>2. UNCHANGED <<known, responses, latest, retryRequested>>
        BY <3>2 DEF TakePostRates, Proceed, outbox, Continue
      <4>3. QED
        BY <3>1, <4>1, <4>2
    <3>3. ASSUME NEW r \in Report, TakeReport(r)
          PROVE  /\ UNCHANGED <<known, responses, retryRequested>>
                 /\ latest' \in [Report -> BOOLEAN] /\ \A q \in Report : latest[q] => latest'[q]
                 /\ \A q \in Report : sent[q] = "never" => sent'[q] = "never"
                 /\ "capability" \in Report /\ sent["capability"] # "recently"
                      => sent'["capability"] # "recently"
      <4>1. /\ latest' = [latest EXCEPT ![r] = TRUE]
            /\ UNCHANGED sent \/ sent' = [sent EXCEPT ![r] = "never"]
        BY <3>3 DEF TakeReport
      <4>2. UNCHANGED <<known, responses, retryRequested>>
        BY <3>3 DEF TakeReport, Proceed, outbox, Continue
      <4>3. QED
        BY <3>1, <4>1, <4>2
    <3>4. QED
      BY <1>5, <3>2, <3>3
  <2>2. Reason
    BY <1>1, <2>1 DEF ReasonInv
  <2>3. \A r \in Report : (Unsent(r) => Unsent(r)') /\ (Waiting(r) => Waiting(r)')
    BY <2>1 DEF Unsent, Waiting
  <2>4. QED
    BY <2>1, <2>2, <2>3 DEF Reason, Undone, known
<1>6. QED
  BY <1>2, <1>3, <1>4, <1>5 DEF TakeCommand

LEMMA ReasonStep ==
  TypeOK /\ PassInv /\ RetryInv /\ ReasonInv /\ [Next]_vars => ReasonInv'
<1> SUFFICES ASSUME TypeOK, PassInv, RetryInv, ReasonInv, [Next]_vars,
                    pc' \in {"recv", "top"}, retryRequested'
             PROVE  Reason'
  BY DEF ReasonInv
<1>1. CASE MaintainRetry \/ RetryTask \/ DcapPolling \/ Environment \/ Idle \/ UNCHANGED vars
  <2>1. UNCHANGED <<known, responses, retryRequested>> /\ pc \in {"recv", "top"}
    BY <1>1, BesideThePass
  <2>2. \A r \in Report : (Unsent(r)' <=> Unsent(r)) /\ (Waiting(r) => Waiting(r)')
    BY <1>1, BesideTheReports
  <2>3. Reason
    BY <2>1 DEF ReasonInv
  <2>4. QED
    BY <2>1, <2>2, <2>3 DEF Reason, Undone, known
<1>2. CASE TakeCommand
  BY <1>2, AfterTheCommand, CommandKeepsReason
<1>3. CASE FetchDcap
  BY <1>3 DEF FetchDcap, Reason, Undone
<1>4. CASE EnsureDevice
  BY <1>4 DEF EnsureDevice, Reason, Undone
<1>5. CASE ValidatePin
  <2>1. PinExpected /\ pin' # "match"
    BY <1>5 DEF ValidatePin
  <2>2. QED
    BY <2>1 DEF Reason
<1>6. CASE ResponsePosted \/ ResponseDiscarded \/ ResponseFailed \/ ResponsesSent
  <2>1. ResponseFailed
    BY <1>6 DEF ResponsePosted, ResponseDiscarded, ResponsesSent
  <2>2. responses' # <<>>
    BY <2>1 DEF ResponseFailed
  <2>3. QED
    BY <2>2 DEF Reason, Undone
<1>7. CASE EnsureDer
  BY <1>7 DEF EnsureDer, Reason, Undone, Reports
<1>8. ASSUME NEW i \in DOMAIN Reports, SendReport(i) PROVE Reason'
  <2>1. Reports[i] \in Report /\ Waiting(Reports[i])'
    <3>1. i < 4 => Reports[i + 1] \notin {"recv", "top"}
      BY ReportKinds
    <3>2. QED
      BY <1>8, <3>1, OneReport
  <2>2. QED
    BY <2>1 DEF Reason
<1>9. QED
  BY <1>1, <1>2, <1>3, <1>4, <1>5, <1>6, <1>7, <1>8 DEF Next, Loop, Pass

(* However requests fail and commands arrive: the retry task, which keeps    *)
(* everything else from being sent, is never left behind when there is       *)
(* nothing a pass has failed to do.                                          *)
THEOREM RetriesForAReason == Spec => []RetryHasReason
<1>1. RetryInv /\ ReasonInv => RetryHasReason
  BY DEF RetryInv, ReasonInv, RetryHasReason
<1>2. QED
  BY <1>1, TypeInit, TypeStep, PassInit, PassStep, ReportInit, ReportStep, RetryInit, RetryStep,
     ReasonInit, ReasonStep, PTL DEF Spec

=============================================================================
