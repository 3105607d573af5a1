--------------------------- MODULE Sep2Connection ---------------------------
(***************************************************************************)
(* The task that talks to the SEP2 server (sep2_connection.rs): a loop that *)
(* takes one command at a time, and then tries to get from the             *)
(* DeviceCapability down to posting everything that waits to be posted.    *)
(* Where a request fails, the pass ends and a retry task is left to wake    *)
(* the loop later; while it is there, only a Wake or a ResetConnection     *)
(* starts another pass.  A second task watches the DeviceCapability.       *)
(*                                                                         *)
(* Every request is an await, and a step here.  What the server answers is  *)
(* open; MaxFailures bounds how often that is not what was hoped for.      *)
(***************************************************************************)
EXTENDS Naturals, Sequences, FiniteSets

CONSTANTS
  Dcap,           \* the DeviceCapabilities the server may serve
  WithEdevLink,   \* those that link to an EndDeviceList
  NoDcap,         \* none known
  Report,         \* the kinds of report the device makes and the server links to
  PinExpected,    \* a PIN was given, and the server links to a Registration
  MaxQueue,       \* MAX_RESPONSE_QUEUE_SIZE
  QueueCapacity,  \* the bound of the input channel
  MaxResponses,   \* bound on the responses that arrive
  MaxOthers,      \* bound on the reports and other commands that arrive
  MaxFailures,    \* bound on the requests that fail
  MaxChanges      \* bound on the changes of the DeviceCapability

Reports == <<"settings", "status", "capability", "readings">>

ASSUME ConnectionAssumption ==
  /\ WithEdevLink \subseteq Dcap /\ NoDcap \notin Dcap
  /\ PinExpected \in BOOLEAN
  /\ Report \subseteq {Reports[i] : i \in DOMAIN Reports}
  /\ MaxQueue \in Nat /\ MaxQueue >= 2
  /\ QueueCapacity \in Nat \ {0}

VARIABLES
  pc,              \* where the loop is
  input,           \* the input channel
  dcap, device, pin, der,   \* what the server told: dcap_option,
                   \* server_device, server_registration_info, der_option
  responses,       \* control_response_queue, by number
  latest,          \* a report of this kind waits to be sent
  sent,            \* when one was last sent: last_sent_device_settings and its like
  retryRequested,
  retry,           \* the retry task
  poll,            \* the DeviceCapability the dcap poll compares with
  polled,          \* the dcap poll has seen another one, and sends its command
  server,          \* the DeviceCapability the server serves now
  accepted,        \* the number of responses taken in
  posted,          \* the responses the server received
  used             \* how much of each bound is used up

known == <<dcap, device, pin, der>>
reports == <<latest, sent>>
outbox == <<responses, accepted, posted>>
retrying == <<retryRequested, retry>>
polling == <<poll, polled>>

vars == <<pc, input, known, outbox, reports, retrying, polling, server, used>>

-----------------------------------------------------------------------------

Init ==
  /\ pc = "recv"
  /\ input = <<"Wake">>
  /\ dcap = NoDcap /\ device = FALSE /\ pin = "unknown" /\ der = FALSE
  /\ responses = <<>> /\ accepted = 0 /\ posted = <<>>
  /\ latest = [r \in Report |-> FALSE] /\ sent = [r \in Report |-> "never"]
  /\ retryRequested = FALSE /\ retry = "none"
  /\ poll = NoDcap /\ polled = FALSE
  /\ server \in Dcap
  /\ used = [responses |-> 0, others |-> 0, failures |-> 0, changes |-> 0]

(* A request is not answered as hoped. *)
Fails ==
  /\ used.failures < MaxFailures
  /\ used' = [used EXCEPT !.failures = @ + 1]

(* `continue`: back to the top of the loop. *)
Continue == pc' = "top"

-----------------------------------------------------------------------------
(* The loop: taking a command. *)

(* The top of the loop: the retry task is there as long as one is requested. *)
MaintainRetry ==
  /\ pc = "top"
  /\ retry' = IF ~retryRequested THEN "none"
              ELSE IF retry = "none" THEN "sleeping" ELSE retry
  /\ pc' = "recv"
  /\ UNCHANGED <<input, known, outbox, reports, retryRequested, polling, server, used>>

Mutant_Proceed_lazy(wakes) ==
  /\ IF retry # "none" /\ ~wakes THEN Continue ELSE pc' = "dcap"
  /\ UNCHANGED retrying

(* With a retry task around, only it or a reset starts a pass. *)
Proceed(wakes) ==
  /\ UNCHANGED retry
  /\ IF retry # "none" /\ ~wakes
     THEN Continue /\ UNCHANGED retryRequested
     ELSE pc' = "dcap" /\ retryRequested' = TRUE

Take(command) ==
  /\ pc = "recv"
  /\ input # <<>>
  /\ Head(input) = command
  /\ input' = Tail(input)
  /\ UNCHANGED <<polling, server, used>>

TakeWake ==
  /\ Take("Wake")
  /\ Proceed(TRUE)
  /\ UNCHANGED <<known, outbox, reports>>

Mutant_Forget_keeps_der ==
  /\ dcap' = NoDcap /\ device' = FALSE /\ pin' = "unknown" /\ UNCHANGED der
  /\ sent' = [r \in Report |-> "never"]

(* ResetConnection: what was learnt from the last DeviceCapability goes, and *)
(* what was sent counts as unsent; the responses stay.                       *)
Forget ==
  /\ dcap' = NoDcap /\ device' = FALSE /\ pin' = "unknown" /\ der' = FALSE
  /\ sent' = [r \in Report |-> "never"]

Mutant_TakeReset_clears_queue ==
  /\ Take("ResetConnection")
  /\ Forget
  /\ Proceed(TRUE)
  /\ responses' = <<>>
  /\ UNCHANGED <<latest, accepted, posted>>

TakeReset ==
  /\ Take("ResetConnection")
  /\ Forget
  /\ Proceed(TRUE)
  /\ UNCHANGED <<latest, outbox>>

Mutant_Push_off_by_one(queue, n) ==
  LET longer == Append(queue, n)
  IN  IF Len(longer) > MaxQueue THEN Tail(longer) ELSE longer

(* At the limit the oldest response is dropped. *)
Push(queue, n) ==
  LET longer == Append(queue, n)
  IN  IF Len(longer) >= MaxQueue THEN Tail(longer) ELSE longer

TakeResponse ==
  /\ Take("SendControlResponse")
  /\ accepted' = accepted + 1
  /\ responses' = Push(responses, accepted + 1)
  /\ Proceed(FALSE)
  /\ UNCHANGED <<known, reports, posted>>

(* SendDeviceSettings and its like: the latest replaces any before.  New     *)
(* capabilities count as unsent; that they differ is the device's choice.    *)
TakeReport(r) ==
  /\ Take(r)
  /\ latest' = [latest EXCEPT ![r] = TRUE]
  /\ \/ UNCHANGED sent
     \/ r = "capability" /\ sent' = [sent EXCEPT ![r] = "never"]
  /\ Proceed(FALSE)
  /\ UNCHANGED <<known, outbox>>

(* Another post rate makes what was sent recent or long ago, but for the     *)
(* capabilities, whose rate is fixed.                                        *)
TakePostRates ==
  /\ Take("UpdatePostRates")
  /\ \E recent \in SUBSET Report :
       sent' = [r \in Report |->
                 IF sent[r] = "never" \/ r = "capability" THEN sent[r]
                 ELSE IF r \in recent THEN "recently" ELSE "longAgo"]
  /\ Proceed(FALSE)
  /\ UNCHANGED <<known, latest, outbox>>

(* SubscribeToResource and UnsubscribeFromResource, whose table of polls is  *)
(* not modelled, start no pass.                                              *)
TakeSubscription ==
  /\ Take("Subscription")
  /\ Continue
  /\ UNCHANGED <<known, outbox, reports, retrying>>

-----------------------------------------------------------------------------
(* The loop: a pass. *)

Mutant_FetchDcap_keeps_poll ==
  /\ pc = "dcap"
  /\ IF dcap # NoDcap
     THEN pc' = "device" /\ UNCHANGED <<dcap, polling, used>>
     ELSE \/ /\ Fails
             /\ Continue
             /\ UNCHANGED <<dcap, polling>>
          \/ /\ poll' = (IF poll = NoDcap THEN server ELSE poll)
             /\ IF server \in WithEdevLink
                THEN dcap' = server /\ pc' = "device"
                ELSE Continue /\ UNCHANGED dcap
             /\ UNCHANGED <<used, polled>>
  /\ UNCHANGED <<input, device, pin, der, outbox, reports, retrying, server>>

(* The dcap poll is aborted before the DeviceCapability is fetched, and      *)
(* started again with what was fetched.  One without a link to the           *)
(* EndDeviceList is forgotten, but still watched.                            *)
FetchDcap ==
  /\ pc = "dcap"
  /\ IF dcap # NoDcap
     THEN pc' = "device" /\ UNCHANGED <<dcap, polling, used>>
     ELSE /\ polled' = FALSE
          /\ \/ /\ Fails
                /\ poll' = NoDcap
                /\ Continue
                /\ UNCHANGED dcap
             \/ /\ poll' = server
                /\ IF server \in WithEdevLink
                   THEN dcap' = server /\ pc' = "device"
                   ELSE Continue /\ UNCHANGED dcap
                /\ UNCHANGED used
  /\ UNCHANGED <<input, device, pin, der, outbox, reports, retrying, server>>

(* ensure_device_registered: found, or registered now.  A list that holds    *)
(* another device, or several, stops the task.                               *)
EnsureDevice ==
  /\ pc = "device"
  /\ \/ device' = TRUE /\ pc' = "pin" /\ UNCHANGED used
     \/ ~device /\ Fails /\ Continue /\ UNCHANGED device
     \/ ~device /\ Fails /\ pc' = "stopped" /\ UNCHANGED device
  /\ UNCHANGED <<input, dcap, pin, der, outbox, reports, retrying, polling, server>>

(* The Registration is kept as soon as it is received, and compared then. *)
ValidatePin ==
  /\ pc = "pin"
  /\ IF ~PinExpected \/ pin # "unknown"
     THEN pc' = "responses" /\ UNCHANGED <<pin, used>>
     ELSE \/ pin' = "match" /\ pc' = "responses" /\ UNCHANGED used
          \/ pin' = "mismatch" /\ Fails /\ Continue
          \/ Fails /\ Continue /\ UNCHANGED pin
  /\ UNCHANGED <<input, dcap, device, der, outbox, reports, retrying, polling, server>>

(* send_control_responses, one response. *)
Received(n) == posted' = Append(posted, n)

ResponsePosted ==
  /\ pc = "responses" /\ responses # <<>>
  /\ Received(Head(responses))
  /\ responses' = Tail(responses)
  /\ UNCHANGED <<pc, input, known, accepted, reports, retrying, polling, server, used>>

ResponseDiscarded ==
  /\ pc = "responses" /\ responses # <<>>
  /\ Fails
  /\ responses' = Tail(responses)
  /\ UNCHANGED <<pc, input, known, accepted, posted, reports, retrying, polling, server>>

Mutant_ResponseFailed_requeues_last ==
  /\ pc = "responses" /\ responses # <<>>
  /\ Fails
  /\ Continue
  /\ responses' = Append(Tail(responses), Head(responses))
  /\ UNCHANGED <<posted, input, known, accepted, reports, retrying, polling, server>>

(* Refused for now, or no answer in time, in which case the server may have  *)
(* received it: back to the front of the queue.                              *)
ResponseFailed ==
  /\ pc = "responses" /\ responses # <<>>
  /\ Fails
  /\ Continue
  /\ Received(Head(responses)) \/ UNCHANGED posted
  /\ UNCHANGED <<input, known, responses, accepted, reports, retrying, polling, server>>

ResponsesSent ==
  /\ pc = "responses" /\ responses = <<>>
  /\ pc' = "der"
  /\ UNCHANGED <<input, known, outbox, reports, retrying, polling, server, used>>

EnsureDer ==
  /\ pc = "der"
  /\ \/ der' = TRUE /\ pc' = Reports[1] /\ UNCHANGED used
     \/ ~der /\ Fails /\ Continue /\ UNCHANGED der
  /\ UNCHANGED <<input, dcap, device, pin, outbox, reports, retrying, polling, server>>

Mutant_SendReport_stays(i) ==
  LET r == Reports[i]
      next == (IF i < Len(Reports) THEN pc' = Reports[i + 1] ELSE Continue)
                /\ UNCHANGED retryRequested
  IN  /\ pc = r
      /\ IF r \in Report /\ latest[r] /\ sent[r] # "recently"
         THEN \/ /\ latest' = [latest EXCEPT ![r] = (r = "capability")]
                 /\ sent' = [sent EXCEPT ![r] = "recently"]
                 /\ next
                 /\ UNCHANGED used
              \/ Fails /\ Continue /\ UNCHANGED <<reports, retryRequested>>
         ELSE next /\ UNCHANGED <<reports, used>>
      /\ UNCHANGED <<input, known, outbox, retry, polling, server>>

(* Settings, status, capabilities and meter readings, in this order.  Sent   *)
(* ones are forgotten, but for the capabilities, which are sent every day.   *)
SendReport(i) ==
  LET r == Reports[i]
      next == IF i < Len(Reports)
              THEN pc' = Reports[i + 1] /\ UNCHANGED retryRequested
              ELSE Continue /\ retryRequested' = FALSE
  IN  /\ pc = r
      /\ IF r \in Report /\ latest[r] /\ sent[r] # "recently"
         THEN \/ /\ latest' = [latest EXCEPT ![r] = (r = "capability")]
                 /\ sent' = [sent EXCEPT ![r] = "recently"]
                 /\ next
                 /\ UNCHANGED used
              \/ Fails /\ Continue /\ UNCHANGED <<reports, retryRequested>>
         ELSE next /\ UNCHANGED <<reports, used>>
      /\ UNCHANGED <<input, known, outbox, retry, polling, server>>

-----------------------------------------------------------------------------
(* The retry task and the dcap poll. *)

RetryTimeout ==
  /\ retry = "sleeping"
  /\ retry' = "sending"
  /\ UNCHANGED <<pc, input, known, outbox, reports, retryRequested, polling, server, used>>

Send(command) ==
  /\ Len(input) < QueueCapacity
  /\ input' = Append(input, command)

Mutant_RetrySend_once ==
  /\ retry = "sending"
  /\ Send("Wake")
  /\ retry' = "finished"
  /\ UNCHANGED <<pc, known, outbox, reports, retryRequested, polling, server, used>>

RetrySend ==
  /\ retry = "sending"
  /\ Send("Wake")
  /\ retry' = "sleeping"
  /\ UNCHANGED <<pc, known, outbox, reports, retryRequested, polling, server, used>>

(* dcap_polling: a poll that fails, or finds nothing new, changes nothing. *)
DcapPoll ==
  /\ poll # NoDcap /\ ~polled
  /\ server # poll
  /\ polled' = TRUE
  /\ UNCHANGED <<pc, input, known, outbox, reports, retrying, poll, server, used>>

DcapPollSend ==
  /\ polled
  /\ Send("ResetConnection")
  /\ polled' = FALSE
  /\ UNCHANGED <<pc, known, outbox, reports, retrying, poll, server, used>>

-----------------------------------------------------------------------------
(* The environment. *)

ArriveResponse ==
  /\ used.responses < MaxResponses
  /\ used' = [used EXCEPT !.responses = @ + 1]
  /\ Send("SendControlResponse")
  /\ UNCHANGED <<pc, known, outbox, reports, retrying, polling, server>>

ArriveOther ==
  /\ used.others < MaxOthers
  /\ used' = [used EXCEPT !.others = @ + 1]
  /\ \E command \in Report \cup {"UpdatePostRates", "Subscription"} : Send(command)
  /\ UNCHANGED <<pc, known, outbox, reports, retrying, polling, server>>

(* The post rate's time passes. *)
RateElapses ==
  /\ \E r \in Report : sent[r] = "recently" /\ sent' = [sent EXCEPT ![r] = "longAgo"]
  /\ UNCHANGED <<pc, input, known, outbox, latest, retrying, polling, server, used>>

ServerChanges ==
  /\ used.changes < MaxChanges
  /\ used' = [used EXCEPT !.changes = @ + 1]
  /\ server' \in Dcap \ {server}
  /\ UNCHANGED <<pc, input, known, outbox, reports, retrying, polling>>

(* The loop rests: waiting for a command, or stopped. *)
Idle ==
  /\ pc = "stopped" \/ (pc = "recv" /\ input = <<>> /\ retry = "none")
  /\ UNCHANGED vars

TakeCommand ==
  \/ TakeWake \/ TakeReset \/ TakeResponse \/ \E r \in Report : TakeReport(r)
  \/ TakePostRates \/ TakeSubscription

Pass ==
  \/ FetchDcap \/ EnsureDevice \/ ValidatePin
  \/ ResponsePosted \/ ResponseDiscarded \/ ResponseFailed \/ ResponsesSent
  \/ EnsureDer \/ \E i \in DOMAIN Reports : SendReport(i)

Loop == MaintainRetry \/ TakeCommand \/ Pass

RetryTask == RetryTimeout \/ RetrySend

DcapPolling == DcapPoll \/ DcapPollSend

Environment == ArriveResponse \/ ArriveOther \/ RateElapses \/ ServerChanges

Next == Loop \/ RetryTask \/ DcapPolling \/ Environment \/ Idle

(* The runtime polls every task that is ready; the channel is fair to those *)
(* that wait for room in it.                                                *)
Fairness ==
  WF_vars(Loop) /\ WF_vars(RetryTimeout) /\ SF_vars(RetrySend)
    /\ WF_vars(DcapPoll) /\ SF_vars(DcapPollSend)

Spec == Init /\ [][Next]_vars

FairSpec == Spec /\ Fairness

-----------------------------------------------------------------------------
(* Properties. *)

ReportPcs == {Reports[i] : i \in DOMAIN Reports}

Pcs == {"recv", "top", "dcap", "device", "pin", "responses", "der", "stopped"} \cup ReportPcs

Commands == Report \cup
  {"Wake", "ResetConnection", "SendControlResponse", "UpdatePostRates", "Subscription"}

LoopTypeOK ==
  /\ pc \in Pcs
  /\ dcap \in WithEdevLink \cup {NoDcap} /\ server \in Dcap
  /\ pin \in {"unknown", "match", "mismatch"}
  /\ poll \in Dcap \cup {NoDcap}
  /\ retry \in {"none", "sleeping", "sending"}
  /\ sent \in [Report -> {"never", "recently", "longAgo"}]

FlagTypeOK ==
  /\ device \in BOOLEAN /\ der \in BOOLEAN /\ polled \in BOOLEAN
  /\ retryRequested \in BOOLEAN
  /\ latest \in [Report -> BOOLEAN]

QueueTypeOK ==
  /\ input \in Seq(Commands) /\ Len(input) <= QueueCapacity
  /\ accepted \in Nat
  /\ responses \in Seq(Nat) /\ Len(responses) < MaxQueue
  /\ posted \in Seq(Nat)

(* Every variable has its shape, and the two queues keep to their bounds. *)
TypeOK == LoopTypeOK /\ FlagTypeOK /\ QueueTypeOK

Out == INSTANCE Outbox WITH pending <- responses

(* The queue of responses, its retries and the resets that leave it alone    *)
(* keep the promise of the outbox, as does everything else the loop does.    *)
ImplementsOutbox == Out!Spec

(* Responses reach the server in the order of the events they report: the    *)
(* retry puts a response back where it was taken (push_front).               *)
ResponsesInOrder == Out!PostedInOrder

(* What the loop builds on is what the dcap poll compares the server's       *)
(* DeviceCapability with: a change of it cannot go unnoticed.                *)
DcapWatched == dcap # NoDcap => poll = dcap

(* A report that was never sent under this connection is due whatever the    *)
(* post rates are.                                                           *)
Unsent(r) == latest[r] /\ sent[r] = "never"

(* The loop never rests with work undone that it knows of and nothing to     *)
(* wake it: a retry task is there.                                           *)
Undone == responses # <<>> \/ dcap = NoDcap \/ ~device \/ ~der \/ \E r \in Report : Unsent(r)

UndoneIsRetried == pc = "recv" /\ input = <<>> /\ Undone => retry # "none"

(* Its other half: the retry task, which keeps every report and response     *)
(* from being sent until it wakes the loop, is there only for something a    *)
(* pass could not do.  A report may have ceased to be due since, by another  *)
(* post rate, but not to wait; the rate of the capabilities is fixed.        *)
Waiting(r) == latest[r] /\ (r = "capability" => sent[r] # "recently")

Reason == Undone \/ (PinExpected /\ pin # "match") \/ \E r \in Report : Waiting(r)

RetryHasReason == pc = "recv" /\ retry # "none" => Reason

(* What that rests on: how far a pass got, and the flag it set beforehand.   *)
PassInv ==
  /\ pc = "device" => dcap # NoDcap
  /\ pc \in {"pin", "responses", "der"} \cup ReportPcs => dcap # NoDcap /\ device
  /\ pc \in {"der"} \cup ReportPcs => responses = <<>>
  /\ pc \in ReportPcs => der

(* The reports before the one the pass is at are done with. *)
ReportInv ==
  \A i \in DOMAIN Reports : pc = Reports[i] =>
    \A k \in 1 .. i - 1 : Reports[k] \in Report => ~Unsent(Reports[k])

ReasonInv == pc \in {"recv", "top"} /\ retryRequested => Reason

RetryInv ==
  /\ pc \notin {"recv", "top"} => retryRequested
  /\ pc = "recv" => (retryRequested <=> retry # "none")
  /\ ~retryRequested /\ Undone => pc = "recv" /\ input # <<>> /\ Head(input) = "Wake"

ConnectionInv == TypeOK /\ PassInv /\ ReportInv /\ RetryInv /\ ReasonInv

(* Nothing of an earlier connection is built upon: what lies further down    *)
(* the tree is known only with what lies above it.                           *)
KnownFromTheTop == (der => device) /\ (pin # "unknown" => device) /\ (device => dcap # NoDcap)

(* Once requests stop failing, every response in the queue gets to the       *)
(* server or is given up, unless the task stopped over a foreign device or   *)
(* the server offers no EndDeviceList.                                       *)
ResponsesSettled ==
  responses # <<>> ~> (responses = <<>> \/ pc = "stopped" \/ server \notin WithEdevLink)

(* A DeviceCapability that stays is the one the loop comes to build on, if   *)
(* it links to an EndDeviceList; if it does not, none is.                    *)
ChangesNoticed ==
  <>[](dcap = (IF server \in WithEdevLink THEN server ELSE NoDcap) \/ pc = "stopped")

(* README.md: a PIN mismatch "is logged as an error and retried".  A pass    *)
(* goes on to talk to the server about this device only when the last PIN    *)
(* the server gave was the expected one.                                     *)
PinRetried == pc = "responses" => pin # "mismatch"

=============================================================================
