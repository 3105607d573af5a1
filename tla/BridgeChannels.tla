--------------------------- MODULE BridgeChannels ---------------------------
(***************************************************************************)
(* The tasks of the bridge as what they do to the bounded channels between *)
(* them (main.rs): every receive, every send and broadcast, and where a    *)
(* task waits for room.                                                    *)
(*                                                                         *)
(*   SEP2 connection, polls --resources--> resource_update_dispatcher      *)
(*     --schedulerInput--> scheduler                                       *)
(*     --events--> sep2_subscription_and_notification_dispatcher           *)
(*     --connectionInput--> SEP2 connection                                *)
(*                                                                         *)
(*   scheduler --events--> control_change_dispatcher --modbusInput-->      *)
(*     Modbus task --deviceEvents--> sep2_device_state_dispatcher          *)
(*     --connectionInput--> SEP2 connection                                *)
(*                                                                         *)
(* A resource stands for itself, its link, its poll and what its poll      *)
(* brings.  What a resource says is how many links and other events the    *)
(* scheduler emits when it first applies it.  The DeviceCapability links   *)
(* to an EndDeviceList: Sep2Connection has the one that does not.          *)
(***************************************************************************)
EXTENDS Integers, Sequences, FiniteSets

CONSTANTS
  Resource,    \* the resources of the server
  Root,        \* its DeviceCapability
  Polled,      \* the others of a kind that is polled
  AtStart,     \* what the scheduler emits first: the links of the persisted model,
               \* and the post rates and parameters that follow from it
  Announces,   \* what the scheduler emits when it first applies a resource
  NoResource,
  Capacity,    \* the capacity of every channel
  Limits       \* bounds, for TLC: how many polls are answered, waits end, reports
               \* the device makes and requests fail, in one behaviour or another

Link(r) == [type |-> "LinkAddedOrUpdated", resource |-> r]

Updated(r) == [type |-> "ResourceUpdated", resource |-> r]

Other(type) == [type |-> type, resource |-> NoResource]

Refresh == Other("RefreshActiveResources")

NextSchedule == Other("NextSchedule")

Input == {Refresh, NextSchedule} \cup {Updated(r) : r \in Resource}

(* scheduler::Event, but for LinkRemoved: nothing is removed here. *)
Event ==
  {Link(r) : r \in Resource}
    \cup {Other("DERControlStatusChanged"), Other("PostRatesChanged"), Other("ParametersChanged")}

(* sep2_connection::Command; a subscription, a response and post rates are *)
(* the events they come from.                                              *)
Command == Event \cup {Other("Wake"), Other("ResetConnection"), Other("DeviceReport")}

(* The resources of the persisted model. *)
Known == {r \in Resource : \E i \in DOMAIN AtStart : AtStart[i] = Link(r)}

ASSUME ChannelsAssumption ==
  /\ Root \in Resource /\ NoResource \notin Resource
  /\ Polled \subseteq Resource \ {Root}
  /\ AtStart \in Seq(Event)
  /\ Announces \in [Resource -> Seq(Event)]
  /\ Capacity \in Nat \ {0}

VARIABLES
  main,            \* what main is still to send: "Wake" and then the command for
                   \* the scheduler, "RefreshActiveResources" alone, or "nothing"
  resources,       \* the broadcast channel of the connection task
  heldResource,    \* what resource_update_dispatcher received and has not sent:
                   \* nothing, or a sequence of one
  schedulerInput,
  announcing,      \* the events the scheduler is still to broadcast
  applied,         \* the resources in its model
  wait,            \* whether its wait task sleeps, broadcasts or sends; there is
                   \* none before the first command
  toSubscriptions, \* the broadcast channel of the scheduler, as what each of
  toControls,      \* its two receivers has not received yet
  heldCommand,     \* what the subscription dispatcher is to send, in the same way
  heldParameters,  \* whether control_change_dispatcher holds parameters
  modbusInput,     \* how many commands are in the channel
  modbus,          \* whether the Modbus task waits for a command or to broadcast
  deviceEvents,    \* how many of its events are in the channel
  heldReports,     \* how many commands sep2_device_state_dispatcher is to send
  connectionInput,
  passing,         \* the connection task tries to send what there is to send
  fetched,         \* what it fetched and has not broadcast yet
  retry,           \* there is a retry task
  polls,           \* the polls that exist, that of Root while dcap_option is known
  arrived,         \* the polls whose callback has not broadcast yet
  reset,           \* the dcap poll saw another DeviceCapability, and is to say so
  used             \* what was spent of the bounds, and the results there have been

upward == <<resources, heldResource, schedulerInput>>
scheduler == <<announcing, applied, wait>>
events == <<toSubscriptions, toControls>>
control == <<heldParameters, modbusInput, modbus, deviceEvents, heldReports>>
pass == <<passing, retry>>
polling == <<polls, arrived, reset>>
connection == <<fetched, pass, polling>>
vars == <<main, upward, scheduler, events, heldCommand, control, connectionInput, connection, used>>

(* main has spawned the tasks. *)
Init ==
  /\ main = "Wake"
  /\ resources = <<>> /\ heldResource = <<>> /\ schedulerInput = <<>>
  /\ announcing = <<>> /\ applied = Known /\ wait = "none"
  /\ toSubscriptions = <<>> /\ toControls = <<>> /\ heldCommand = <<>>
  /\ heldParameters = FALSE /\ modbusInput = 0 /\ modbus = "receiving"
  /\ deviceEvents = 0 /\ heldReports = 0
  /\ connectionInput = <<>>
  /\ fetched = <<>> /\ passing = FALSE /\ retry = FALSE
  /\ polls = {} /\ arrived = {} /\ reset = FALSE
  /\ used = [results |-> 0, wakeUps |-> 0, polls |-> 0, reports |-> 0, failures |-> 0]

Allowed(u) == \E limit \in Limits : \A bound \in DOMAIN limit : u[bound] <= limit[bound]

-----------------------------------------------------------------------------
(* main wakes up the tasks. *)

HasRoom(channel) == Len(channel) < Capacity

Mutant_Send_unbounded(command) == connectionInput' = Append(connectionInput, command)

Send(command) ==
  /\ HasRoom(connectionInput)
  /\ connectionInput' = Append(connectionInput, command)

MainWakes ==
  /\ main = "Wake"
  /\ Send(Other("Wake"))
  /\ main' = "RefreshActiveResources"
  /\ UNCHANGED <<upward, scheduler, events, heldCommand, control, connection, used>>

MainRefreshes ==
  /\ main = "RefreshActiveResources"
  /\ HasRoom(schedulerInput)
  /\ schedulerInput' = Append(schedulerInput, Refresh)
  /\ main' = "nothing"
  /\ UNCHANGED <<resources, heldResource, scheduler, events, heldCommand, control,
                 connectionInput, connection, used>>

-----------------------------------------------------------------------------
(* The SEP2 connection task. *)

Idle == fetched = <<>>

Take(command) ==
  /\ Idle /\ ~passing
  /\ connectionInput # <<>>
  /\ Head(connectionInput) = command
  /\ connectionInput' = Tail(connectionInput)
  /\ UNCHANGED <<main, upward, scheduler, events, heldCommand, control, retry>>

Fetch(r) ==
  /\ fetched' = <<r>>
  /\ used' = [used EXCEPT !.results = @ + 1]

Fails ==
  /\ used' = [used EXCEPT !.failures = @ + 1]
  /\ Allowed(used')
  /\ UNCHANGED fetched

TakeWake ==
  /\ Take(Other("Wake"))
  /\ passing' = TRUE
  /\ UNCHANGED <<fetched, polling, used>>

(* ResetConnection.  The pass that follows stops the dcap poll first of all. *)
TakeReset ==
  /\ Take(Other("ResetConnection"))
  /\ passing' = TRUE
  /\ polls' = polls \ {Root} /\ arrived' = arrived \ {Root} /\ reset' = FALSE
  /\ UNCHANGED <<fetched, used>>

(* SubscribeToResource, which starts no pass.  A link that is polled already, *)
(* or of a kind that is not polled, asks for nothing.  Otherwise the resource *)
(* is fetched, and the poll started once that is broadcast, or failed.        *)
TakeSubscription ==
  /\ \E r \in Resource :
       /\ Take(Link(r))
       /\ IF r \in polls \/ r \notin Polled
          THEN UNCHANGED <<fetched, polls, used>>
          ELSE \/ Fetch(r) /\ UNCHANGED polls
               \/ Fails /\ polls' = polls \cup {r}
  /\ UNCHANGED <<passing, arrived, reset>>

(* Whatever else arrives is for the next pass, which a retry task puts off. *)
TakeOther ==
  /\ \E type \in {"DERControlStatusChanged", "PostRatesChanged", "DeviceReport"} :
       Take(Other(type))
  /\ passing' = ~retry
  /\ UNCHANGED <<fetched, polling, used>>

(* The top of the loop after a pass: a retry task is there if one is needed. *)
EndPass(failed) == passing' = FALSE /\ retry' = failed

(* get_dcap: the DeviceCapability is broadcast next, and then polled. *)
FetchDcap ==
  /\ passing /\ Idle
  /\ Root \notin polls
  /\ \/ Fetch(Root) /\ UNCHANGED pass
     \/ Fails /\ EndPass(TRUE)
  /\ UNCHANGED <<main, upward, scheduler, events, heldCommand, control, connectionInput, polling>>

(* The rest of a pass is requests to the server. *)
PassEnds ==
  /\ passing /\ Idle
  /\ Root \in polls
  /\ \/ EndPass(FALSE) /\ UNCHANGED <<fetched, used>>
     \/ EndPass(TRUE) /\ Fails
  /\ UNCHANGED <<main, upward, scheduler, events, heldCommand, control, connectionInput, polling>>

Mutant_BroadcastFetched_drops ==
  /\ ~Idle
  /\ resources' = IF HasRoom(resources) THEN Append(resources, Head(fetched)) ELSE resources
  /\ polls' = polls \cup {Head(fetched)}
  /\ fetched' = <<>>
  /\ UNCHANGED <<main, heldResource, schedulerInput, scheduler, events, heldCommand, control,
                 connectionInput, pass, arrived, reset, used>>

(* The loop takes no command until the channel has room. *)
BroadcastFetched ==
  /\ ~Idle
  /\ HasRoom(resources)
  /\ resources' = Append(resources, Head(fetched))
  /\ polls' = polls \cup {Head(fetched)}
  /\ fetched' = <<>>
  /\ UNCHANGED <<main, heldResource, schedulerInput, scheduler, events, heldCommand, control,
                 connectionInput, pass, arrived, reset, used>>

-----------------------------------------------------------------------------
(* The tasks beside it: retry_task, the polls and dcap_polling. *)

RetryWakes ==
  /\ retry
  /\ Send(Other("Wake"))
  /\ UNCHANGED <<main, upward, scheduler, events, heldCommand, control, connection, used>>

(* A poll is due and answered; its callback waits for room on its own.  The *)
(* dcap poll is one task, which first says what it saw.                     *)
PollArrives ==
  /\ \E r \in polls \ arrived :
       /\ r = Root => ~reset
       /\ arrived' = arrived \cup {r}
  /\ used' = [used EXCEPT !.polls = @ + 1, !.results = @ + 1]
  /\ Allowed(used')
  /\ UNCHANGED <<main, upward, scheduler, events, heldCommand, control, connectionInput, fetched,
                 pass, polls, reset>>

PollBroadcasts ==
  /\ HasRoom(resources)
  /\ \E r \in arrived :
       /\ resources' = Append(resources, r)
       /\ arrived' = arrived \ {r}
       /\ UNCHANGED reset \/ (r = Root /\ reset' = TRUE)
  /\ UNCHANGED <<main, heldResource, schedulerInput, scheduler, events, heldCommand, control,
                 connectionInput, fetched, pass, polls, used>>

SendReset ==
  /\ reset
  /\ Send(Other("ResetConnection"))
  /\ reset' = FALSE
  /\ UNCHANGED <<main, upward, scheduler, events, heldCommand, control, fetched, pass, polls,
                 arrived, used>>

-----------------------------------------------------------------------------
(* The way up: resource_update_dispatcher. *)

ReceiveResource ==
  /\ heldResource = <<>>
  /\ resources # <<>>
  /\ heldResource' = <<Head(resources)>>
  /\ resources' = Tail(resources)
  /\ UNCHANGED <<main, schedulerInput, scheduler, events, heldCommand, control, connectionInput,
                 connection, used>>

Mutant_SendResource_keeps ==
  /\ heldResource # <<>>
  /\ HasRoom(schedulerInput)
  /\ schedulerInput' = Append(schedulerInput, Updated(Head(heldResource)))
  /\ UNCHANGED <<main, resources, heldResource, scheduler, events, heldCommand, control, connectionInput,
                 connection, used>>

SendResource ==
  /\ heldResource # <<>>
  /\ HasRoom(schedulerInput)
  /\ schedulerInput' = Append(schedulerInput, Updated(Head(heldResource)))
  /\ heldResource' = <<>>
  /\ UNCHANGED <<main, resources, scheduler, events, heldCommand, control, connectionInput,
                 connection, used>>

-----------------------------------------------------------------------------
(* The scheduler: no command is taken while it has events to broadcast.    *)
(* Once it has broadcast them it may abort its wait task, which is replaced *)
(* by one that sleeps.                                                     *)
TakeCommand(command) ==
  /\ announcing = <<>>
  /\ schedulerInput # <<>>
  /\ Head(schedulerInput) = command
  /\ schedulerInput' = Tail(schedulerInput)
  /\ UNCHANGED <<main, resources, heldResource, events, heldCommand, control, connectionInput,
                 connection, used>>

MayAbortWait ==
  IF announcing' # <<>> THEN UNCHANGED wait ELSE wait' \in {wait, "sleeping"} \ {"none"}

(* RefreshActiveResources. *)
TakeRefresh ==
  /\ TakeCommand(Refresh)
  /\ announcing' = AtStart
  /\ MayAbortWait
  /\ UNCHANGED applied

(* ResourceUpdated: what is known already announces nothing. *)
TakeResource ==
  \E r \in Resource :
    /\ TakeCommand(Updated(r))
    /\ announcing' = IF r \in applied THEN <<>> ELSE Announces[r]
    /\ applied' = applied \cup {r}
    /\ MayAbortWait

(* NextSchedule: a control has started or ended, and the parameters may be *)
(* others.                                                                 *)
TakeNextSchedule ==
  /\ TakeCommand(NextSchedule)
  /\ announcing' \in {<<>>, <<Other("ParametersChanged")>>}
  /\ MayAbortWait
  /\ UNCHANGED applied

(* A broadcast waits for the slower of the two receivers. *)
BroadcastEvent ==
  /\ announcing # <<>>
  /\ HasRoom(toSubscriptions) /\ HasRoom(toControls)
  /\ toSubscriptions' = Append(toSubscriptions, Head(announcing))
  /\ toControls' = Append(toControls, Head(announcing))
  /\ announcing' = Tail(announcing)
  /\ MayAbortWait
  /\ UNCHANGED <<main, upward, applied, heldCommand, control, connectionInput, connection, used>>

(* scheduler_action_task: the predicted time has come.  It broadcasts what *)
(* was predicted and wakes the scheduler.                                  *)
WaitEnds ==
  /\ wait = "sleeping"
  /\ used' = [used EXCEPT !.wakeUps = @ + 1]
  /\ Allowed(used')
  /\ wait' \in {"broadcasting", "sending"}
  /\ UNCHANGED <<main, upward, announcing, applied, events, heldCommand, control, connectionInput,
                 connection>>

WaitBroadcasts ==
  /\ wait = "broadcasting"
  /\ HasRoom(toSubscriptions) /\ HasRoom(toControls)
  /\ toSubscriptions' = Append(toSubscriptions, Other("DERControlStatusChanged"))
  /\ toControls' = Append(toControls, Other("DERControlStatusChanged"))
  /\ wait' = "sending"
  /\ UNCHANGED <<main, upward, announcing, applied, heldCommand, control, connectionInput, connection,
                 used>>

WaitSends ==
  /\ wait = "sending"
  /\ HasRoom(schedulerInput)
  /\ schedulerInput' = Append(schedulerInput, NextSchedule)
  /\ wait' = "sleeping"
  /\ UNCHANGED <<main, resources, heldResource, announcing, applied, events, heldCommand, control,
                 connectionInput, connection, used>>

-----------------------------------------------------------------------------
(* The way back: sep2_subscription_and_notification_dispatcher. *)

ReceiveEvent ==
  /\ heldCommand = <<>>
  /\ toSubscriptions # <<>>
  /\ heldCommand' = IF Head(toSubscriptions) = Other("ParametersChanged") THEN <<>>
                    ELSE <<Head(toSubscriptions)>>
  /\ toSubscriptions' = Tail(toSubscriptions)
  /\ UNCHANGED <<main, upward, scheduler, toControls, control, connectionInput, connection, used>>

SendCommand ==
  /\ heldCommand # <<>>
  /\ Send(Head(heldCommand))
  /\ heldCommand' = <<>>
  /\ UNCHANGED <<main, upward, scheduler, events, control, connection, used>>

-----------------------------------------------------------------------------
(* The way down: control_change_dispatcher, the Modbus task and              *)
(* sep2_device_state_dispatcher.                                             *)

ReceiveControl ==
  /\ ~heldParameters
  /\ toControls # <<>>
  /\ heldParameters' = (Head(toControls) = Other("ParametersChanged"))
  /\ toControls' = Tail(toControls)
  /\ UNCHANGED <<main, upward, scheduler, toSubscriptions, heldCommand, modbusInput, modbus,
                 deviceEvents, heldReports, connectionInput, connection, used>>

SendParameters ==
  /\ heldParameters
  /\ modbusInput < Capacity
  /\ modbusInput' = modbusInput + 1
  /\ heldParameters' = FALSE
  /\ UNCHANGED <<main, upward, scheduler, events, heldCommand, modbus, deviceEvents, heldReports,
                 connectionInput, connection, used>>

(* Every wait of the Modbus task but that for room is under COMM_TIMEOUT. *)
TakeParameters ==
  /\ modbus = "receiving"
  /\ modbusInput > 0
  /\ modbusInput' = modbusInput - 1
  /\ UNCHANGED <<main, upward, scheduler, events, heldCommand, heldParameters, modbus, deviceEvents,
                 heldReports, connectionInput, connection, used>>

PollDevice ==
  /\ modbus = "receiving"
  /\ used' = [used EXCEPT !.reports = @ + 1]
  /\ Allowed(used')
  /\ modbus' = "broadcasting"
  /\ UNCHANGED <<main, upward, scheduler, events, heldCommand, heldParameters, modbusInput,
                 deviceEvents, heldReports, connectionInput, connection>>

BroadcastReport ==
  /\ modbus = "broadcasting"
  /\ deviceEvents < Capacity
  /\ deviceEvents' = deviceEvents + 1
  /\ modbus' = "receiving"
  /\ UNCHANGED <<main, upward, scheduler, events, heldCommand, heldParameters, modbusInput,
                 heldReports, connectionInput, connection, used>>

(* Of status, settings and readings, those that were read and translate. *)
ReceiveReport ==
  /\ heldReports = 0
  /\ deviceEvents > 0
  /\ deviceEvents' = deviceEvents - 1
  /\ heldReports' \in 0 .. 3
  /\ UNCHANGED <<main, upward, scheduler, events, heldCommand, heldParameters, modbusInput, modbus,
                 connectionInput, connection, used>>

SendReport ==
  /\ heldReports > 0
  /\ Send(Other("DeviceReport"))
  /\ heldReports' = heldReports - 1
  /\ UNCHANGED <<main, upward, scheduler, events, heldCommand, heldParameters, modbusInput, modbus,
                 deviceEvents, connection, used>>

-----------------------------------------------------------------------------

ConnectionTask ==
  TakeWake \/ TakeReset \/ TakeSubscription \/ TakeOther \/ FetchDcap \/ PassEnds
    \/ BroadcastFetched

ResourceDispatcher == ReceiveResource \/ SendResource

SchedulerTask == TakeRefresh \/ TakeResource \/ TakeNextSchedule \/ BroadcastEvent

WaitTask == WaitBroadcasts \/ WaitSends

SubscriptionDispatcher == ReceiveEvent \/ SendCommand

ControlDispatcher == ReceiveControl \/ SendParameters

StateDispatcher == ReceiveReport \/ SendReport

(* Nothing is on its way: the bridge waits for polls and the device. *)
Quiet ==
  /\ resources = <<>> /\ heldResource = <<>> /\ schedulerInput = <<>> /\ announcing = <<>>
  /\ toSubscriptions = <<>> /\ toControls = <<>> /\ heldCommand = <<>>
  /\ main = "nothing" /\ connectionInput = <<>> /\ fetched = <<>> /\ ~passing /\ ~retry
  /\ arrived = {} /\ ~reset /\ wait = "sleeping" /\ ~heldParameters /\ modbusInput = 0
  /\ modbus = "receiving" /\ deviceEvents = 0 /\ heldReports = 0

Rest == Quiet /\ UNCHANGED vars

Next ==
  \/ MainWakes \/ MainRefreshes \/ RetryWakes \/ SendReset
  \/ ConnectionTask \/ ResourceDispatcher \/ SchedulerTask \/ WaitTask \/ SubscriptionDispatcher
  \/ ControlDispatcher \/ StateDispatcher
  \/ TakeParameters \/ BroadcastReport \/ PollBroadcasts
  \/ PollArrives \/ WaitEnds \/ PollDevice \/ Rest

Spec == Init /\ [][Next]_vars

(* The runtime polls every task that can go on.  A channel hands out room in *)
(* the order it was asked for: whoever waits to send to the connection task  *)
(* gets room if room comes again and again, however often the retry task     *)
(* sends.  Nothing says that a poll or the device has news, or a wait ends.  *)
Fairness ==
  /\ SF_vars(MainWakes) /\ WF_vars(MainRefreshes)
  /\ WF_vars(ConnectionTask) /\ WF_vars(RetryWakes)
  /\ WF_vars(PollBroadcasts) /\ SF_vars(SendReset)
  /\ WF_vars(ResourceDispatcher) /\ WF_vars(SchedulerTask) /\ WF_vars(WaitTask)
  /\ SF_vars(SubscriptionDispatcher) /\ SF_vars(StateDispatcher)
  /\ WF_vars(ControlDispatcher) /\ WF_vars(TakeParameters) /\ WF_vars(BroadcastReport)

FairSpec == Spec /\ Fairness

-----------------------------------------------------------------------------
(* Properties. *)

(* Every value has its type, and no channel of main.rs holds more than it  *)
(* has room for, whoever sends to it.                                      *)
TypeOK ==
  /\ main \in {"Wake", "RefreshActiveResources", "nothing"}
  /\ resources \in Seq(Resource) /\ Len(resources) <= Capacity
  /\ heldResource \in Seq(Resource) /\ Len(heldResource) <= 1
  /\ schedulerInput \in Seq(Input)
  /\ Len(schedulerInput) <= Capacity
  /\ announcing \in Seq(Event) /\ applied \subseteq Resource
  /\ wait \in {"none", "sleeping", "broadcasting", "sending"}
  /\ toSubscriptions \in Seq(Event) /\ Len(toSubscriptions) <= Capacity
  /\ toControls \in Seq(Event) /\ Len(toControls) <= Capacity
  /\ heldCommand \in Seq(Event) /\ Len(heldCommand) <= 1
  /\ heldParameters \in BOOLEAN /\ modbus \in {"receiving", "broadcasting"}
  /\ modbusInput \in 0 .. Capacity /\ deviceEvents \in 0 .. Capacity /\ heldReports \in 0 .. 3
  /\ connectionInput \in Seq(Command) /\ Len(connectionInput) <= Capacity
  /\ fetched \in Seq(Resource) /\ Len(fetched) <= 1
  /\ passing \in BOOLEAN /\ retry \in BOOLEAN
  /\ polls \subseteq Resource /\ arrived \subseteq polls /\ reset \in BOOLEAN
  /\ used \in [results : Nat, wakeUps : Nat, polls : Nat, reports : Nat, failures : Nat]

(* The connection task waits for room for what it fetched, while the room  *)
(* waits for the scheduler to take a command, and the scheduler waits to   *)
(* broadcast to the dispatchers that feed the connection task.             *)
Standstill ==
  /\ ~Idle /\ ~HasRoom(resources)
  /\ heldResource # <<>> /\ ~HasRoom(schedulerInput)
  /\ announcing # <<>>

(* The tasks of the bridge wait for each other in a circle.  They can only *)
(* come to a standstill after more than twice the capacity of a channel of *)
(* results and wake-ups: the channels on the way up to the scheduler are   *)
(* filled with these alone, and with none of them twice.                   *)
StandstillNeedsBurst == Standstill => used.results + used.wakeUps >= 2 * Capacity + 2

(* What the scheduler was asked to keep up to date: the links it knew at   *)
(* start and those of what it has applied.                                 *)
Wanted ==
  Known \cup {r \in Resource : \E q \in applied \ Known :
                                \E i \in DOMAIN Announces[q] : Announces[q][i] = Link(r)}

(* With fewer of them than that, everything comes to rest: every task is   *)
(* done with what it was sent, a pass came to its end, the server's        *)
(* DeviceCapability is watched, whatever is linked and of a kind that is   *)
(* polled is polled, and what is polled has reached the model but for what *)
(* could not be fetched (dispatch.rs, get_then_poll).                      *)
Settles ==
  <>[]( /\ Quiet
        /\ Root \in polls
        /\ Wanted \cap Polled \subseteq polls
        /\ Cardinality(polls \ applied) <= used.failures )

(* main.rs:416 "The wake-up action for the scheduler is to emit all known  *)
(* resources": once it has begun to, it comes to the end of them.          *)
EmitsAllKnown == announcing # <<>> ~> announcing = <<>>

=============================================================================
