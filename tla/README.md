# sep2-bridge: a verification development

TLA+ modules for the bridge in `src/crates/sep2-bridge-service`, their TLC
configurations, and proofs checked by TLAPS.  Paths below are relative to
`src/crates/sep2-bridge-service/src/`.

The bridge connects one distributed energy resource (DER) to a utility's IEEE
2030.5 (SEP2) server.  Downwards it polls the server's resources, works out which
controls apply, and writes their values into a SunSpec Modbus device.  Upwards it
reports what the device is doing, and answers each control with responses.

## 1. Inventory

### The parts and what they keep

| part | state | operations |
|---|---|---|
| scheduler task (`scheduler.rs`) | `Sep2Model`, what was last announced and last predicted, one wait task, a file | takes `ResourceUpdated`, `NextSchedule`, `RefreshActiveResources`; emits `ParametersChanged`, `DERControlStatusChanged`, `PostRatesChanged`, link events; persists; the wait task sleeps, broadcasts what is due, sends `NextSchedule` |
| control model (`scheduler/sep2_model.rs`, `scheduler/attributes.rs`) | lists, realised controls, defaults, programs, curves, rates | merge a resource, collect what is no longer linked to, list the controls in force, overlay them |
| links and subscriptions (`sep2_model.rs`, `scheduler.rs`) | the links last announced | difference of two sets of links as add and remove events |
| SEP2 connection task (`sep2_connection.rs`) | DeviceCapability, EndDevice, Registration, DER, response queue, latest reports, retry task, dcap poll, table of polls | takes ten commands; a pass from DeviceCapability to reports; retries |
| polling (`sep2_connection/polling.rs`) | polls inside `sep2_client` | start a poll for a kind of resource and forward what it gets |
| Modbus connection task (`modbus_connection.rs`) | the connection, the parameters to apply and those last sent, derivations that are pending | reconnects, writes parameters model by model, retries pending derivations, polls |
| scaled values (`scaled_value.rs`) | none | rescale between SunSpec scale factors, saturating |
| dispatchers and channels (`dispatch.rs`, `main.rs`) | bounded channels | four loops that turn one task's events into another's commands |
| translation (`translation.rs`) | none | field by field conversion |
| metrics, entry point (`metrics.rs`, `main.rs`, `lib.rs`) | counters | argument parsing, TLS, spawning |

### How they interact

The connection task and its polls broadcast resources; a dispatcher sends them to the
scheduler as `ResourceUpdated`.  The scheduler broadcasts events; one dispatcher turns
them into commands for the connection task (polls to start and to cancel, responses,
post rates), another into `UpdateParameters` for the Modbus task.  The Modbus task's
events go back to the connection task as reports.  All channels are bounded and every
send awaits room, so the tasks form a cycle of queues.

### What is hard

* The scheduler's loop and its wait task run concurrently, and the loop aborts the wait
  task at any of its await points (`scheduler.rs:195`).
* The loop skips replacing the wait task when nothing seems to have changed
  (`scheduler.rs:189`), and time goes on between the reading of the clock and its use.
* Intervals are half open, in whole seconds, with an offset drawn once per control and
  persisted; crashes fall between update and persistence.
* Every request of the connection task may fail; `continue` is reached from many places,
  a flag set in advance says whether a retry task is to be there, and resets of the
  connection arrive from another task.
* A timed-out post may have been received, and is sent again; a Modbus write that failed may
  have reached the device, and some of the parameters' writes have.
* Full channels make tasks wait for one another.

`PROJECT.json` lists each hazard at its line, with the property that covers it or the
reason none does.

### What makes each part correct

* Scheduler: what was announced is what applies, at every moment and not only when the
  loop ran; a wake-up is always on its way while a boundary is ahead; responses are never
  stale, early or out of order; a realised interval never changes; the loop catches up.
* Connection: responses are posted in order, repeated but never lost except at the limit
  or when refused; work left undone is retried; after a change of the DeviceCapability
  nothing old is built upon.
* Subscriptions: the polls that exist are those of the links in the model.
* Modbus: the last parameters get to the device, after reconnections too.
* Channels: no channel overflows, no cycle of tasks all waiting for room, everything sent is
  handled.
* Scaled values: rescaling gives the nearest value of the type, and keeps the order.

## 2. The modules

| module | models | kind |
|---|---|---|
| `DERControls` | `sep2_model.rs`, `attributes.rs`, the calculations of `scheduler.rs` | pure functions over a model record |
| `Scheduler` | `scheduler.rs`: loop, wait task, persistence, restart | state machine; EXTENDS `DERControls` |
| `MCScheduler` | instances | control lists, programs, defaults |
| `SchedulerProofs` | | proofs about `Scheduler`: parameters, wake-ups, persistence |
| `SchedulerResponseProofs` | | proofs about the responses `Scheduler` sends |
| `SequenceFacts` | | facts the proofs share: flattening a sequence of sequences, sorting a finite set |
| `Outbox` | what the connection task promises about responses | abstract specification |
| `Sep2Connection` | `sep2_connection.rs`: loop, pass, retry task, dcap poll | state machine; instantiates `Outbox` |
| `MCSep2Connection` | instances | |
| `Sep2ConnectionProofs` | | proofs about `Sep2Connection` and `Outbox` |
| `DeviceParameters` | `translation.rs` (controls to parameters), the writes of `modbus_connection.rs` | pure functions |
| `ModbusConnection` | `modbus_connection.rs`: loop, reconnection, the device's registers | state machine; EXTENDS `DeviceParameters` |
| `MCModbusConnection` | instances | control bases, curve models |
| `ModbusConnectionProofs` | | proofs about `ModbusConnection`, and the percentages and writes of `DeviceParameters` |
| `BridgeChannels` | `main.rs`, `dispatch.rs`, and every receive and send of the other tasks | state machine |
| `MCBridgeChannels` | instances | servers as what they make the scheduler emit |
| `BridgeChannelsProofs` | | proofs about `BridgeChannels` |
| `ResourceLinks` | `sep2_model.rs`: what is kept of resources, `resource_links`, `drop_untracked_resources`, the link events | pure functions over a model record |
| `Subscriptions` | the scheduler's updates, the table of polls (`sep2_connection.rs:251-300`), `polling.rs` | state machine; EXTENDS `ResourceLinks` |
| `MCSubscriptions` | instances | servers as trees of resources that change |
| `SubscriptionsProofs` | | proofs about `Subscriptions` and `ResourceLinks` |
| `ScaledValue` | `scaled_value.rs` | pure functions |
| `ScaledValueProofs` | | proofs about `ScaledValue` |

One task is detailed in one module, and the two that compose them look at what passes
between tasks: `BridgeChannels` at the channels and who waits for room in them,
`Subscriptions` at the loop of polls, results, links and requests.  They share the actions'
granularity, one per await, and no state: a composition of the detailed modules would be
beyond TLC, and its questions are these two.

### DERControls and Scheduler

The model is a record of programs with their primacy, the control list of each program,
the controls by mRID with their realised interval, the defaults, and the post rates.
`SetControls`, `StatusEvents` and `ReceiptEvents` are `set_der_control`, `DropUntracked`
the garbage collection that follows every merge, `Pending`, `Before`, `Layered` and
`CalcParameters` the listing, sorting and overlaying of controls, `Boundaries`,
`NextTime`, `ResponsesDue` and `NextEvents` the prediction of
`calc_next_schedule_time_for_controls`.  An update that changes which programs apply
(`WithPrograms`) says what post rate is left, since the collection may drop the lists that gave it.

The loop is one action per stretch between awaits, in the code's order: `Receive...`,
`TakeNextSchedule` or `TakeRefresh`; `BroadcastEvent` for each response; `PersistState`;
`CheckPostRates`; `ReadClock`; `AnnounceParameters`; `Predict`, which may `continue`; and
`ReplaceWaitTask`.  The wait task is `WaitTimeout`, `WaitBroadcast` and `WaitWake`.
`CrashAndRestart` may happen anywhere, and leaves the file only.  `acks` and `device` are
history: the responses sent, and what the device was last told, by any run of the process.

### Sep2Connection and Outbox

`pc` is where the loop is: `MaintainRetry` (the top), `Take...` (one per command, each
with the check that decides whether a pass starts, `Proceed`), then the pass:
`FetchDcap`, `EnsureDevice`, `ValidatePin`, one step per response, `EnsureDer`,
`SendReport` for the four reports in order.  Every request is its own step, and what the
server answers is open.  The retry task and the dcap poll are two actions each: deciding
to send, and sending once the channel has room.  Responses are numbered as they are taken
in; `posted` is what the server received, repeats included.  `Undone` is what a retry task is
for: a response in the queue, a DeviceCapability, EndDevice or DER that is not known, a report that
waits and was never sent.

`Outbox` says it in three actions: accept a response, dropping the oldest at the limit;
post the oldest, learning of it or not; discard the oldest.  `Sep2Connection` implements
it with `pending <- responses`.

### DeviceParameters and ModbusConnection

`Translate` makes parameters of a control base.  `PointWrites` is what `send_new_parameters`
writes to models 703 and 704, in order, given whether the device reports its rating;
`DerivationWrites` is `send_model704_pending_limit_derivations`, alone when it is a retry;
`CurveWrites` is one of the functions for models 705 to 711: it stages the curves of the model,
adopts the set and enables the model.  `PercentTowardZero` and `PercentNearest` do the
code's integer arithmetic.  `AskedLimit` and `AskedPower` say what the parameters ask for
without writes or division: the properties compare the registers with them.

The loop's steps are `Receive` or `Timeout`; `Connect` and its kind; `StartSend`,
`StartRetry` or `NothingToWrite`; one `Write` per register, `NextModel` where
`send_new_parameters` comes to the next curve model, `JobDone` or `JobFails`; `Poll` and its
kind.  The writes to a model depend on the parameters and the rating only, so `todo` lists them
when the job comes to it.  `regs` is the device: points, staged and active curves, enabled
models.  A write that fails is done, not done, or half done if it is a curve.
`DeviceRestart` breaks the connection, which the task only finds out by using it.

### BridgeChannels

A channel is a sequence of at most `Capacity` messages, or a count where all are alike; the
broadcast channels of the scheduler are one queue for each receiver, and a broadcast waits for
room in both.  A task is idle or holds what it received and has not sent: `heldResource`,
`heldCommand`, `heldParameters`, `heldReports`, and of the connection task `fetched`.  A task
receives only when it holds nothing, so a send that waits for room is its own action.
`TakeWake` and `TakeSubscription` fetch and broadcast (`get_then_poll`), `PollArrives` and
`PollBroadcasts` are a poll's callback, which has a task of its own.  The scheduler is
`TakeRefresh` or `TakeResource`, one `BroadcastEvent` per event, and takes no command in
between; its wait task broadcasts and sends, and is aborted by any command (`MayAbortWait`).

`main` sends `Wake` to the connection task and only then `RefreshActiveResources` to the scheduler,
while all others run already.  `TakeWake` fetches the DeviceCapability if there is none
(`FetchDcap`) and ends in a pass (`PassEnds`), which may fail and leave a retry task; that
task's `Wake` (`RetryWakes`) and the dcap poll's `ResetConnection` (`SendReset`, `TakeReset`) wait for
room in the same channel as the commands of the two dispatchers.

### ResourceLinks and Subscriptions

A resource is its kind, href, poll rate and items, an item its id, href and links.  `Set` is
the `set_` function of each kind, `Links` `resource_links` with its overrides of rates below a
DERProgramList, `Drop` `drop_untracked_resources`, and `Applied` and `UpdateEvents` are
`apply_update`: links before, set, links after, drop, difference.  `Subscriptions` lets the
server replace its tree, polls bring what they find in any order (`PollBrings`), the scheduler
take it though its poll may be gone (`TakeResult`), and the connection task obey the requests
(`TakeRequest`), fetching what it is to poll anew.  A crash leaves the model only.

### ScaledValue

`Rescale` is `rescale` with the arithmetic the code does: powers and products that saturate at
the bounds of a wide type, a division that truncates, a half step towards the value's sign, and
the narrowing.  The bounds of the narrow and of the wide type are constants.

## 3. The runs

| run | question | result |
|---|---|---|
| `scheduler` | safety of the scheduler, and `CatchesUp`: two overlapping controls (one with a randomised start), defaults, two programs, three updates, one crash, one failed write, three seconds; what does a crash leave? | passes, about 1,100,000 states |
| `scheduler_start` | is every running control reported started? | violated |
| `scheduler_race` | does replacing the wait task keep responses that are due? | violated |
| `scheduler_device` | does the device hold what applies, across a restart? | violated |
| `connection` | safety of the connection task, is a retry task there when and only when there is a reason, the refinement of `Outbox`, `ResponsesSettled` and `ChangesNoticed` | passes, about 1,100,000 states |
| `connection_pin` | does a PIN mismatch stop the pass each time? | violated |
| `modbus` | does what counts as sent agree with the device, is the export limit kept on the way, does the device get the last parameters? | passes, about 1,500,000 states |
| `modbus_curves` | is a curve that was withdrawn gone? | violated |
| `channels` | does any channel overflow, when may the tasks stand still, is everything sent handled and everything linked polled? | passes, about 520,000 states |
| `channels_burst` | does the scheduler emit all it knows at start? | violated |
| `subscriptions` | do the requests on their way turn the table of polls into what the model links, does one sweep drop everything unlinked, do exactly the served resources come to be polled at their rates? | passes, about 130,000 states |
| `subscriptions_moved` | is a list that has moved polled at its rate? | violated |

The Modbus runs also evaluate `RescaleIsNearest`, which compares `Rescale` with a reference
definition for every integer of four bits and every two of four scales, in an arithmetic of
eight bits: small enough that products and powers saturate as those of i64 do.

### The seven disagreements

* `scheduler_start`: a control received as `Scheduled` whose randomised start is not in the
  future is put in force, but neither `already_started` (status `Active` only,
  `sep2_model.rs:437`) nor the prediction (starts strictly ahead) reports its start.
* `scheduler_race`: the wait task's time has come, a command arrives first, the loop aborts
  the wait task, and the new prediction looks only at later times: the response is lost.
* `scheduler_device`: a new process compares with `ControlAttributes::default()`, so if a
  control ended while it was down nothing tells the device.
* `connection_pin`: the Registration is stored by `insert` before its PIN is compared
  (`sep2_connection.rs:451`), so the pass after a mismatch skips the comparison.
* `modbus_curves`: only the curves that are given are staged, and the set is then adopted as a
  whole (`modbus_connection.rs:1690`), so a May Trip curve of earlier parameters is in force
  again with the next Must Trip curve.
* `channels_burst`: the scheduler takes no command before it has broadcast all its events; its
  subscription dispatcher waits for room in the connection task's channel; the connection task
  waits for room for what it fetched, which the scheduler would have to make.  A persisted
  model with more links than the channels between hold stands still for ever, at start.
* `subscriptions_moved`: when the MirrorUsagePointList moves, the link at its new href is given
  the rate of the list at the old one (`sep2_model.rs:638`), which the same update drops; the
  list at the new href then arrives, the links before and after are equal, no request is sent.

### Bounds, and why they are enough

*Scheduler.*  Two controls are what layering and interleaved boundaries need: one newer
than the other, one with a start to draw, overlapping, ending together.  Two programs give
the order by primacy, and defaults an attribute that no control sets.  Three updates allow
a control to be listed, changed and delisted; three seconds pass the nominal boundaries, and a
start may be drawn at once, before or after any of them.  One crash suffices for what a restart
forgets, since a restarted process keeps nothing but the file, and one failed write for a file
that is behind.  `QueueCapacity` 1 makes the wait task wait for room.
A list of the first control alone as `Scheduled` is left to `scheduler_start`.

*Connection.*  `MaxQueue` 3 with three responses reaches the limit and drops.  Two failures
allow a retry that fails again, which a retry task that wakes the loop once would not
survive.  Three DeviceCapabilities: two that may replace one another and one without an
EndDeviceList link.  A channel of one makes the poll and the retry task wait for room, and a
dispatcher that waits is a command that has not arrived.
Commands that only differ in the data they carry share a bound (`MaxOthers`): subscriptions,
post rates and reports.  The larger report sets differ only in repeating `SendReport`.

*Modbus.*  Three sets of parameters allow A, B that fails half way, and A again, which is what
`last_sent_parameters` could get wrong.  One failure may hit any request of any job, one
restart of the device any point of the loop.  Four control bases: all limits at once; a target
in watts with a limit beyond the rating and a curve that is too long; an export limit with a
setpoint in percent and a curve that was not fetched; nothing.  The rating of 30 W makes the
percentages round.  One model with one curve and one with two suffice for adoption; the other
models repeat them.  `modbus_curves` needs no failure and no restart.

*Channels.*  With channels of two places, six results and wake-ups could close the circle; the
instance has five at most (three resources fetched or polled, a polled result or a wait that ends, the
DeviceCapability fetched again), so it goes up to the bound that `StandstillNeedsBurst`
states and `Settles` may be asked at all.  `Limits` is a set of bounds, for one behaviour or
another: a polled result, which may be that of a changed DeviceCapability, with a failed pass;
a wait that ends; three reports, more than the device's channel has room for; a report and a failed
pass.  `channels_burst` goes beyond it: channels of four places and 25 links
stand for the ten of `main.rs` and about fifty, a dozen programs with their curves,
controls and defaults.  No resource is removed: a removal is a request like another.

*Subscriptions.*  The tree of the passing instance has every kind that is below an EndDevice
but for curves, which are like controls; its change moves a list with all that is below it,
replaces one link by another under an href that stays, adds a rate, and takes one away.  One
failed GET may hit any fetch, one crash any step.  Rates of the moved MirrorUsagePointList are
the subject of `subscriptions_moved`, so the passing instance has none.  The kind of every href
and the href of the EndDeviceList are fixed (section 5).

### Fairness, and why the code justifies it

Weak fairness of the loops and tasks says that the tokio runtime polls every task that is
ready and that an awaited request ends.  Timers fire.  Strong fairness is assumed of the
sends into a bounded channel, because tokio's `mpsc` hands out room in the order it was
asked for.  The clock of the scheduler is fair up to its bound.  No fairness is assumed
of the server's answers, of arriving commands or of crashes.
The Modbus task is one loop, weakly fair: each of its requests is under `COMM_TIMEOUT`.  No
fairness is assumed of the device, and `Converges` holds where it comes to know its rating.
That a request of the connection task ends is an assumption about the client library: only the posts of responses
and the dcap poll set a timeout of their own.
In `BridgeChannels` every task is fair by itself: strongly those that send to the connection task
(`main`, the dcap poll, two dispatchers), since they wait for room in the same channel,
weakly all others.  In `Subscriptions` the tasks are weakly fair, and so is every poll that exists: the
library polls again and again, and the server answers but for the failures that are counted.  The
fairness of taking a result or the refresh is stated by what it takes, the result or the flag.

## 4. What is proved

### Scheduler (`SchedulerProofs`)

From `SchedulerAssumption` (lists without repeated mRIDs, programs of distinct primacy,
natural randomisation bounds) and finitely many mRIDs:

* `TypeCorrect`: `Spec => []TypeOK`.  The model stays well formed through every merge and
  collection, hence the lemmas on `WithControlList`, `WithPrograms` and the rest.
* `Scheduling`: `Spec => []SchedulingInv`, the inductive invariant.  Neither
  `ParametersCurrent` nor `WakeUpPending` is inductive: both follow from what the loop last
  calculated (`CalculatedInv`), that the wait task's time is the time last predicted
  (`PredictedInv`), and that a wait task that is done early enough to matter has left a
  `NextSchedule` behind (`WaitInv`).
* `ParametersStayCurrent`: between two consecutive boundaries the set of active controls is
  the same (`ActiveBetweenBoundaries`), hence so are the parameters; the wait task's time is
  the earliest boundary (`NextTimeIsEarliest`).
* `WakeUpStaysPending`: from the same invariant (`WaitsForEarliest`).

### Connection (`Sep2ConnectionProofs`)

From `ConnectionAssumption` (a queue limit of at least two, a channel with room for one):

* `OutboxInOrder`: the abstract outbox posts in order.  Its invariant: the queue is strictly
  increasing, and everything posted is at most everything still queued.
* `Implements`: `Spec => ImplementsOutbox`; four actions map to steps of the outbox, all
  others to stutters (`StepsToOutbox`).
* `InOrder`: order follows from the two, not from the detailed invariant.
* `TypeCorrect`: with `LoopTypeOK`, `FlagTypeOK` and `QueueTypeOK` each preserved by itself.
* `StaysWatched`, `KnownTopDown`, `StaysRetried`: from `PassInv`, how far a pass got says
  what is known, `ReportInv`, the reports before the one it is at are done with, and `RetryInv`, the
  flag was set before the pass and is cleared only at an end where nothing is left undone.
  `UndoneIsRetried` alone says nothing of a pass that is under way, so it is not inductive.  The
  first command of all is the `Wake` that `main` sends; until it is taken, nothing is done and no
  retry is there.
* `RetriesForAReason`: `Spec => []RetryHasReason`, a retry task that sleeps has something to retry.
  `ReasonInv`: the flag is set before the pass without one, and is left set only where the pass
  ends at something it could not do.

### Modbus connection (`ModbusConnectionProofs`)

From `ParametersAssumption`, `ConnectionAssumption` and `BaseAssumption`: a positive rating,
`None` and the content of registers nobody wrote are no content of parameters, a model has three
curves at most, and the control bases have values of the types the code gives them, with setpoints
a percentage of the rating can say in an i16.  Rating, models, curves, bases and the bounds
on failures and restarts are arbitrary.

* `TypesCorrect`: `Spec => []TypeOK`.
* `SentParametersApplied`: `Spec => []SentIsApplied`.  The property speaks of a moment at which
  nothing is left to do, so it is not inductive.  The invariant `IInv` says of every moment of a
  job (`JobInv`) that each value its parameters ask for is in its register or still to be written,
  as far as the job has come, and that nothing is staged after a set was adopted; and of the time
  between jobs (`SentInv`) that all of it is there, but for what is pending.  A write preserves
  this because a register is written one value by a job (`Functional`), and a retry because
  what it writes is what sending could not (`RetryWrites`, `RetryCompletes`).  In the end
  `HeldLimit` and `HeldSetpoint` compare what is written with `AskedLimit` and `AskedPower`.
* `LimitNotLoosened`: `Spec => ProtectionKept`.  Every step of the task leaves the registers or
  does one of the job's writes, wholly or in part (`TaskWrites`); of these, one that enables
  cannot loosen, one that disables comes only without a limit, and a percentage is only written
  once it can be told (`LimitWritten`).

### Percentages (`ModbusConnectionProofs`, first part)

From `ParametersAssumption` (a positive rating): `ExportLimitNotExceeded`, the percentage
derived from an export limit in watts never allows more than the limit, nor is it the value for
`not implemented`; `WritesAskedLimit`, the percentage written is `AskedLimit`, for every rating
and every pair of limits; `ImportLimitNotExceeded`, the percentage written for an import limit
is within one of it and not beyond.  They rest on `PercentOfLimit` and `PercentOfSetpoint`,
which bracket the integer division.

### Channels (`BridgeChannelsProofs`)

From `ChannelsAssumption` (a capacity of at least one): `ChannelsAreBounded`, and
`NoStandstillBeforeBurst`, for every capacity c, every server and every number of results: the
circle of waiting tasks closes only after 2c + 2 results and wake-ups.  The argument is one of
conservation.  A result or a wake-up is in one place at a time, so what is in the two channels
and the dispatcher on the way up, together with what the connection task holds, is never more
than there have been.  `main`'s refresh is the only other thing ever there.  It is sent after `Wake`, so
results may be ahead of it (`RefreshIn`, `RefreshToCome`: it is in the channel, or still to be sent, and
is so once, `OneRefresh`); while the scheduler broadcasts, a refresh that is there takes the place
of what the scheduler has taken.  In a standstill these places are full.

### What is persisted (`SchedulerProofs`, second part)

From `PersistInv`: until a write fails, the file is behind only while an update's events are
still being emitted, and even then differs from the model in no realised interval.  Hence
`RealisedOnlyOnce` (`RealisedOnce`: an interval is drawn once, as long as the control is known)
and `RestartRemembersModel` (`RestartRemembers`), for every server, draw and number of crashes.
`InForceIsKept` (`RestartKeepsInForce`) says what the loss of an update may not touch: by `InForceInv`
the loop calculates only after it has persisted, so the last parameters and the wait task
follow from the file, and a crash before the next persist loses the update and nothing in force.
None says anything of a restart after a failed write, and must not: the file may then hold an earlier
realisation of a control that was dropped and listed again meanwhile.

### Scaled values (`ScaledValueProofs`)

From `ScaledValueAssumption` (the wide type holds twice any value of the narrow one):
`CoarserIsNearest`, the nearest value, half steps away from zero, never bounded;
`FinerIsExact` and `PowerMaySaturate`, the saturation of products and powers in i64 is never
seen; `RescaleKeepsOrder`; `FinerAndBack`.  They are about every factor, of which the powers of
ten and the largest i64 are some.  The bounds of u16 and i16 are also SunSpec's mark for `not
implemented`: a value bounded at them is written as that mark, which is what the code does.

### Responses (`SchedulerResponseProofs`)

From the assumptions of the scheduler, for every server, draw and number of updates and crashes:

* `ResponsesNeverStale`: `Spec => []NoStaleResponses`.  `PredictionInv`: the wait task holds what
  is left of the last prediction, and that is the prediction of the model as it stands whenever
  the loop has settled; the early `continue` keeps the wait task because the two are equal.
* `ResponsesNeverEarly`: `Spec => NeverEarly`.  `EarlyInv`: what the wait task holds is of
  realised boundaries at its time, for the controls still known, and its time has come
  before it broadcasts; what an update reports as started has started.  An update between the
  prediction and the broadcast changes no realised interval, or forgets the control, and this
  is where both depend on the interval being drawn once.
* `ReceivedBeforeStarted`: `RequirementsStay(ControlLists)` implies `Spec => []ReceivedFirst`.
  `ReceiptInv` follows an acknowledgement through the three ways a start is reported: a known
  control was acknowledged or is about to be; one in the file was, so no restart finds another;
  and no start is held or queued but behind it.  `RequirementsStay` says that a server never
  changes which responses it asks of a control.  It is needed: a control first listed
  without `MessageReceived` and then with it is known, so it is not acknowledged, and its start
  is reported all the same.  The instance satisfies it (`MCListsAssumption`).

`NextEvents` is a sorted sequence of the responses that are due.  That there is one, and that it
has what is due and nothing else, rests on `Before` being a strict order
(`BeforeIsOrder`) and on finite sets being sorted by such orders (`Sorted`).  `FlattenSeq`, by which
the events of a list are put together, is a recursive function: `FlattenClosed` says that a set of
sequences closed under concatenation contains what it makes of members.  Both are proved by
induction over a set of numbers, which is a value, from the well-founded order of the natural
numbers (`SetInduction`); an induction theorem with an operator for a parameter is not needed.

### Subscriptions (`SubscriptionsProofs`)

For every sequence of trees a server may serve, of any depth of lists and any number of
resources, any number of failures and crashes, and results in any order.  Two conditions on
the server are hypotheses.  `KindsStay`: an href keeps its kind, since the table of polls is keyed
by href alone (`sep2_connection.rs:259`).  `MirrorsStay`: there is one MirrorUsagePointList, and it
stays where it is; `subscriptions_moved` shows what happens otherwise.

* `TypeCorrect` (`KindsStay`): `Spec => []TypeOK`: every resource in the model, on its way, requested
  or polled is well formed and of the kind the server has at its href.
* `TableFollows`: `Spec => []TableFollowsModel`.  The scheduler sends only differences and is never told
  what is polled.  `TablesInv`: the model is what `drop_untracked_resources` leaves of it; and each
  href's poll is what the links ask for, or the last request for it on the way makes it so.  A
  difference says nothing of a link that stays, so the step needs that the links after the drop
  are those before it.
* `OnePassDrops`: `Spec => []DropsInOnePass`.  That is the same fact: what is dropped was not linked, so the
  traversal did not come by it, and finds the same without it (`Traversal`, proved kind by
  kind down the tree).  Only the link of a MirrorUsagePointList takes its rate from a list that
the link itself does not lead to, hence `MirrorsStay`.

### Only model-checked

* Liveness (`CatchesUp`, `ResponsesSettled`, `ChangesNoticed`, the two `Converges`, `Settles`):
  fairness and ENABLED are beyond the prover.
* `RescaleIsNearest` is evaluated for small arithmetic; the theorems of `ScaledValueProofs` are its
  parts for every width.

Every invariant and every other action property of a passing run is a theorem.

## 5. What the models leave out

* The wall clock does not step back; programs have distinct primacies; an mRID is in one list.
* What a restart owes after a failed write.  No text says it; the three properties of what is persisted
  exclude it, the others include it.
* `acks` is a set: a control that was dropped and is listed again is acknowledged again and its
  interval drawn again, as in the code, but a second receipt is not told from the first.  That what
  was held of the earlier realisation is not sent in its place is `NoStaleResponses` and
  `NeverEarly`; the instance has too few updates for it (four), the theorems
  `ResponsesNeverStale` and `ResponsesNeverEarly` have not.
* A poll has one result on its way at a time; callbacks of the library could pile up behind a
  full channel.
* In `DERControls` hrefs are identified with what they link to, and the chain from
  DeviceCapability to DERProgram with the set of programs that can be reached; the chain itself
  is in `ResourceLinks`.  The curves a control refers to are left out.
* Inside `send_meter_readings` the creation of the MirrorUsagePoint and the cache of mRIDs: one
  report that is sent or not.
* In `Subscriptions` writes of the model succeed, every href keeps its kind, and there is one
  EndDeviceList href.  A late result of an unsubscribed list is dropped at once with the list,
  but its items overwrite those of the same id, and a late EndDeviceList would take the one
  place there is for it: both heal with the next poll of what is linked.  The rates at which
  this bridge posts are in `Scheduler` and `Sep2Connection`.
* Resources without an href, which the code ignores.
* What a report says: only whether one waits and when the last one was sent.
* Of Modbus: what polls report and the broadcasts of it; the values of model 703 other than
  `es` and the two power factors, written when present as those that are modelled; the scale
  factors of registers (limits are in whole percent of the rating); parameters that do not
  translate, which the dispatcher drops; a device that refuses to adopt a curve; a rating that
  changes without a restart.
* The rest of `translation.rs`, `metrics.rs`, argument parsing: data conversion and I/O without state.

## 6. What could follow

The plan this project began with is done: `DERControls` and `Scheduler`, `Sep2Connection` with
`Outbox`, `DeviceParameters` and `ModbusConnection`, `BridgeChannels`, `Subscriptions`,
`ScaledValue`, and the proofs of each that the prover can reach.  In order of worth, next:

1. A clock that steps back, and programs of equal primacy, as instances of `Scheduler` that
   drop the assumptions; first what the bridge owes them would have to be settled.
2. The creation of MirrorUsagePoints and its cache of mRIDs, inside `send_meter_readings`.
3. What the Modbus task's polls report.
