----------------------------- MODULE Scheduler -----------------------------
(***************************************************************************)
(* The scheduler task (scheduler.rs): a loop that takes one command at a   *)
(* time, merges it into the model, emits events on a broadcast channel,    *)
(* persists the model, announces the parameters that apply now, and keeps  *)
(* one wait task (scheduler_action_task) asleep until the answer changes.  *)
(* The wait task runs concurrently with the loop: every broadcast and send *)
(* is an await, and each is a step here.                                   *)
(*                                                                         *)
(* The clock is the wall clock in whole seconds, and it does not step back.*)
(* The process may crash and is then restarted; only the file survives.    *)
(***************************************************************************)
EXTENDS DERControls

CONSTANTS
  ProgramLists,   \* what the server may say of the device's programs
  ControlLists,   \* the DERControlLists it may serve: [program, items]
  Defaults,       \* the DefaultDERControls it may serve: [program, base]
  NoFile,         \* nothing persisted yet
  QueueCapacity,  \* the bound of the input channel
  MaxTime,        \* bound on the clock
  MaxUpdates,     \* bound on the resource updates received
  MaxCrashes,     \* bound on the crashes
  MaxFailures     \* bound on the failed attempts to persist

VARIABLES
  now,      \* the wall clock
  model,    \* the Sep2Model
  disk,     \* the persisted model
  pc,       \* where the loop is
  out,      \* events of the current command still to be broadcast
  dirty,    \* the current command is an update, to be persisted
  calcNow,  \* the `now` read for the last calculation
  priorParameters, priorRates,  \* what was last announced
  priorTime, priorEvents,       \* what was last predicted, for the wait task
  wait,     \* the wait task: its state, its time and the events it still holds
  wakes,    \* NextSchedule commands in the input channel
  refresh,  \* a RefreshActiveResources is in the input channel
  device,   \* the last parameters announced, by any run of the process
  acks,     \* the responses emitted for each control, by any run
  used      \* how much of each bound is used up

priors == <<priorParameters, priorRates, priorTime, priorEvents>>

vars == <<now, model, disk, pc, out, dirty, calcNow, priors, wait, wakes,
          refresh, device, acks, used>>

ASSUME SchedulerAssumption ==
  /\ MaxTime \in Nat
  /\ QueueCapacity \in Nat \ {0}
  /\ NoFile \notin Sep2Model
  /\ \A l \in ControlLists :
       /\ l.program \in Program
       /\ l.items \in Seq(DERControl)
       /\ \A i, j \in DOMAIN l.items : l.items[i].mrid = l.items[j].mrid => i = j
  /\ \A d \in Defaults : d.program \in Program /\ d.base \in Base
  /\ \A f \in ProgramLists :
       /\ IsPartialFunction(f, Program, Int)
       /\ \A p, q \in DOMAIN f : f[p] = f[q] => p = q

(* A server that never changes which responses it asks of a control. *)
RequirementsStay(lists) ==
  \A l, k \in lists : \A i \in DOMAIN l.items, j \in DOMAIN k.items :
    l.items[i].mrid = k.items[j].mrid => l.items[i].required = k.items[j].required

-----------------------------------------------------------------------------

NoWait == [state |-> "done", time |-> NoTime, events |-> <<>>]

Init ==
  /\ now = 0
  /\ model = EmptyModel
  /\ disk = NoFile
  /\ pc = "recv"
  /\ out = <<>>
  /\ dirty = FALSE
  /\ calcNow = NoTime
  /\ priorParameters = NoParameters /\ priorRates = NoRate
  /\ priorTime = NoTime /\ priorEvents = <<>>
  /\ wait = NoWait
  /\ wakes = 0
  /\ refresh = TRUE
  /\ device = NoParameters
  /\ acks = [c \in MRID |-> {}]
  /\ used = [updates |-> 0, crashes |-> 0, failures |-> 0]

Acknowledge(e) == acks' = [acks EXCEPT ![e.subject] = @ \cup {e.status}]

-----------------------------------------------------------------------------
(* The loop. *)

(* Command::ResourceUpdated: apply_update, up to the first broadcast. *)
Receive(newModel, events) ==
  /\ pc = "recv"
  /\ used.updates < MaxUpdates
  /\ used' = [used EXCEPT !.updates = @ + 1]
  /\ model' = newModel
  /\ out' = events
  /\ dirty' = TRUE
  /\ pc' = "emit"
  /\ UNCHANGED <<now, disk, calcNow, priors, wait, wakes, refresh, device, acks>>

ReceiveControlList ==
  \E l \in ControlLists :
    \E shift \in Draws(l.items) :
      Receive(WithControlList(model, l.program, l.items, shift),
              ControlListEvents(model, l.items, shift, now))

ReceivePrograms ==
  \E f \in ProgramLists, rate \in {model.rate, NoRate} :
    Receive(WithPrograms(model, f, rate), <<>>)

ReceiveDefault == \E d \in Defaults : Receive(WithDefault(model, d.program, d.base), <<>>)

ReceiveRate == \E r \in Rate \cup {NoRate} : Receive(WithRate(model, r), <<>>)

(* Command::NextSchedule. *)
TakeNextSchedule ==
  /\ pc = "recv"
  /\ wakes > 0
  /\ wakes' = wakes - 1
  /\ pc' = "rates"
  /\ UNCHANGED <<now, model, disk, out, dirty, calcNow, priors, wait, refresh, device, acks, used>>

(* Command::RefreshActiveResources; the events it emits concern links only. *)
TakeRefresh ==
  /\ pc = "recv"
  /\ refresh
  /\ refresh' = FALSE
  /\ pc' = "rates"
  /\ UNCHANGED <<now, model, disk, out, dirty, calcNow, priors, wait, wakes, device, acks, used>>

BroadcastEvent ==
  /\ pc = "emit"
  /\ out # <<>>
  /\ Acknowledge(Head(out))
  /\ out' = Tail(out)
  /\ UNCHANGED <<now, model, disk, pc, dirty, calcNow, priors, wait, wakes, refresh, device, used>>

(* A file that is written for the sake of its controls only. *)
Mutant_PersistState_controls_only ==
  /\ pc = "emit"
  /\ out = <<>>
  /\ dirty
  /\ disk' = IF disk # NoFile /\ model.controls = disk.controls THEN disk ELSE model
  /\ dirty' = FALSE
  /\ pc' = "rates"
  /\ UNCHANGED <<now, model, out, calcNow, priors, wait, wakes, refresh, device, acks, used>>

(* persist_state replaces the file atomically; a failure is only logged. *)
PersistState ==
  /\ pc = "emit"
  /\ out = <<>>
  /\ dirty
  /\ \/ disk' = model /\ UNCHANGED used
     \/ /\ used.failures < MaxFailures
        /\ used' = [used EXCEPT !.failures = @ + 1]
        /\ UNCHANGED disk
  /\ dirty' = FALSE
  /\ pc' = "rates"
  /\ UNCHANGED <<now, model, out, calcNow, priors, wait, wakes, refresh, device, acks>>

(* The post rates, announced when they changed. *)
CheckPostRates ==
  /\ pc = "rates"
  /\ priorRates' = model.rate
  /\ pc' = "calc"
  /\ UNCHANGED <<priorParameters, priorTime, priorEvents, now, model, disk, out, dirty,
                 calcNow, wait, wakes, refresh, device, acks, used>>

(* `now` is read once, for the parameters and for the prediction. *)
ReadClock ==
  /\ pc = "calc"
  /\ calcNow' = now
  /\ pc' = "announce"
  /\ UNCHANGED <<now, model, disk, out, dirty, priors, wait, wakes, refresh, device, acks, used>>

(* ParametersChanged, when they differ from the last announced. *)
AnnounceParameters ==
  /\ pc = "announce"
  /\ LET current == CalcParameters(model, calcNow)
     IN  /\ priorParameters' = current
         /\ device' = IF current # priorParameters THEN current ELSE device
  /\ pc' = "predict"
  /\ UNCHANGED <<priorRates, priorTime, priorEvents, now, model, disk, out, dirty,
                 calcNow, wait, wakes, refresh, acks, used>>

Mutant_Predict_time_only ==
  /\ pc = "predict"
  /\ pc' = IF NextTime(model, calcNow) = priorTime THEN "recv" ELSE "replace"
  /\ UNCHANGED <<now, model, disk, out, dirty, calcNow, priors, wait, wakes, refresh,
                 device, acks, used>>

(* Nothing new is predicted: the wait task that is there stays. *)
Predict ==
  /\ pc = "predict"
  /\ pc' = IF /\ NextTime(model, calcNow) = priorTime
              /\ NextEvents(model, calcNow) = priorEvents
           THEN "recv" ELSE "replace"
  /\ UNCHANGED <<now, model, disk, out, dirty, calcNow, priors, wait, wakes, refresh,
                 device, acks, used>>

(* The old wait task is aborted and joined, wherever it stands, and a new *)
(* one is spawned.  With no next time the new one returns at once.        *)
ReplaceWaitTask ==
  LET time   == NextTime(model, calcNow)
      events == NextEvents(model, calcNow)
  IN  /\ pc = "replace"
      /\ wait' = [state |-> IF time = NoTime THEN "done" ELSE "sleep",
                  time |-> time, events |-> events]
      /\ priorTime' = time /\ priorEvents' = events
      /\ pc' = "recv"
      /\ UNCHANGED <<priorParameters, priorRates, now, model, disk, out, dirty, calcNow,
                     wakes, refresh, device, acks, used>>

-----------------------------------------------------------------------------
(* The wait task. *)

Mutant_WaitTimeout_early ==
  /\ wait.state = "sleep"
  /\ now >= wait.time - 1
  /\ wait' = [state |-> "send", time |-> wait.time, events |-> wait.events]
  /\ UNCHANGED <<now, model, disk, pc, out, dirty, calcNow, priors,
                 wakes, refresh, device, acks, used>>

WaitTimeout ==
  /\ wait.state = "sleep"
  /\ now >= wait.time
  /\ wait' = [state |-> "send", time |-> wait.time, events |-> wait.events]
  /\ UNCHANGED <<now, model, disk, pc, out, dirty, calcNow, priors,
                 wakes, refresh, device, acks, used>>

WaitBroadcast ==
  /\ wait.state = "send"
  /\ wait.events # <<>>
  /\ Acknowledge(Head(wait.events))
  /\ wait' = [state |-> "send", time |-> wait.time, events |-> Tail(wait.events)]
  /\ UNCHANGED <<now, model, disk, pc, out, dirty, calcNow, priors, wakes, refresh, device, used>>

Mutant_WaitWake_forgotten ==
  /\ wait.state = "send"
  /\ wait.events = <<>>
  /\ wait' = [state |-> "done", time |-> wait.time, events |-> <<>>]
  /\ UNCHANGED <<now, model, disk, pc, out, dirty, calcNow, priors,
                 wakes, refresh, device, acks, used>>

Mutant_WaitWake_unbounded ==
  /\ wait.state = "send"
  /\ wait.events = <<>>
  /\ wakes' = wakes + 1
  /\ wait' = [state |-> "done", time |-> wait.time, events |-> <<>>]
  /\ UNCHANGED <<now, model, disk, pc, out, dirty, calcNow, priors, refresh, device, acks, used>>

(* The send waits for room in the input channel. *)
WaitWake ==
  /\ wait.state = "send"
  /\ wait.events = <<>>
  /\ wakes < QueueCapacity
  /\ wakes' = wakes + 1
  /\ wait' = [state |-> "done", time |-> wait.time, events |-> <<>>]
  /\ UNCHANGED <<now, model, disk, pc, out, dirty, calcNow, priors, refresh, device, acks, used>>

-----------------------------------------------------------------------------
(* The environment. *)

Tick ==
  /\ now < MaxTime
  /\ now' = now + 1
  /\ UNCHANGED <<model, disk, pc, out, dirty, calcNow, priors, wait, wakes, refresh, device, acks, used>>

Mutant_Crash_forgets ==
  /\ used.crashes < MaxCrashes
  /\ used' = [used EXCEPT !.crashes = @ + 1]
  /\ model' = EmptyModel
  /\ pc' = "recv" /\ out' = <<>> /\ dirty' = FALSE /\ calcNow' = NoTime
  /\ priorParameters' = NoParameters /\ priorRates' = NoRate
  /\ priorTime' = NoTime /\ priorEvents' = <<>>
  /\ wait' = NoWait /\ wakes' = 0 /\ refresh' = TRUE
  /\ UNCHANGED <<now, disk, device, acks>>

(* The process dies and starts again: load_persisted_state, fresh locals, *)
(* empty channels, and the RefreshActiveResources main sends.             *)
CrashAndRestart ==
  /\ used.crashes < MaxCrashes
  /\ used' = [used EXCEPT !.crashes = @ + 1]
  /\ model' = IF disk = NoFile THEN EmptyModel ELSE disk
  /\ pc' = "recv"
  /\ out' = <<>>
  /\ dirty' = FALSE
  /\ calcNow' = NoTime
  /\ priorParameters' = NoParameters /\ priorRates' = NoRate
  /\ priorTime' = NoTime /\ priorEvents' = <<>>
  /\ wait' = NoWait
  /\ wakes' = 0
  /\ refresh' = TRUE
  /\ UNCHANGED <<now, disk, device, acks>>

(* The loop waits for a command, and the wait task is done or asleep: the *)
(* only place where the task may rest.                                    *)
Idle ==
  /\ pc = "recv" /\ wakes = 0 /\ ~refresh
  /\ wait.state = "done" \/ (wait.state = "sleep" /\ now < wait.time)
  /\ UNCHANGED vars

Loop ==
  \/ TakeNextSchedule \/ TakeRefresh
  \/ BroadcastEvent \/ PersistState \/ CheckPostRates \/ ReadClock
  \/ AnnounceParameters \/ Predict \/ ReplaceWaitTask

WaitTask == WaitTimeout \/ WaitBroadcast \/ WaitWake

Environment ==
  \/ ReceiveControlList \/ ReceivePrograms \/ ReceiveDefault \/ ReceiveRate
  \/ Tick \/ CrashAndRestart

Next == Loop \/ WaitTask \/ Environment \/ Idle

(* The runtime polls every task that is ready, and time passes. *)
Fairness == WF_vars(Loop) /\ WF_vars(WaitTask) /\ WF_vars(Tick)

Spec == Init /\ [][Next]_vars

FairSpec == Spec /\ Fairness

-----------------------------------------------------------------------------
(* Properties. *)

WaitStates == {"sleep", "send", "done"}

LoopTypeOK ==
  /\ now \in 0 .. MaxTime
  /\ pc \in {"recv", "emit", "rates", "calc", "announce", "predict", "replace"}
  /\ calcNow \in Nat \cup {NoTime}
  /\ pc \in {"announce", "predict", "replace"} => calcNow # NoTime
  /\ used \in [updates : Nat, crashes : Nat, failures : Nat]

FlagTypeOK == refresh \in BOOLEAN /\ dirty \in BOOLEAN

WaitTypeOK ==
  /\ wait.state \in WaitStates
  /\ wait.time \in Int \cup {NoTime}
  /\ wakes \in 0 .. QueueCapacity

ModelTypeOK == IsSep2Model(model) /\ (disk = NoFile \/ IsSep2Model(disk))

(* Every variable the timing rests on has its shape, the model and the file  *)
(* hold a model, and the input channel keeps to its bound.                   *)
TypeOK == LoopTypeOK /\ FlagTypeOK /\ WaitTypeOK /\ ModelTypeOK

(* The loop has taken stock since it started and waits for a command. *)
Settled == pc = "recv" /\ calcNow # NoTime

(* No scheduled time has passed unnoticed. *)
BeforeNextTime == wait.time = NoTime \/ now < wait.time

(* Between two wake-ups the clock moves but nothing is recalculated: what    *)
(* was last announced is what applies at every moment until the wait task's  *)
(* time (scheduler.rs, the loop from `now` to the wait task).                *)
ParametersCurrent ==
  Settled /\ BeforeNextTime =>
    /\ priorParameters = CalcParameters(model, now)
    /\ priorParameters # NoParameters => device = priorParameters

(* Whenever a control is still to start or end, the loop will be woken for   *)
(* it: the wait task is set for no later than that, or its NextSchedule is   *)
(* in the channel (the early `continue` of the loop keeps the old task).     *)
WakeUpPending ==
  Settled => \A b \in Boundaries(model, calcNow) :
    \/ wait.state \in {"sleep", "send"} /\ wait.time <= b
    \/ wakes > 0

(* What the two rest on: the loop's account of the model and of the wait     *)
(* task, and the wait task's account of the clock.                           *)
CalculatedInv ==
  /\ calcNow # NoTime => calcNow <= now
  /\ pc \in {"predict", "replace", "recv"} /\ calcNow # NoTime
       => priorParameters = CalcParameters(model, calcNow)
  /\ priorParameters # NoParameters => device = priorParameters

PredictedInv ==
  /\ priorTime = wait.time
  /\ Settled => priorTime = NextTime(model, calcNow)

WaitInv ==
  /\ wait.state \in {"send", "done"} /\ wait.time # NoTime => wait.time <= now
  /\ /\ pc \in {"announce", "predict", "replace", "recv"} /\ calcNow # NoTime
     /\ wait.state = "done" /\ wait.time # NoTime /\ calcNow < wait.time
     => wakes > 0

SchedulingInv == TypeOK /\ CalculatedInv /\ PredictedInv /\ WaitInv

(* What the wait task holds is due by the model as it stands: a control that *)
(* was cancelled, changed or dropped leaves nothing behind in it.            *)
NoStaleResponses ==
  Settled => \A i \in DOMAIN wait.events :
    wait.events[i] \in ResponsesDue(model, calcNow, wait.time)

(* The loop and the wait task both report starts: neither does so before the *)
(* realised start, nor an end before the realised end.                       *)
NeverEarly ==
  [][\A c \in DOMAIN model.controls :
       /\ "EventStarted" \in acks'[c] \ acks[c] => model.controls[c].start <= now
       /\ "EventCompleted" \in acks'[c] \ acks[c] => model.controls[c].end <= now]_vars

(* The server hears that a control was received before it hears that it      *)
(* started, whichever task says so and across restarts.                      *)
ReceivedFirst ==
  \A c \in DOMAIN model.controls :
    /\ "EventStarted" \in acks[c]
    /\ "MessageReceived" \in model.controls[c].der_control.required
    => "EventReceived" \in acks[c]

(* Two models that realised the controls they share alike. *)
SameIntervals(m, n) ==
  \A c \in DOMAIN m.controls \cap DOMAIN n.controls :
    m.controls[c].start = n.controls[c].start /\ m.controls[c].end = n.controls[c].end

(* The randomised interval is realised once: no later update changes it      *)
(* while the control is known, nor does a restart unless a write failed: a   *)
(* file that is behind may hold an earlier realisation of a control that was *)
(* dropped and listed again (README, persistence).                           *)
RealisedOnce ==
  [][used'.crashes = used.crashes \/ used.failures = 0 => SameIntervals(model, model')]_vars

(* Unless a write failed, a crash loses only the update whose events were    *)
(* still being emitted (persist_state runs after the broadcasts).            *)
RestartRemembers ==
  [][used'.crashes # used.crashes /\ ~dirty /\ used.failures = 0 => model' = model]_vars

(* Unless a write failed, whatever is in force rests on the file: a crash    *)
(* while the loop waits, or between the merge of an update and its persist,  *)
(* loses no more than that update, and leaves the model by which the last    *)
(* parameters were announced and the wait task was set.                      *)
RestartKeepsInForce ==
  [][/\ used'.crashes # used.crashes /\ used.failures = 0
     /\ pc \in {"recv", "emit"} /\ calcNow # NoTime
     => /\ priorParameters = CalcParameters(model', calcNow)
        /\ wait.time = NextTime(model', calcNow)]_vars

(* As long as the process stays up, the loop keeps catching up with the      *)
(* clock: it settles on the parameters that apply, again and again.          *)
CatchesUp == []<>(Settled /\ priorParameters = CalcParameters(model, now))

(* README.md: the bridge sends "responses acknowledging each control as it   *)
(* starts".  Once the loop has settled, a control that is running and asks   *)
(* for it has been reported started.                                         *)
StartAcknowledged ==
  Settled /\ BeforeNextTime =>
    \A c \in Active(model, now) :
      "SpecificResponse" \in model.controls[c].der_control.required
        => "EventStarted" \in acks[c]

(* README.md, the same sentence: a response the wait task holds when its     *)
(* time has come, and that is still due by the model, is not dropped when    *)
(* the loop replaces the wait task.                                          *)
DueResponsesKept ==
  [][pc = "replace" /\ wait.time # NoTime /\ now >= wait.time =>
       \A i \in DOMAIN wait.events :
         LET e == wait.events[i]
         IN  e \in ResponsesDue(model, wait.time - 1, wait.time) =>
               \/ e.status \in acks[e.subject]
               \/ e \in Range(wait'.events)]_vars

(* README.md: the bridge works out "which values apply right now, and writes *)
(* the resulting parameters" into the device; the process restarting does    *)
(* not change that.                                                          *)
DeviceCurrent ==
  Settled /\ BeforeNextTime => device = CalcParameters(model, now)

=============================================================================
