-------------------------- MODULE ModbusConnection --------------------------
(***************************************************************************)
(* The task that talks to the DER over Modbus (modbus_connection.rs), with *)
(* the device's registers.  The loop waits for parameters for a second at  *)
(* most, connects if it has to, writes what the device does not have yet,  *)
(* and polls.  Any request that fails drops the connection, and connecting *)
(* forgets what was sent.                                                  *)
(*                                                                         *)
(* A job's writes follow from its parameters and from the rating it reads, *)
(* so they are listed when it comes to a model and done one at a time,     *)
(* those of models 703 and 704 when it starts.  A request                  *)
(* that fails, or runs out of COMM_TIMEOUT, may still have reached the     *)
(* device, and the curve it was staging may be half there.                 *)
(***************************************************************************)
EXTENDS DeviceParameters

CONSTANTS
  Base,           \* the control bases the scheduler may announce
  Factory,        \* the content of a register nobody wrote
  Torn,           \* a curve written in part
  QueueCapacity,  \* the bound of the input channel
  MaxCommands,    \* bound on the parameters announced
  MaxFailures,    \* bound on the requests that fail for no other reason
  MaxRestarts     \* bound on the restarts of the device

ASSUME ConnectionAssumption ==
  /\ QueueCapacity \in Nat \ {0}
  /\ {Factory, Torn} \cap (Curve \cup {None}) = {}
  /\ Factory # Torn

(* DERControlBase: a setpoint in watts is within what a percentage of the    *)
(* rating can say in a register.                                             *)
IsControlBase(base) ==
  /\ base.connect \in BOOLEAN \cup {None}
  /\ base.maxLimW \in 0 .. Unlimited \cup {None}
  /\ \A v \in {base.fixedVar, base.fixedW, base.expLimW} : v \in Int \cup {None}
  /\ \A w \in {base.targetW, base.impLimW} \ {None} :
       w \in Int /\ Magnitude(w) * 100 <= MaxI16 * Rating
  /\ \A s \in Slot : base.links[s] \in Curve \cup {None}
  /\ base.fetched \subseteq Curve

ASSUME BaseAssumption == \A base \in Base : IsControlBase(base) /\ Translate(base) # None

VARIABLES
  pc,          \* where the loop is
  input,       \* the input channel
  parameters,  \* the parameters to apply
  lastSent,    \* last_sent_parameters
  pending,     \* pending_apply: the derivations of model 704 are to be retried
  connected,   \* there is a device
  job,         \* what is being written: all of it, or what was pending
  todo,        \* the writes it has yet to make to the model it is at
  listed,      \* how many of the curve models it has come to
  deferred,    \* its ApplyStatus
  due,         \* MIN_POLL_PERIOD has passed
  broken,      \* the device went away under the connection
  rated,       \* the device reports W_MAX_RTG
  regs,        \* the device's registers
  announced,   \* the parameters last put into the channel
  used         \* how much of each bound is used up

link == <<connected, broken>>
work == <<job, todo, listed, deferred>>
environment == <<rated, announced>>

vars == <<pc, input, parameters, lastSent, pending, link, work, due, regs, environment, used>>

-----------------------------------------------------------------------------
(* The device. *)

FactoryRegs ==
  [point |-> [es |-> Factory, varEna |-> FALSE, varPct |-> Factory,
              wMaxLimEna |-> FALSE, wMaxLimPct |-> Unlimited,
              wSetEna |-> FALSE, wSetPct |-> 0, wSet |-> 0, wSetMod |-> "Watts"],
   staged |-> [s \in Slot |-> Factory],
   active |-> [s \in Slot |-> Factory],
   enabled |-> [m \in CurveModel |-> FALSE]]

(* What a write does; adopting takes over all of a model's second set. *)
Apply(r, w) ==
  CASE w.kind = "point" -> [r EXCEPT !.point[w.at] = w.value]
    [] w.kind = "stage" -> [r EXCEPT !.staged[w.at] = w.value]
    [] w.kind = "enable" -> [r EXCEPT !.enabled[w.at] = w.value]
    [] w.kind = "adopt" ->
         [r EXCEPT !.active = [s \in Slot |-> IF s \in SlotsOf(w.at) THEN r.staged[s]
                                              ELSE @[s]]]

(* What a write that failed may have done. *)
Remains(r, w) ==
  {r, Apply(r, w)}
    \cup (IF w.kind = "stage" THEN {Apply(r, [w EXCEPT !.value = Torn])} ELSE {})

-----------------------------------------------------------------------------

Init ==
  /\ pc = "recv" /\ input = <<>>
  /\ parameters = None /\ lastSent = None /\ pending = FALSE
  /\ connected = FALSE /\ broken = FALSE
  /\ job = "none" /\ todo = <<>> /\ listed = 0 /\ deferred = FALSE
  /\ due = FALSE
  /\ rated \in BOOLEAN
  /\ regs = FactoryRegs
  /\ announced = None
  /\ used = [commands |-> 0, failures |-> 0, restarts |-> 0]

(* A request fails: because the device went away, or for a reason of its own. *)
Fails ==
  IF broken THEN UNCHANGED used
  ELSE /\ used.failures < MaxFailures
       /\ used' = [used EXCEPT !.failures = @ + 1]

(* drop_connection *)
DropConnection ==
  connected' = FALSE /\ UNCHANGED broken

-----------------------------------------------------------------------------
(* The loop. *)

Receive ==
  /\ pc = "recv" /\ input # <<>>
  /\ parameters' = Head(input) /\ input' = Tail(input)
  /\ due' \in {due, TRUE}
  /\ pc' = "connect"
  /\ UNCHANGED <<lastSent, pending, link, work, regs, environment, used>>

(* LOOP_TIMER_PERIOD passes; by then so has MIN_POLL_PERIOD. *)
Timeout ==
  /\ pc = "recv" /\ input = <<>>
  /\ due' = TRUE
  /\ pc' = "connect"
  /\ UNCHANGED <<input, parameters, lastSent, pending, link, work, regs, environment, used>>

StayConnected ==
  /\ pc = "connect" /\ connected
  /\ pc' = "job"
  /\ UNCHANGED <<input, parameters, lastSent, pending, link, work, due, regs,
                 environment, used>>

Mutant_Connect_remembers ==
  /\ pc = "connect" /\ ~connected
  /\ connected' = TRUE /\ broken' = FALSE
  /\ pending' = FALSE
  /\ pc' = "job"
  /\ UNCHANGED <<input, parameters, lastSent, work, due, regs, environment, used>>

(* establish_connection: the device may have restarted, so nothing counts as *)
(* sent any more.                                                            *)
Connect ==
  /\ pc = "connect" /\ ~connected
  /\ connected' = TRUE /\ broken' = FALSE
  /\ lastSent' = None /\ pending' = FALSE
  /\ pc' = "job"
  /\ UNCHANGED <<input, parameters, work, due, regs, environment, used>>

ConnectFails ==
  /\ pc = "connect" /\ ~connected
  /\ used.failures < MaxFailures
  /\ used' = [used EXCEPT !.failures = @ + 1]
  /\ pc' = "job"
  /\ UNCHANGED <<input, parameters, lastSent, pending, link, work, due, regs, environment>>

CanWrite == pc = "job" /\ connected /\ parameters # None

(* send_new_parameters *)
StartSend ==
  /\ CanWrite /\ lastSent # parameters
  /\ job' = "send"
  /\ todo' = PointWrites(parameters, rated) /\ listed' = 0
  /\ deferred' = Deferred(parameters, rated)
  /\ pc' = "write"
  /\ UNCHANGED <<input, parameters, lastSent, pending, link, due, regs, environment, used>>

(* send_model704_pending_limit_derivations, retry_only *)
StartRetry ==
  /\ CanWrite /\ lastSent = parameters /\ pending
  /\ job' = "retry"
  /\ todo' = DerivationWrites(parameters, rated, TRUE) /\ listed' = Len(Model)
  /\ deferred' = Deferred(parameters, rated)
  /\ pc' = "write"
  /\ UNCHANGED <<input, parameters, lastSent, pending, link, due, regs, environment, used>>

NothingToWrite ==
  /\ pc = "job"
  /\ ~(CanWrite /\ (lastSent # parameters \/ pending))
  /\ pc' = "poll"
  /\ UNCHANGED <<input, parameters, lastSent, pending, link, work, due, regs,
                 environment, used>>

Write ==
  /\ pc = "write" /\ todo # <<>> /\ ~broken
  /\ regs' = Apply(regs, Head(todo))
  /\ todo' = Tail(todo)
  /\ UNCHANGED <<pc, input, parameters, lastSent, pending, link, job, listed, deferred, due,
                 environment, used>>

(* send_model705_parameters to send_model711_parameters, one after the other. *)
NextModel ==
  /\ pc = "write" /\ todo = <<>> /\ listed < Len(Model)
  /\ listed' = listed + 1
  /\ todo' = CurveWrites(Model[listed + 1], parameters.curves)
  /\ UNCHANGED <<pc, input, parameters, lastSent, pending, link, job, deferred, due, regs,
                 environment, used>>

Mutant_JobDone_send_only ==
  /\ pc = "write" /\ todo = <<>> /\ listed = Len(Model) /\ ~broken
  /\ lastSent' = parameters
  /\ pending' = FALSE
  /\ job' = "none" /\ listed' = 0 /\ deferred' = FALSE
  /\ pc' = "poll"
  /\ UNCHANGED <<input, parameters, link, todo, due, regs, environment, used>>

(* After a retry, parameters are what they were when they were last sent. *)
JobDone ==
  /\ pc = "write" /\ todo = <<>> /\ listed = Len(Model) /\ ~broken
  /\ lastSent' = parameters
  /\ pending' = deferred
  /\ job' = "none" /\ listed' = 0 /\ deferred' = FALSE
  /\ pc' = "poll"
  /\ UNCHANGED <<input, parameters, link, todo, due, regs, environment, used>>

(* A write, or a read made in between, fails. *)
JobFails ==
  /\ pc = "write"
  /\ Fails
  /\ regs' \in IF broken \/ todo = <<>> THEN {regs} ELSE Remains(regs, Head(todo))
  /\ DropConnection
  /\ job' = "none" /\ todo' = <<>> /\ listed' = 0 /\ deferred' = FALSE
  /\ pc' = "poll"
  /\ UNCHANGED <<input, parameters, lastSent, pending, due, environment>>

SkipPoll ==
  /\ pc = "poll" /\ ~(due /\ connected)
  /\ pc' = "recv"
  /\ UNCHANGED <<input, parameters, lastSent, pending, link, work, due, regs,
                 environment, used>>

(* poll_device_state; what is broadcast is not followed here. *)
Poll ==
  /\ pc = "poll" /\ due /\ connected /\ ~broken
  /\ due' = FALSE
  /\ pc' = "recv"
  /\ UNCHANGED <<input, parameters, lastSent, pending, link, work, regs, environment, used>>

PollFails ==
  /\ pc = "poll" /\ due /\ connected
  /\ Fails
  /\ DropConnection
  /\ due' = FALSE
  /\ pc' = "recv"
  /\ UNCHANGED <<input, parameters, lastSent, pending, work, regs, environment>>

-----------------------------------------------------------------------------
(* The others. *)

Mutant_Announce_unbounded(base) ==
  /\ used.commands < MaxCommands
  /\ used' = [used EXCEPT !.commands = @ + 1]
  /\ announced' = Translate(base)
  /\ input' = Append(input, Translate(base))
  /\ UNCHANGED <<pc, parameters, lastSent, pending, link, work, due, regs, rated>>

(* control_change_dispatcher: the parameters of a control base are put into *)
(* the channel.                                                             *)
Announce(base) ==
  /\ Len(input) < QueueCapacity
  /\ used.commands < MaxCommands
  /\ used' = [used EXCEPT !.commands = @ + 1]
  /\ announced' = Translate(base)
  /\ input' = Append(input, Translate(base))
  /\ UNCHANGED <<pc, parameters, lastSent, pending, link, work, due, regs, rated>>

(* The device restarts, with its registers or without, and any connection to *)
(* it is of no use any more.                                                 *)
DeviceRestart ==
  /\ used.restarts < MaxRestarts
  /\ used' = [used EXCEPT !.restarts = @ + 1]
  /\ broken' = TRUE
  /\ regs' \in {regs, FactoryRegs}
  /\ rated' \in BOOLEAN
  /\ UNCHANGED <<pc, input, parameters, lastSent, pending, connected, work, due, announced>>

(* The device comes to know its rating. *)
RatingKnown ==
  /\ ~rated /\ rated' = TRUE
  /\ UNCHANGED <<pc, input, parameters, lastSent, pending, link, work, due, regs,
                 announced, used>>

Task ==
  \/ Receive \/ Timeout
  \/ StayConnected \/ Connect \/ ConnectFails
  \/ StartSend \/ StartRetry \/ NothingToWrite
  \/ Write \/ NextModel \/ JobDone \/ JobFails
  \/ SkipPoll \/ Poll \/ PollFails

Next ==
  \/ Task
  \/ \E base \in Base : Announce(base)
  \/ DeviceRestart
  \/ RatingKnown

Spec == Init /\ [][Next]_vars

(* The task is polled: its sleeps end, and each of its requests is answered, *)
(* fails, or runs into a timeout.                                            *)
FairSpec == Spec /\ WF_vars(Task)

-----------------------------------------------------------------------------
(* Properties. *)

Parameters == {None} \cup {Translate(base) : base \in Base}

(* The loop's state, and the values its variables range over. *)
TypeOK ==
  /\ pc \in {"recv", "connect", "job", "write", "poll"}
  /\ input \in Seq(Parameters \ {None}) /\ Len(input) <= QueueCapacity
  /\ {parameters, lastSent, announced} \subseteq Parameters
  /\ {pending, connected, deferred, due, broken, rated} \subseteq BOOLEAN
  /\ job \in {"none", "send", "retry"}
  /\ (job = "none") = (pc # "write")
  /\ todo # <<>> => pc = "write"
  /\ listed \in 0 .. Len(Model)
  /\ DOMAIN regs.point = DOMAIN FactoryRegs.point
  /\ regs.staged \in [Slot -> Fits \cup {Factory, Torn}]
  /\ regs.active \in [Slot -> Fits \cup {Factory, Torn}]
  /\ regs.enabled \in [CurveModel -> BOOLEAN]

EsAgrees(p) == IsSet(p.es) => regs.point.es = p.es

VarAgrees(p) ==
  /\ regs.point.varEna = IsSet(p.varPct)
  /\ IsSet(p.varPct) => regs.point.varPct = p.varPct

LimitAgrees(p) ==
  IF IsSet(p.wMaxLim) \/ IsSet(p.wMaxLimPct)
  THEN regs.point.wMaxLimEna /\ Capped(regs.point.wMaxLimPct) = AskedLimit(p)
  ELSE ~regs.point.wMaxLimEna

(* A percentage is within one of what was asked for, and an import limit is  *)
(* not exceeded.                                                             *)
SetAgrees(p) ==
  IF ~IsSet(p.wSet) /\ ~IsSet(p.wSetPct) THEN ~regs.point.wSetEna
  ELSE /\ regs.point.wSetEna
       /\ IF p.isImportSiteLimit \/ IsSet(p.wSetPct)
          THEN LET power == regs.point.wSetPct * Rating
               IN  /\ regs.point.wSetMod = "WMaxPct"
                   /\ Magnitude(power - AskedPower(p)) < Rating
                   /\ p.isImportSiteLimit => Magnitude(power) <= Magnitude(AskedPower(p))
          ELSE regs.point.wSetMod = "Watts" /\ regs.point.wSet = p.wSet

CurvesAgree(p) ==
  \A m \in CurveModel :
    /\ regs.enabled[m] = (Usable(m, p.curves) # {})
    /\ \A s \in Usable(m, p.curves) : regs.active[s] = p.curves[s]

Agrees(p) == EsAgrees(p) /\ VarAgrees(p) /\ CurvesAgree(p) /\ SetAgrees(p) /\ LimitAgrees(p)

(* The device the task is connected to and takes for done. *)
Settled ==
  /\ pc = "recv" /\ connected /\ ~broken
  /\ parameters # None /\ lastSent = parameters /\ ~pending

(* When the loop takes everything for sent, the device is set to what the     *)
(* parameters ask for, whatever writes were cut short, repeated or deferred   *)
(* on the way, and whatever was on the device before (last_sent_parameters).  *)
SentIsApplied == Settled => Agrees(parameters)

EffectiveLimit(r) == IF r.point.wMaxLimEna THEN Capped(r.point.wMaxLimPct) ELSE Unlimited

(* No write of the task loosens the export limit beyond what the parameters   *)
(* it is applying ask for: not by the order of the writes, nor while the      *)
(* limit cannot be derived ("leave existing protection untouched").           *)
ProtectionKept ==
  [][LET before == EffectiveLimit(regs)  after == EffectiveLimit(regs')
     IN  Task => after <= before \/ after <= AskedLimit(parameters)]_vars

(* Once the rating is known for good, the device ends up set to the           *)
(* parameters announced last, and stays so: restarts are noticed by polling,  *)
(* failures lead to another connection, and deferred limits are retried.      *)
Converges ==
  <>[]rated => <>[](connected /\ ~broken /\ (announced # None => Agrees(announced)))

(* Of the curves of an enabled model, one that the parameters do not give is  *)
(* not one that was given before: the values that apply are those written     *)
(* (README.md, "Down").                                                       *)
WithdrawnCurvesGone ==
  Settled =>
    \A m \in CurveModel : regs.enabled[m] =>
      \A s \in SlotsOf(m) : regs.active[s] \in {Factory, parameters.curves[s]}

=============================================================================
