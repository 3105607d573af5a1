---------------------------- MODULE DERControls ----------------------------
(***************************************************************************)
(* The part of the SEP2 resource model that scheduling reads, and the pure *)
(* functions over it: how a received DERControlList is merged              *)
(* (sep2_model.rs), which controls are in force at a time, how their       *)
(* attributes are layered (attributes.rs, calc_parameters) and when the    *)
(* answer next changes (calc_next_schedule_time).                          *)
(*                                                                         *)
(* A model is a record                                                     *)
(*   programs : the DERPrograms reachable from this EndDevice through its  *)
(*              FunctionSetAssignments, each with its primacy              *)
(*   lists    : the last DERControlList of each program, as mRIDs          *)
(*   controls : the ScheduledControls known, by mRID                       *)
(*   defaults : the DefaultDERControls known, by program                   *)
(*   rate     : the post rates (DERList pollRate, MirrorUsagePoint         *)
(*              postRate) that the lists still linked give, as one value   *)
(* Hrefs are identified with what they link to.                            *)
(***************************************************************************)
EXTENDS Integers, Sequences, FiniteSets, SequencesExt

CONSTANTS
  MRID,     \* the mRIDs of DERControls
  Program,  \* the DERPrograms the server may assign to the device
  Attr,     \* the attributes of a DERControlBase
  Value,    \* the values an attribute can be given
  NoValue,  \* an attribute no control in force sets
  Rate,     \* the post rates
  NoRate,   \* no post rate known
  NoTime    \* no time: nothing is scheduled

ASSUME NoTimeAssumption == NoTime \notin Int

ASSUME MRIDAssumption == IsFiniteSet(MRID)

-----------------------------------------------------------------------------

(* The statuses the code names, and one for any other. *)
EventStatus == {"Scheduled", "Active", "Cancelled", "Superseded", "Other"}

ResponseRequired == {"MessageReceived", "SpecificResponse"}

ResponseStatus ==
  {"EventReceived", "EventStarted", "EventCompleted",
   "EventCancelled", "EventSuperseded"}

(* A DERControlBase: a value for some of the attributes. *)
Base == UNION {[S -> Value] : S \in SUBSET Attr}

(* A DERControl as the server sends it.  A control with no replyTo requires *)
(* no response.                                                             *)
DERControl ==
  [mrid : MRID, status : EventStatus, creation : Int,
   start : Int, duration : Nat, randomizeStart : Nat, randomizeDuration : Nat,
   required : SUBSET ResponseRequired, base : Base]

(* A control and the interval realised for it when it was first received. *)
ScheduledControl == [der_control : DERControl, start : Int, end : Int]

IsPartialFunction(f, S, T) == DOMAIN f \subseteq S /\ f \in [DOMAIN f -> T]

IsSep2Model(m) ==
  /\ IsPartialFunction(m.programs, Program, Int)
  /\ m.lists \in [Program -> Seq(MRID)]
  /\ IsPartialFunction(m.controls, MRID, ScheduledControl)
  /\ IsPartialFunction(m.defaults, Program, Base)
  /\ m.rate \in Rate \cup {NoRate}

(* The same, as a set. *)
PartialFunctions(S, T) == UNION {[D -> T] : D \in SUBSET S}

Sep2Model ==
  [programs : PartialFunctions(Program, Int), lists : [Program -> Seq(MRID)],
   controls : PartialFunctions(MRID, ScheduledControl),
   defaults : PartialFunctions(Program, Base), rate : Rate \cup {NoRate}]

(* DERControlStatusChanged, the event that becomes a Response. *)
StatusChanged == [subject : MRID, status : ResponseStatus]

Response(c, s) == [subject |-> c, status |-> s]

Parameters == [Attr -> Value \cup {NoValue}]

NoParameters == [a \in Attr |-> NoValue]

EmptyModel ==
  [programs |-> [p \in {} |-> 0],
   lists    |-> [p \in Program |-> <<>>],
   controls |-> [c \in {} |-> NoValue],
   defaults |-> [p \in {} |-> NoValue],
   rate     |-> NoRate]

-----------------------------------------------------------------------------
(* Merging what the server sent. *)

MRIDs(items) == {items[i].mrid : i \in DOMAIN items}

Incoming(items, c) == items[CHOOSE i \in DOMAIN items : items[i].mrid = c]

(* A control seen for the first time gets its randomised interval.  shift is *)
(* the pair of random numbers drawn for it.                                  *)
Realise(doc, shift) ==
  LET start == doc.start + shift[1]
      long  == doc.duration + shift[2]
  IN  [der_control |-> doc, start |-> start,
       end |-> start + (IF long < 0 THEN 0 ELSE long)]

Shifts(doc) ==
  (-doc.randomizeStart .. doc.randomizeStart)
    \X (-doc.randomizeDuration .. doc.randomizeDuration)

(* What the random numbers of a list may be: a pair for each control. *)
Draws(items) ==
  {s \in [MRIDs(items) -> UNION {Shifts(items[i]) : i \in DOMAIN items}] :
     \A c \in MRIDs(items) : s[c] \in Shifts(Incoming(items, c))}

Mutant_SetControls_rerandomise(m, items, shift) ==
  [c \in DOMAIN m.controls \cup MRIDs(items) |->
     IF c \in MRIDs(items) THEN Realise(Incoming(items, c), shift[c])
     ELSE m.controls[c]]

(* set_der_control, the map: a known control keeps its realised interval. *)
SetControls(m, items, shift) ==
  [c \in DOMAIN m.controls \cup MRIDs(items) |->
     IF c \notin MRIDs(items) THEN m.controls[c]
     ELSE IF c \in DOMAIN m.controls
          THEN [m.controls[c] EXCEPT !.der_control = Incoming(items, c)]
          ELSE Realise(Incoming(items, c), shift[c])]

(* set_der_control, the events: a known control reports that it was *)
(* cancelled or superseded, once.                                   *)
StatusEvents(prior, doc) ==
  IF /\ doc.status # prior.der_control.status
     /\ "SpecificResponse" \in doc.required
  THEN CASE doc.status = "Cancelled"  -> <<Response(doc.mrid, "EventCancelled")>>
         [] doc.status = "Superseded" -> <<Response(doc.mrid, "EventSuperseded")>>
         [] OTHER -> <<>>
  ELSE <<>>

AlreadyStarted(control, t) ==
  /\ control.der_control.status = "Active"
  /\ control.start <= t
  /\ t < control.end

Mutant_ReceiptEvents_order(control, t) ==
  LET doc == control.der_control
      started == IF AlreadyStarted(control, t) /\ "SpecificResponse" \in doc.required
                 THEN <<Response(doc.mrid, "EventStarted")>> ELSE <<>>
      received == IF "MessageReceived" \in doc.required
                  THEN <<Response(doc.mrid, "EventReceived")>> ELSE <<>>
  IN  started \o received

(* set_der_control, the events: a new control is acknowledged, and reported *)
(* as started when it is running already.                                   *)
ReceiptEvents(control, t) ==
  LET doc == control.der_control
      received == IF "MessageReceived" \in doc.required
                  THEN <<Response(doc.mrid, "EventReceived")>> ELSE <<>>
      started == IF AlreadyStarted(control, t) /\ "SpecificResponse" \in doc.required
                 THEN <<Response(doc.mrid, "EventStarted")>> ELSE <<>>
  IN  received \o started

ControlListEvents(m, items, shift, t) ==
  FlattenSeq([i \in DOMAIN items |->
    LET doc == items[i]
    IN  IF doc.mrid \in DOMAIN m.controls
        THEN StatusEvents(m.controls[doc.mrid], doc)
        ELSE ReceiptEvents(Realise(doc, shift[doc.mrid]), t)])

(* drop_untracked_resources: what no reachable program lists is forgotten.  *)
(* The lists that give the rate hang on other links: an update that takes   *)
(* those away brings the rate that is left.                                 *)
Listed(m) ==
  {c \in DOMAIN m.controls :
     \E p \in DOMAIN m.programs : c \in Range(m.lists[p])}

DropUntracked(m) ==
  [programs |-> m.programs,
   lists    |-> [p \in Program |-> IF p \in DOMAIN m.programs THEN m.lists[p] ELSE <<>>],
   controls |-> [c \in Listed(m) |-> m.controls[c]],
   defaults |-> [p \in DOMAIN m.defaults \cap DOMAIN m.programs |-> m.defaults[p]],
   rate     |-> m.rate]

(* apply_update of a DERControlList; the links above it say which program's *)
(* list it is.                                                              *)
WithControlList(m, p, items, shift) ==
  DropUntracked(
    [programs |-> m.programs,
     lists    |-> [m.lists EXCEPT ![p] = [i \in DOMAIN items |-> items[i].mrid]],
     controls |-> SetControls(m, items, shift),
     defaults |-> m.defaults, rate |-> m.rate])

(* apply_update of a resource that changes which programs apply: an         *)
(* EndDeviceList, a FunctionSetAssignmentsList or a DERProgramList.  With   *)
(* the EndDevice its DERList may go too, and the rate with it.              *)
WithPrograms(m, programs, rate) ==
  DropUntracked(
    [programs |-> programs, lists |-> m.lists, controls |-> m.controls,
     defaults |-> m.defaults, rate |-> rate])

(* apply_update of a DefaultDERControl. *)
WithDefault(m, p, base) ==
  DropUntracked(
    [programs |-> m.programs, lists |-> m.lists, controls |-> m.controls,
     defaults |-> [q \in DOMAIN m.defaults \cup {p} |->
                     IF q = p THEN base ELSE m.defaults[q]],
     rate |-> m.rate])

(* apply_update of a DERList or MirrorUsagePointList, or of what links to *)
(* them.                                                                  *)
WithRate(m, rate) ==
  DropUntracked(
    [programs |-> m.programs, lists |-> m.lists, controls |-> m.controls,
     defaults |-> m.defaults, rate |-> rate])

-----------------------------------------------------------------------------
(* What is in force. *)

(* all_controls_for_device, the filters: scheduled or active, not yet ended. *)
Pending(m, t) ==
  {c \in Listed(m) : /\ m.controls[c].der_control.status \in {"Scheduled", "Active"}
                     /\ t < m.controls[c].end}

(* calc_parameters, the filter: the interval is closed below, open above. *)
Active(m, t) == {c \in Pending(m, t) : m.controls[c].start <= t}

PrimacyOf(m, c) ==
  m.programs[CHOOSE p \in DOMAIN m.programs : c \in Range(m.lists[p])]

PositionOf(m, c) ==
  LET p == CHOOSE q \in DOMAIN m.programs : c \in Range(m.lists[q])
  IN  CHOOSE i \in DOMAIN m.lists[p] : m.lists[p][i] = c

(* all_controls_for_device, the sort: by primacy, then the newest created; *)
(* the sort is stable, so equals stay in list order.                       *)
Before(m, c, d) ==
  LET created(x) == m.controls[x].der_control.creation
  IN  \/ PrimacyOf(m, c) < PrimacyOf(m, d)
      \/ /\ PrimacyOf(m, c) = PrimacyOf(m, d)
         /\ \/ created(c) > created(d)
            \/ created(c) = created(d) /\ PositionOf(m, c) < PositionOf(m, d)

(* overlay_controls folded over the sorted controls, one attribute: the      *)
(* first control that sets it wins; a default comes after every control of   *)
(* its primacy.                                                              *)
Layered(m, controls, a) ==
  LET setters  == {c \in controls : a \in DOMAIN m.controls[c].der_control.base}
      defaults == {p \in DOMAIN m.defaults : a \in DOMAIN m.defaults[p]}
      c == CHOOSE x \in setters : \A y \in setters \ {x} : Before(m, x, y)
      p == CHOOSE x \in defaults : \A y \in defaults : m.programs[x] <= m.programs[y]
  IN  IF setters # {} /\ (defaults # {} => PrimacyOf(m, c) <= m.programs[p])
      THEN m.controls[c].der_control.base[a]
      ELSE IF defaults # {} THEN m.defaults[p][a] ELSE NoValue

Overlay(m, controls) == [a \in Attr |-> Layered(m, controls, a)]

(* calc_parameters: the parameters that apply at time t. *)
CalcParameters(m, t) == Overlay(m, Active(m, t))

-----------------------------------------------------------------------------
(* When that changes. *)

Mutant_Boundaries_starts_only(m, t) ==
  {b \in {m.controls[c].start : c \in Pending(m, t)} : t < b}

(* calc_next_schedule_time: the starts and ends still ahead. *)
Boundaries(m, t) ==
  {b \in {m.controls[c].start : c \in Pending(m, t)}
           \cup {m.controls[c].end : c \in Pending(m, t)} : t < b}

NextTime(m, t) ==
  IF Boundaries(m, t) = {} THEN NoTime
  ELSE CHOOSE b \in Boundaries(m, t) : \A d \in Boundaries(m, t) : b <= d

(* The responses due at time b, for the controls that require one. *)
ResponsesDue(m, t, b) ==
  LET due == {c \in Pending(m, t) :
                "SpecificResponse" \in m.controls[c].der_control.required}
  IN  {Response(c, "EventStarted") : c \in {d \in due : m.controls[d].start = b}}
        \cup {Response(c, "EventCompleted") : c \in {d \in due : m.controls[d].end = b}}

(* The order calc_next_schedule_time finds them in: that of the sorted      *)
(* controls, the start of a control before its end.                         *)
Precedes(m, e, f) ==
  \/ e.subject # f.subject /\ Before(m, e.subject, f.subject)
  \/ /\ e.subject = f.subject
     /\ e.status = "EventStarted" /\ f.status = "EventCompleted"

(* calc_next_schedule_time: the responses of the next boundary, in order. *)
NextEvents(m, t) ==
  LET due == IF NextTime(m, t) = NoTime THEN {} ELSE ResponsesDue(m, t, NextTime(m, t))
  IN  CHOOSE s \in [1 .. Cardinality(due) -> due] :
        \A i, j \in 1 .. Cardinality(due) : i < j => Precedes(m, s[i], s[j])

=============================================================================
