----------------------- MODULE SchedulerResponseProofs -----------------------
(***************************************************************************)
(* Proofs about the responses Scheduler sends: what the wait task holds is *)
(* due by the model as it stands, no start or end is reported before its   *)
(* time, and a control is acknowledged before it is reported started.  The *)
(* responses come from three places - an update received, the wait task,   *)
(* and, through the file, an earlier run of the process - and the          *)
(* invariants say of each what it may hold.                                *)
(***************************************************************************)
EXTENDS SchedulerProofs, SequenceFacts

-----------------------------------------------------------------------------
(* What the invariants say. *)

(* No two programs of the model share a primacy. *)
PrimaciesDiffer(m) ==
  \A p, q \in DOMAIN m.programs : m.programs[p] = m.programs[q] => p = q

(* The responses of `events` are those of the boundary time, for the controls *)
(* the model still knows.                                                  *)
Timely(m, events, time) ==
  \A i \in DOMAIN events : events[i].subject \in DOMAIN m.controls =>
    /\ events[i].status = "EventStarted" => m.controls[events[i].subject].start = time
    /\ events[i].status = "EventCompleted" => m.controls[events[i].subject].end = time

(* An update reports a start only when it has happened, and no end. *)
NoneEarly(m, events, t) ==
  \A i \in DOMAIN events :
    /\ events[i].status # "EventCompleted"
    /\ events[i].status = "EventStarted" /\ events[i].subject \in DOMAIN m.controls
         => m.controls[events[i].subject].start <= t

(* The variables the responses pass through have their types, and only an    *)
(* update being received has responses to broadcast.                         *)
ResponseTypeInv ==
  /\ acks \in [MRID -> SUBSET ResponseStatus]
  /\ out \in Seq(StatusChanged)
  /\ wait.events \in Seq(StatusChanged) /\ priorEvents \in Seq(StatusChanged)
  /\ pc # "emit" => out = <<>>
  /\ PrimaciesDiffer(model) /\ (disk # NoFile => PrimaciesDiffer(disk))

(* The wait task holds what is left of the last prediction. *)
PredictionInv ==
  /\ Range(wait.events) \subseteq Range(priorEvents)
  /\ Settled => priorEvents = NextEvents(model, calcNow)
  /\ calcNow = NoTime => priorEvents = <<>>

(* What the two tasks are to send is not early. *)
EarlyInv ==
  /\ Timely(model, wait.events, wait.time)
  /\ NoneEarly(model, out, now)

(* The server asks for the control's receipt to be acknowledged. *)
Asks(c) ==
  \E l \in ControlLists : \E i \in DOMAIN l.items :
    l.items[i].mrid = c /\ "MessageReceived" \in l.items[i].required

(* Every document of the model came in a list. *)
Served(m) ==
  \A c \in DOMAIN m.controls : \E l \in ControlLists : \E i \in DOMAIN l.items :
    l.items[i] = m.controls[c].der_control /\ l.items[i].mrid = c

(* The i-th response is preceded by the acknowledgement of its control. *)
Heralded(events, i) ==
  \E j \in 1 .. i - 1 : events[j] = Response(events[i].subject, "EventReceived")

(* The i-th response reports a start, of a control to be acknowledged. *)
Started(events, i) ==
  events[i].status = "EventStarted" /\ Asks(events[i].subject)

(* A control that is known was acknowledged, or is about to be ... *)
KnownReceived ==
  \A c \in DOMAIN model.controls : Asks(c) =>
    "EventReceived" \in acks[c] \/ Response(c, "EventReceived") \in Range(out)

(* ... and one that is in the file was, so a restart finds no other. *)
StoredReceived ==
  disk # NoFile => \A c \in DOMAIN disk.controls : Asks(c) => "EventReceived" \in acks[c]

(* The wait task holds the start of a control only after that. *)
HeldHeralded ==
  \A i \in DOMAIN wait.events :
    Started(wait.events, i) => "EventReceived" \in acks[wait.events[i].subject]

(* The loop: when it has reported the receipt, or is to do so first. *)
OutHeralded ==
  \A i \in DOMAIN out :
    Started(out, i) => "EventReceived" \in acks[out[i].subject] \/ Heralded(out, i)

(* What the server has heard so far. *)
StartedReceived ==
  \A c \in MRID : "EventStarted" \in acks[c] /\ Asks(c) => "EventReceived" \in acks[c]

(* The order of receipt and start, wherever a response may be. *)
ReceiptInv ==
  /\ Served(model) /\ (disk # NoFile => Served(disk))
  /\ KnownReceived /\ StoredReceived /\ HeldHeralded /\ OutHeralded /\ StartedReceived

-----------------------------------------------------------------------------
(* The order of the controls, and the responses of a boundary. *)

(* The program a control is found under. *)
ProgramOf(m, c) == CHOOSE p \in DOMAIN m.programs : c \in Range(m.lists[p])

(* What the controls are sorted by. *)
LEMMA SortKeys ==
  ASSUME NEW m, IsSep2Model(m), NEW c \in Listed(m)
  PROVE  /\ c \in MRID /\ c \in DOMAIN m.controls
         /\ m.controls[c] \in ScheduledControl
         /\ m.controls[c].der_control.creation \in Int
         /\ ProgramOf(m, c) \in DOMAIN m.programs
         /\ PrimacyOf(m, c) = m.programs[ProgramOf(m, c)] /\ PrimacyOf(m, c) \in Int
         /\ PositionOf(m, c) \in Int
         /\ m.lists[ProgramOf(m, c)][PositionOf(m, c)] = c
<1>1. c \in MRID /\ c \in DOMAIN m.controls /\ m.controls[c] \in ScheduledControl
  BY DEF Listed, IsSep2Model, IsPartialFunction
<1>2. m.controls[c].der_control.creation \in Int
  BY <1>1 DEF ScheduledControl, DERControl
<1>3. ProgramOf(m, c) \in DOMAIN m.programs /\ c \in Range(m.lists[ProgramOf(m, c)])
  <2>1. \E p \in DOMAIN m.programs : c \in Range(m.lists[p])
    BY DEF Listed
  <2> QED
    BY <2>1 DEF ProgramOf
<1>4. PrimacyOf(m, c) = m.programs[ProgramOf(m, c)]
  BY DEF PrimacyOf, ProgramOf
<1>5. PrimacyOf(m, c) \in Int
  BY <1>3, <1>4 DEF IsSep2Model, IsPartialFunction
<1>6. PICK p : p = ProgramOf(m, c)
  OBVIOUS
<1>7. m.lists[p] \in Seq(MRID)
  BY <1>3, <1>6 DEF IsSep2Model, IsPartialFunction
<1>8. PositionOf(m, c) = CHOOSE i \in DOMAIN m.lists[p] : m.lists[p][i] = c
  BY <1>6 DEF PositionOf, ProgramOf
<1>9. \E i \in DOMAIN m.lists[p] : m.lists[p][i] = c
  BY <1>3, <1>6 DEF Range
<1>10. PositionOf(m, c) \in DOMAIN m.lists[p] /\ m.lists[p][PositionOf(m, c)] = c
  BY <1>8, <1>9
<1>11. DOMAIN m.lists[p] \subseteq Int
  BY <1>7
<1> QED
  BY <1>1, <1>2, <1>3, <1>4, <1>5, <1>6, <1>10, <1>11

(* all_controls_for_device sorts by a strict total order when no two programs *)
(* share a primacy.                                                           *)
LEMMA BeforeIsOrder ==
  ASSUME NEW m, IsSep2Model(m), PrimaciesDiffer(m)
  PROVE  /\ \A c \in Listed(m) : ~Before(m, c, c)
         /\ \A c, d \in Listed(m) : c # d => Before(m, c, d) \/ Before(m, d, c)
         /\ \A c, d, e \in Listed(m) :
              Before(m, c, d) /\ Before(m, d, e) => Before(m, c, e)
<1> DEFINE key(c) == m.controls[c].der_control.creation
<1>1. \A c \in Listed(m) : PrimacyOf(m, c) \in Int /\ key(c) \in Int /\ PositionOf(m, c) \in Int
  BY SortKeys
<1>2. ASSUME NEW c \in Listed(m), NEW d \in Listed(m), c # d,
             PrimacyOf(m, c) = PrimacyOf(m, d)
      PROVE  PositionOf(m, c) # PositionOf(m, d)
  <2>1. ProgramOf(m, c) = ProgramOf(m, d)
    BY <1>2, SortKeys DEF PrimaciesDiffer
  <2> QED
    BY <1>2, <2>1, SortKeys
<1>3. \A c, d : Before(m, c, d) <=>
        \/ PrimacyOf(m, c) < PrimacyOf(m, d)
        \/ /\ PrimacyOf(m, c) = PrimacyOf(m, d)
           /\ \/ key(c) > key(d)
              \/ key(c) = key(d) /\ PositionOf(m, c) < PositionOf(m, d)
  BY DEF Before
<1> HIDE DEF key
<1>4. \A c \in Listed(m) : ~Before(m, c, c)
  BY <1>1, <1>3
<1>5. \A c, d \in Listed(m) : c # d => Before(m, c, d) \/ Before(m, d, c)
  BY <1>1, <1>2, <1>3
<1>6. \A c, d, e \in Listed(m) : Before(m, c, d) /\ Before(m, d, e) => Before(m, c, e)
  BY <1>1, <1>3
<1> QED
  BY <1>4, <1>5, <1>6

(* A response due says that a control that asks for it starts or ends. *)
LEMMA DueIsTimely ==
  ASSUME NEW m, IsSep2Model(m), NEW t, NEW time, NEW e \in ResponsesDue(m, t, time)
  PROVE  /\ e \in StatusChanged
         /\ e.subject \in Listed(m) /\ e.subject \in DOMAIN m.controls
         /\ \/ e.status = "EventStarted" /\ m.controls[e.subject].start = time
            \/ e.status = "EventCompleted" /\ m.controls[e.subject].end = time
<1>1. PICK c \in Pending(m, t) :
        \/ e = Response(c, "EventStarted") /\ m.controls[c].start = time
        \/ e = Response(c, "EventCompleted") /\ m.controls[c].end = time
  BY DEF ResponsesDue
<1>2. c \in Listed(m) /\ c \in MRID /\ c \in DOMAIN m.controls
  BY <1>1, SortKeys DEF Pending
<1>3. e.subject = c /\ e \in StatusChanged
  BY <1>1, <1>2 DEF Response, StatusChanged, ResponseStatus
<1>4. \/ e.status = "EventStarted" /\ m.controls[c].start = time
      \/ e.status = "EventCompleted" /\ m.controls[c].end = time
  BY <1>1 DEF Response
<1> QED
  BY <1>2, <1>3, <1>4

(* ... and so the responses of a boundary have one order. *)
LEMMA DueAreOrdered ==
  ASSUME NEW m, IsSep2Model(m), PrimaciesDiffer(m), NEW t, NEW time, NEW R,
         R = {x \in StatusChanged \X StatusChanged : Precedes(m, x[1], x[2])}
  PROVE  IsOrderOn(R, ResponsesDue(m, t, time))
<1> DEFINE due == ResponsesDue(m, t, time)
<1>1. \A e \in due : /\ e \in StatusChanged /\ e.subject \in Listed(m)
                     /\ e.status \in {"EventStarted", "EventCompleted"}
  BY DueIsTimely
<1>2. \A e, f \in due : <<e, f>> \in R <=> Precedes(m, e, f)
  BY <1>1
<1>3. \A e, f \in due : e.subject = f.subject /\ e.status = f.status => e = f
  BY <1>1 DEF StatusChanged
<1> HIDE DEF due
<1>4. ASSUME NEW e \in due, NEW f \in due, e # f
      PROVE  Precedes(m, e, f) \/ Precedes(m, f, e)
  <2>1. CASE e.subject = f.subject
    BY <1>1, <1>3, <1>4, <2>1 DEF Precedes
  <2>2. CASE e.subject # f.subject
    <3>1. Before(m, e.subject, f.subject) \/ Before(m, f.subject, e.subject)
      BY <1>1, <2>2, BeforeIsOrder
    <3> QED
      BY <2>2, <3>1 DEF Precedes
  <2> QED
    BY <2>1, <2>2
<1>5. ASSUME NEW e \in due, NEW f \in due, NEW g \in due,
             Precedes(m, e, f), Precedes(m, f, g)
      PROVE  Precedes(m, e, g)
  <2>1. /\ ~Before(m, e.subject, e.subject)
        /\ Before(m, e.subject, f.subject) /\ Before(m, f.subject, g.subject)
             => Before(m, e.subject, g.subject)
    BY <1>1, BeforeIsOrder
  <2>2. CASE e.subject = f.subject /\ f.subject = g.subject
    BY <1>5, <2>2 DEF Precedes
  <2>3. CASE e.subject = f.subject /\ f.subject # g.subject
    BY <1>5, <2>3 DEF Precedes
  <2>4. CASE e.subject # f.subject /\ f.subject = g.subject
    BY <1>5, <2>4 DEF Precedes
  <2>5. CASE e.subject # f.subject /\ f.subject # g.subject
    <3>1. Before(m, e.subject, f.subject) /\ Before(m, f.subject, g.subject)
      BY <1>5, <2>5 DEF Precedes
    <3>2. Before(m, e.subject, g.subject)
      BY <2>1, <3>1
    <3>3. e.subject # g.subject
      BY <2>1, <3>2
    <3> QED
      BY <3>2, <3>3 DEF Precedes
  <2> QED
    BY <2>2, <2>3, <2>4, <2>5
<1>6. \A e, f \in due : e # f => <<e, f>> \in R \/ <<f, e>> \in R
  BY <1>2, <1>4
<1>7. \A e, f, g \in due : <<e, f>> \in R /\ <<f, g>> \in R => <<e, g>> \in R
  BY <1>2, <1>5
<1> QED
  BY <1>6, <1>7 DEF IsOrderOn, due

(* There are finitely many responses. *)
LEMMA ResponsesAreFinite ==
  ASSUME NEW S \in SUBSET StatusChanged
  PROVE  IsFiniteSet(S)
<1>1. IsFiniteSet({"EventReceived"} \cup {"EventStarted"} \cup {"EventCompleted"}
                    \cup {"EventCancelled"} \cup {"EventSuperseded"})
  BY FS_Singleton, FS_Union
<1>2. ResponseStatus = {"EventReceived"} \cup {"EventStarted"} \cup {"EventCompleted"}
                         \cup {"EventCancelled"} \cup {"EventSuperseded"}
  BY DEF ResponseStatus
<1>3. IsFiniteSet(MRID \X ResponseStatus)
  BY <1>1, <1>2, MRIDAssumption, FS_Product
<1> DEFINE f == [x \in MRID \X ResponseStatus |-> Response(x[1], x[2])]
<1>4. f \in [MRID \X ResponseStatus -> StatusChanged]
  BY DEF Response, StatusChanged
<1>5. ASSUME NEW e \in StatusChanged
      PROVE  \E x \in MRID \X ResponseStatus : f[x] = e
  <2>1. e.subject \in MRID /\ e.status \in ResponseStatus
        /\ e = [subject |-> e.subject, status |-> e.status]
    BY DEF StatusChanged
  <2>2. <<e.subject, e.status>> \in MRID \X ResponseStatus
    BY <2>1
  <2>3. f[<<e.subject, e.status>>] = e
    BY <2>1, <2>2 DEF Response
  <2> QED
    BY <2>2, <2>3
<1>6. f \in Surjection(MRID \X ResponseStatus, StatusChanged)
  <2> HIDE DEF f
  <2> QED
    BY <1>4, <1>5 DEF Surjection
<1>7. IsFiniteSet(StatusChanged)
  <2> HIDE DEF f
  <2> QED
    BY <1>3, <1>6, FS_Surjection
<1> QED
  BY <1>7, FS_Subset

(* calc_next_schedule_time: what it returns is due at the time it returns, *)
(* and nothing is due when there is no such time.                          *)
LEMMA NextEventsAreDue ==
  ASSUME NEW m, IsSep2Model(m), PrimaciesDiffer(m), NEW t
  PROVE  /\ NextEvents(m, t) \in Seq(StatusChanged)
         /\ \A e \in Range(NextEvents(m, t)) : e \in ResponsesDue(m, t, NextTime(m, t))
         /\ NextTime(m, t) = NoTime => NextEvents(m, t) = <<>>
<1> DEFINE R == {x \in StatusChanged \X StatusChanged : Precedes(m, x[1], x[2])}
<1>1. PICK due : due = IF NextTime(m, t) = NoTime THEN {} ELSE ResponsesDue(m, t, NextTime(m, t))
  OBVIOUS
<1>2. due \subseteq StatusChanged
  BY <1>1, DueIsTimely
<1>3. IsFiniteSet(due)
  BY <1>2, ResponsesAreFinite
<1>4. IsOrderOn(R, due)
  <2>1. CASE NextTime(m, t) = NoTime
    BY <1>1, <2>1 DEF IsOrderOn
  <2>2. CASE NextTime(m, t) # NoTime
    BY <1>1, <2>2, DueAreOrdered
  <2> QED
    BY <2>1, <2>2
<1>5. PICK n : n = Cardinality(due)
  OBVIOUS
<1>6. n \in Nat /\ \E s \in [1 .. n -> due] : \A i, j \in 1 .. n : i < j => <<s[i], s[j]>> \in R
  <2> HIDE DEF R
  <2> QED
    BY <1>3, <1>4, <1>5, Sorted
<1>7. \E s \in [1 .. n -> due] : \A i, j \in 1 .. n : i < j => Precedes(m, s[i], s[j])
  BY <1>6
<1>8. NextEvents(m, t) = CHOOSE s \in [1 .. n -> due] :
                           \A i, j \in 1 .. n : i < j => Precedes(m, s[i], s[j])
  BY <1>1, <1>5 DEF NextEvents
<1>9. NextEvents(m, t) \in [1 .. n -> due]
  BY <1>7, <1>8
<1>10. PICK s \in [1 .. n -> due] : s = NextEvents(m, t)
  BY <1>9
<1>11. s \in Seq(StatusChanged) /\ Range(s) \subseteq due
  BY <1>2, <1>6 DEF Range
<1>12. NextTime(m, t) = NoTime => s = <<>>
  <2> SUFFICES ASSUME NextTime(m, t) = NoTime PROVE s = <<>>
    OBVIOUS
  <2>1. due = {}
    BY <1>1
  <2>2. n = 0
    BY <1>5, <2>1, FS_EmptySet
  <2> QED
    BY <1>11, <2>2
<1>13. \A e \in due : e \in ResponsesDue(m, t, NextTime(m, t))
  BY <1>1
<1> QED
  BY <1>10, <1>11, <1>12, <1>13


-----------------------------------------------------------------------------
(* What an update reports. *)

(* set_der_control, the events of one document. *)
DocumentEvents(m, doc, shift, t) ==
  IF doc.mrid \in DOMAIN m.controls THEN StatusEvents(m.controls[doc.mrid], doc)
  ELSE ReceiptEvents(Realise(doc, shift[doc.mrid]), t)

(* What is said of a control that is known is never that it was received, *)
(* has started or has ended.                                              *)
LEMMA StatusEventsSay ==
  ASSUME NEW prior, NEW doc \in DERControl, NEW events, events = StatusEvents(prior, doc)
  PROVE  /\ events \in Seq(StatusChanged)
         /\ \A i \in DOMAIN events : events[i].subject = doc.mrid
         /\ \A i \in DOMAIN events : events[i].status \notin {"EventStarted", "EventCompleted"}
<1>1. doc.mrid \in MRID
  BY DEF DERControl
<1>2. \/ events = <<>> \/ events = <<Response(doc.mrid, "EventCancelled")>>
      \/ events = <<Response(doc.mrid, "EventSuperseded")>>
  BY DEF StatusEvents
<1>3. \A s \in {"EventCancelled", "EventSuperseded"} :
        /\ Response(doc.mrid, s) \in StatusChanged
        /\ Response(doc.mrid, s).subject = doc.mrid /\ Response(doc.mrid, s).status = s
  BY <1>1 DEF Response, StatusChanged, ResponseStatus
<1>4. CASE events = <<>>
  BY <1>4
<1>5. ASSUME NEW s \in {"EventCancelled", "EventSuperseded"},
             events = <<Response(doc.mrid, s)>>
      PROVE  /\ events \in Seq(StatusChanged)
             /\ \A i \in DOMAIN events :
                  events[i].subject = doc.mrid /\ events[i].status = s
  <2>1. PICK r \in StatusChanged : r = Response(doc.mrid, s)
    BY <1>3
  <2>2. events = <<r>>
    BY <1>5, <2>1
  <2>3. events \in Seq(StatusChanged) /\ \A i \in DOMAIN events : events[i] = r
    BY <2>2
  <2> QED
    BY <1>3, <2>1, <2>3
<1> QED
  BY <1>2, <1>4, <1>5

(* A new control is acknowledged if the server asks for it, and reported as  *)
(* started, after that, when it is running.                                  *)
LEMMA ReceiptEventsSay ==
  ASSUME NEW control \in ScheduledControl, NEW t, NEW doc, doc = control.der_control,
         NEW events, events = ReceiptEvents(control, t)
  PROVE  /\ events \in Seq(StatusChanged)
         /\ \A i \in DOMAIN events : events[i].subject = doc.mrid
         /\ \A i \in DOMAIN events : events[i].status # "EventCompleted"
         /\ \A i \in DOMAIN events : events[i].status = "EventStarted" => control.start <= t
         /\ "MessageReceived" \in doc.required =>
              /\ Response(doc.mrid, "EventReceived") \in Range(events)
              /\ \A i \in DOMAIN events : events[i].status = "EventStarted" =>
                   \E j \in 1 .. i - 1 : events[j] = Response(doc.mrid, "EventReceived")
<1>1. doc.mrid \in MRID
  BY DEF ScheduledControl, DERControl
<1>2. PICK r \in StatusChanged : r = Response(doc.mrid, "EventReceived")
  BY <1>1 DEF Response, StatusChanged, ResponseStatus
<1>3. PICK s \in StatusChanged : s = Response(doc.mrid, "EventStarted")
  BY <1>1 DEF Response, StatusChanged, ResponseStatus
<1>4. /\ r.subject = doc.mrid /\ r.status = "EventReceived"
      /\ s.subject = doc.mrid /\ s.status = "EventStarted"
  BY <1>2, <1>3 DEF Response
<1>5. events = (IF "MessageReceived" \in doc.required THEN <<r>> ELSE <<>>)
               \o (IF AlreadyStarted(control, t) /\ "SpecificResponse" \in doc.required
                   THEN <<s>> ELSE <<>>)
  BY <1>2, <1>3 DEF ReceiptEvents
<1>6. CASE "MessageReceived" \in doc.required
  <2>0. <<r>> \o <<>> = <<r>> /\ <<r>> \o <<s>> = <<r, s>>
    BY ConcatOnes
  <2>1. events = <<r>> \/ (events = <<r, s>> /\ AlreadyStarted(control, t))
    <3>1. CASE AlreadyStarted(control, t) /\ "SpecificResponse" \in doc.required
      <4>1. events = <<r>> \o <<s>>
        BY <1>5, <1>6, <3>1, Zenon
      <4> QED
        BY <2>0, <3>1, <4>1, Zenon
    <3>2. CASE ~(AlreadyStarted(control, t) /\ "SpecificResponse" \in doc.required)
      <4>1. events = <<r>> \o <<>>
        BY <1>5, <1>6, <3>2, Zenon
      <4> QED
        BY <2>0, <4>1, Zenon
    <3> QED
      BY <3>1, <3>2
  <2>2. CASE events = <<r>>
    <3>1. events \in Seq(StatusChanged) /\ DOMAIN events = {1} /\ events[1] = r
      BY <2>2
    <3> QED
      BY <1>2, <1>4, <3>1 DEF Range
  <2>3. CASE events = <<r, s>> /\ AlreadyStarted(control, t)
    <3>1. events \in Seq(StatusChanged) /\ DOMAIN events = {1, 2}
          /\ events[1] = r /\ events[2] = s
      BY <2>3
    <3>2. control.start <= t
      BY <2>3 DEF AlreadyStarted
    <3>3. r \in Range(events)
      BY <3>1 DEF Range
    <3>4. \A i \in DOMAIN events : events[i].status = "EventStarted" =>
            \E j \in 1 .. i - 1 : events[j] = r
      BY <1>4, <3>1
    <3> QED
      BY <1>2, <1>4, <3>1, <3>2, <3>3, <3>4
  <2> QED
    BY <2>1, <2>2, <2>3
<1>7. CASE "MessageReceived" \notin doc.required
  <2>1. events = <<>> \/ (events = <<s>> /\ AlreadyStarted(control, t))
    BY <1>5, <1>7
  <2>2. CASE events = <<>>
    BY <1>7, <2>2
  <2>3. CASE events = <<s>> /\ AlreadyStarted(control, t)
    <3>1. events \in Seq(StatusChanged) /\ DOMAIN events = {1} /\ events[1] = s
      BY <2>3
    <3>2. control.start <= t
      BY <2>3 DEF AlreadyStarted
    <3> QED
      BY <1>4, <1>7, <3>1, <3>2
  <2> QED
    BY <2>1, <2>2, <2>3
<1> QED
  BY <1>6, <1>7

(* What is reported of one document. *)
LEMMA DocumentEventsSay ==
  ASSUME NEW m, IsSep2Model(m), NEW doc \in DERControl, NEW shift,
         shift[doc.mrid] \in Shifts(doc), NEW t,
         NEW events, events = DocumentEvents(m, doc, shift, t)
  PROVE  /\ events \in Seq(StatusChanged)
         /\ \A i \in DOMAIN events : events[i].subject = doc.mrid
         /\ \A i \in DOMAIN events : events[i].status # "EventCompleted"
         /\ \A i \in DOMAIN events : events[i].status = "EventStarted" =>
              /\ doc.mrid \notin DOMAIN m.controls
              /\ Realise(doc, shift[doc.mrid]).start <= t
         /\ doc.mrid \notin DOMAIN m.controls /\ "MessageReceived" \in doc.required =>
              Response(doc.mrid, "EventReceived") \in Range(events)
         /\ "MessageReceived" \in doc.required =>
              \A i \in DOMAIN events : events[i].status = "EventStarted" =>
                \E j \in 1 .. i - 1 : events[j] = Response(doc.mrid, "EventReceived")
<1>1. CASE doc.mrid \in DOMAIN m.controls
  <2>1. events = StatusEvents(m.controls[doc.mrid], doc)
    BY <1>1 DEF DocumentEvents
  <2> QED
    BY <1>1, <2>1, StatusEventsSay
<1>2. CASE doc.mrid \notin DOMAIN m.controls
  <2>1. PICK control \in ScheduledControl : control = Realise(doc, shift[doc.mrid])
    BY RealiseType
  <2>2. control.der_control = doc
    BY <2>1 DEF Realise
  <2>3. events = ReceiptEvents(control, t)
    BY <1>2, <2>1 DEF DocumentEvents
  <2> QED
    BY <1>2, <2>1, <2>2, <2>3, ReceiptEventsSay
<1> QED
  BY <1>1, <1>2


(* A list names a control once, so its document is the one that counts. *)
LEMMA IncomingIs ==
  ASSUME NEW items, \A i, j \in DOMAIN items : items[i].mrid = items[j].mrid => i = j,
         NEW i \in DOMAIN items
  PROVE  items[i].mrid \in MRIDs(items) /\ Incoming(items, items[i].mrid) = items[i]
BY DEF MRIDs, Incoming

(* set_der_control, the events of each document of the list. *)
ListEvents(m, items, shift, t) ==
  [i \in DOMAIN items |-> DocumentEvents(m, items[i], shift, t)]

(* A list is reported document by document. *)
LEMMA ListEventsAre ==
  ASSUME NEW m, IsSep2Model(m), NEW items \in Seq(DERControl),
         \A i, j \in DOMAIN items : items[i].mrid = items[j].mrid => i = j,
         NEW shift \in Draws(items), NEW t,
         NEW blocks, blocks = ListEvents(m, items, shift, t)
  PROVE  /\ ControlListEvents(m, items, shift, t) = FlattenSeq(blocks)
         /\ blocks \in Seq(Seq(StatusChanged)) /\ DOMAIN blocks = DOMAIN items
         /\ \A i \in DOMAIN items :
              /\ items[i] \in DERControl /\ shift[items[i].mrid] \in Shifts(items[i])
              /\ blocks[i] = DocumentEvents(m, items[i], shift, t)
<1>1. ControlListEvents(m, items, shift, t) = FlattenSeq(blocks)
  BY DEF ControlListEvents, ListEvents, DocumentEvents
<1>2. \A i \in DOMAIN items : items[i] \in DERControl
  OBVIOUS
<1>3. \A i \in DOMAIN items : shift[items[i].mrid] \in Shifts(items[i])
  BY IncomingIs DEF Draws
<1>4. \A i \in DOMAIN items : DocumentEvents(m, items[i], shift, t) \in Seq(StatusChanged)
  BY <1>2, <1>3, DocumentEventsSay
<1>5. PICK n \in Nat : DOMAIN items = 1 .. n
  OBVIOUS
<1>6. DOMAIN blocks = DOMAIN items
      /\ \A i \in DOMAIN items : blocks[i] = DocumentEvents(m, items[i], shift, t)
  BY DEF ListEvents
<1>7. blocks \in [1 .. n -> Seq(StatusChanged)]
  BY <1>4, <1>5 DEF ListEvents
<1>8. blocks \in Seq(Seq(StatusChanged))
  BY <1>7
<1> QED
  BY <1>1, <1>2, <1>3, <1>6, <1>8

(* What the model holds of a control after a list was received. *)
LEMMA ListedControl ==
  ASSUME NEW m, IsSep2Model(m), NEW p, NEW items, NEW shift,
         NEW n, n = WithControlList(m, p, items, shift), NEW c \in DOMAIN n.controls
  PROVE  /\ c \in DOMAIN m.controls \cup MRIDs(items)
         /\ n.controls[c] = SetControls(m, items, shift)[c]
         /\ c \notin DOMAIN m.controls =>
              /\ c \in MRIDs(items)
              /\ n.controls[c] = Realise(Incoming(items, c), shift[c])
         /\ n.controls[c].der_control =
              IF c \in MRIDs(items) THEN Incoming(items, c) ELSE m.controls[c].der_control
<1>1. c \in DOMAIN SetControls(m, items, shift) /\ n.controls[c] = SetControls(m, items, shift)[c]
  BY DEF WithControlList, DropUntracked, Listed
<1>2. c \in DOMAIN m.controls \cup MRIDs(items)
  BY <1>1 DEF SetControls
<1>3. c \notin DOMAIN m.controls =>
        c \in MRIDs(items) /\ n.controls[c] = Realise(Incoming(items, c), shift[c])
  BY <1>1, <1>2 DEF SetControls
<1>4. n.controls[c].der_control =
        IF c \in MRIDs(items) THEN Incoming(items, c) ELSE m.controls[c].der_control
  <2>1. CASE c \notin MRIDs(items)
    BY <1>1, <1>2, <2>1 DEF SetControls
  <2>2. CASE c \notin DOMAIN m.controls
    BY <1>2, <1>3, <2>2 DEF Realise
  <2>3. CASE c \in MRIDs(items) /\ c \in DOMAIN m.controls
    <3>1. m.controls[c] \in ScheduledControl
      BY <2>3 DEF IsSep2Model, IsPartialFunction
    <3>2. SetControls(m, items, shift)[c] = [m.controls[c] EXCEPT !.der_control = Incoming(items, c)]
      BY <2>3 DEF SetControls
    <3> QED
      BY <1>1, <2>3, <3>1, <3>2 DEF ScheduledControl
  <2> QED
    BY <1>2, <2>1, <2>2, <2>3
<1> QED
  BY <1>1, <1>2, <1>3, <1>4

(* A list reports a start only when it has happened, and no end. *)
LEMMA ListEventsNotEarly ==
  ASSUME NEW m, IsSep2Model(m), NEW p, NEW items \in Seq(DERControl),
         \A i, j \in DOMAIN items : items[i].mrid = items[j].mrid => i = j,
         NEW shift \in Draws(items), NEW t
  PROVE  /\ ControlListEvents(m, items, shift, t) \in Seq(StatusChanged)
         /\ NoneEarly(WithControlList(m, p, items, shift),
                      ControlListEvents(m, items, shift, t), t)
<1>1. PICK n : n = WithControlList(m, p, items, shift)
  OBVIOUS
<1>2. PICK blocks : blocks = ListEvents(m, items, shift, t)
  OBVIOUS
<1>3. PICK events : events = FlattenSeq(blocks)
  OBVIOUS
<1>4. /\ ControlListEvents(m, items, shift, t) = FlattenSeq(blocks)
      /\ blocks \in Seq(Seq(StatusChanged)) /\ DOMAIN blocks = DOMAIN items
      /\ \A i \in DOMAIN items :
           /\ items[i] \in DERControl /\ shift[items[i].mrid] \in Shifts(items[i])
           /\ blocks[i] = DocumentEvents(m, items[i], shift, t)
  BY <1>2, ListEventsAre
<1>5. events \in Seq(StatusChanged) /\ ControlListEvents(m, items, shift, t) = events
  BY <1>3, <1>4, Flatten
<1>6. ASSUME NEW e \in Range(events)
      PROVE  /\ e.status # "EventCompleted"
             /\ e.status = "EventStarted" /\ e.subject \in DOMAIN n.controls
                  => n.controls[e.subject].start <= t
  <2>1. PICK i \in DOMAIN items : e \in Range(blocks[i])
    BY <1>3, <1>4, FlattenMember
  <2>2. PICK j \in DOMAIN blocks[i] : e = blocks[i][j]
    BY <2>1 DEF Range
  <2>3. PICK doc \in DERControl : doc = items[i]
    BY <1>4
  <2>4. shift[doc.mrid] \in Shifts(doc) /\ blocks[i] = DocumentEvents(m, doc, shift, t)
    BY <1>4, <2>3
  <2>5. /\ e.subject = doc.mrid /\ e.status # "EventCompleted"
        /\ e.status = "EventStarted" => /\ doc.mrid \notin DOMAIN m.controls
                                        /\ Realise(doc, shift[doc.mrid]).start <= t
    BY <2>2, <2>4, DocumentEventsSay
  <2>6. Incoming(items, doc.mrid) = doc
    BY <2>3, IncomingIs
  <2>7. doc.mrid \in DOMAIN n.controls /\ doc.mrid \notin DOMAIN m.controls =>
          n.controls[doc.mrid] = Realise(doc, shift[doc.mrid])
    BY <1>1, <2>6, ListedControl
  <2> QED
    BY <2>5, <2>7
<1>7. NoneEarly(n, events, t)
  BY <1>6 DEF NoneEarly, Range
<1> QED
  BY <1>1, <1>5, <1>7


(* In the responses to a list, a start comes after the acknowledgement the *)
(* server asked for.                                                       *)
LEMMA ListEventsHeralded ==
  ASSUME RequirementsStay(ControlLists), NEW m, IsSep2Model(m), NEW l \in ControlLists,
         NEW items \in Seq(DERControl), items = l.items,
         \A i, j \in DOMAIN items : items[i].mrid = items[j].mrid => i = j,
         NEW shift \in Draws(items), NEW t,
         NEW events, events = ControlListEvents(m, items, shift, t)
  PROVE  /\ \A i \in DOMAIN events : Started(events, i) => Heralded(events, i)
         /\ \A c \in MRIDs(items) : c \notin DOMAIN m.controls /\ Asks(c) =>
              Response(c, "EventReceived") \in Range(events)
<1> DEFINE C == {s \in Seq(StatusChanged) :
                   \A i \in DOMAIN s : Started(s, i) => Heralded(s, i)}
<1>1. PICK blocks : blocks = ListEvents(m, items, shift, t)
  OBVIOUS
<1>2. /\ ControlListEvents(m, items, shift, t) = FlattenSeq(blocks)
      /\ blocks \in Seq(Seq(StatusChanged)) /\ DOMAIN blocks = DOMAIN items
      /\ \A i \in DOMAIN items :
           /\ items[i] \in DERControl /\ shift[items[i].mrid] \in Shifts(items[i])
           /\ blocks[i] = DocumentEvents(m, items[i], shift, t)
  BY <1>1, ListEventsAre
<1>3. \A i \in DOMAIN items : Asks(items[i].mrid) => "MessageReceived" \in items[i].required
  BY DEF RequirementsStay, Asks
<1>4. ASSUME NEW i \in DOMAIN items
      PROVE  blocks[i] \in C
  <2>1. PICK doc \in DERControl : doc = items[i]
    BY <1>2
  <2>2. PICK s : s = blocks[i]
    OBVIOUS
  <2>3. shift[doc.mrid] \in Shifts(doc) /\ s = DocumentEvents(m, doc, shift, t)
    BY <1>2, <2>1, <2>2
  <2>4. /\ s \in Seq(StatusChanged)
        /\ \A k \in DOMAIN s : s[k].subject = doc.mrid
        /\ "MessageReceived" \in doc.required =>
             \A k \in DOMAIN s : s[k].status = "EventStarted" =>
               \E j \in 1 .. k - 1 : s[j] = Response(doc.mrid, "EventReceived")
    BY <2>3, DocumentEventsSay
  <2>5. \A k \in DOMAIN s : Started(s, k) => Heralded(s, k)
    BY <1>3, <2>1, <2>4 DEF Started, Heralded
  <2> QED
    BY <2>2, <2>4, <2>5
<1>5. C \subseteq Seq(StatusChanged) /\ <<>> \in C
  OBVIOUS
<1>6. ASSUME NEW s \in C, NEW u \in C
      PROVE  s \o u \in C
  <2>1. s \in Seq(StatusChanged) /\ u \in Seq(StatusChanged)
    OBVIOUS
  <2>2. PICK w : w = s \o u
    OBVIOUS
  <2>3. /\ w \in Seq(StatusChanged) /\ Len(w) = Len(s) + Len(u)
        /\ Len(s) \in Nat /\ Len(u) \in Nat
        /\ DOMAIN w = 1 .. Len(w) /\ DOMAIN s = 1 .. Len(s) /\ DOMAIN u = 1 .. Len(u)
    BY <2>1, <2>2, ConcatAt
  <2>4. /\ \A i \in 1 .. Len(s) : w[i] = s[i]
        /\ \A i \in 1 .. Len(u) : w[Len(s) + i] = u[i]
    BY <2>1, <2>2, ConcatAt
  <2>5. ASSUME NEW i \in DOMAIN w, Started(w, i)
        PROVE  Heralded(w, i)
    <3>1. CASE i \in 1 .. Len(s)
      <4>1. Started(s, i) /\ w[i] = s[i]
        BY <2>4, <2>5, <3>1 DEF Started
      <4>2. PICK j \in 1 .. i - 1 : s[j] = Response(s[i].subject, "EventReceived")
        BY <2>3, <3>1, <4>1 DEF Heralded
      <4>3. j \in 1 .. Len(s)
        BY <2>3, <3>1
      <4> QED
        BY <2>4, <4>1, <4>2, <4>3 DEF Heralded
    <3>2. CASE i \notin 1 .. Len(s)
      <4>1. PICK k \in 1 .. Len(u) : i = Len(s) + k
        <5>1. i - Len(s) \in 1 .. Len(u) /\ i = Len(s) + (i - Len(s))
          BY <2>3, <3>2
        <5> QED
          BY <5>1
      <4>2. Started(u, k) /\ w[i] = u[k]
        BY <2>4, <2>5, <4>1 DEF Started
      <4>3. PICK j \in 1 .. k - 1 : u[j] = Response(u[k].subject, "EventReceived")
        BY <2>3, <4>2 DEF Heralded
      <4>4. j \in 1 .. Len(u) /\ Len(s) + j \in 1 .. i - 1
        BY <2>3, <4>1
      <4>5. w[Len(s) + j] = Response(w[i].subject, "EventReceived")
        BY <2>4, <4>2, <4>3, <4>4
      <4> QED
        BY <4>4, <4>5 DEF Heralded
    <3> QED
      BY <3>1, <3>2
  <2> QED
    BY <2>2, <2>3, <2>5
<1>7. PICK n \in Nat : DOMAIN items = 1 .. n
  OBVIOUS
<1>8. blocks \in [1 .. n -> C]
  <2> HIDE DEF C
  <2>1. blocks \in [DOMAIN blocks -> Seq(StatusChanged)]
    BY <1>2
  <2> QED
    BY <1>2, <1>4, <1>7, <2>1
<1>9. events \in C
  <2> HIDE DEF C
  <2>1. \A s, u \in C : s \o u \in C
    BY <1>6
  <2>2. FlattenSeq(blocks) \in C
    BY <1>5, <1>8, <2>1, FlattenClosed
  <2> QED
    BY <1>2, <2>2
<1>10. ASSUME NEW c \in MRIDs(items), c \notin DOMAIN m.controls, Asks(c)
       PROVE  Response(c, "EventReceived") \in Range(events)
  <2>1. PICK i \in DOMAIN items : items[i].mrid = c
    BY DEF MRIDs
  <2>2. PICK doc \in DERControl : doc = items[i]
    BY <1>2
  <2>3. PICK s : s = blocks[i]
    OBVIOUS
  <2>4. shift[doc.mrid] \in Shifts(doc) /\ s = DocumentEvents(m, doc, shift, t)
    BY <1>2, <2>2, <2>3
  <2>5. "MessageReceived" \in doc.required
    BY <1>3, <1>10, <2>1, <2>2
  <2>6. Response(doc.mrid, "EventReceived") \in Range(s)
    BY <1>10, <2>1, <2>2, <2>4, <2>5, DocumentEventsSay
  <2>7. Response(c, "EventReceived") \in Range(blocks[i])
    BY <2>1, <2>2, <2>3, <2>6
  <2>8. Response(c, "EventReceived") \in Range(FlattenSeq(blocks))
    BY <1>2, <2>7, FlattenMember
  <2> QED
    BY <1>2, <2>8
<1> QED
  BY <1>9, <1>10


-----------------------------------------------------------------------------
(* The steps, by what they do to the responses. *)

(* apply_update, of whichever resource. *)
Update == ReceiveControlList \/ ReceivePrograms \/ ReceiveDefault \/ ReceiveRate

(* A step that neither sends a response nor changes what there is to send. *)
Quiet ==
  /\ UNCHANGED <<model, disk, out, acks, priorEvents>>
  /\ wait'.events = wait.events /\ wait'.time = wait.time
  /\ now <= now'
  /\ pc' = pc \/ (pc # "emit" /\ pc' # "emit")
  /\ Settled' => /\ calcNow' = calcNow
                 /\ Settled \/ priorEvents = NextEvents(model, calcNow)
  /\ calcNow' = NoTime => calcNow = NoTime

(* Every other step is quiet. *)
LEMMA ResponseSteps ==
  ASSUME TypeOK, [Next]_vars
  PROVE  \/ Update \/ BroadcastEvent \/ PersistState \/ ReplaceWaitTask \/ WaitBroadcast
         \/ CrashAndRestart \/ Quiet
<1>0. now \in Int
  BY SchedulerAssumption DEF TypeOK, LoopTypeOK
<1>1. CASE TakeNextSchedule
  BY <1>0, <1>1 DEF TakeNextSchedule, Quiet, Settled, priors
<1>2. CASE TakeRefresh
  BY <1>0, <1>2 DEF TakeRefresh, Quiet, Settled, priors
<1>3. CASE CheckPostRates
  BY <1>0, <1>3 DEF CheckPostRates, Quiet, Settled
<1>4. CASE ReadClock
  BY <1>0, <1>4, NoTimeAssumption DEF ReadClock, Quiet, Settled, priors
<1>5. CASE AnnounceParameters
  BY <1>0, <1>5 DEF AnnounceParameters, Quiet, Settled
<1>6. CASE Predict
  BY <1>0, <1>6 DEF Predict, Quiet, Settled, priors
<1>7. CASE WaitTimeout
  BY <1>0, <1>7 DEF WaitTimeout, Quiet, Settled, priors
<1>8. CASE WaitWake
  BY <1>0, <1>8 DEF WaitWake, Quiet, Settled, priors
<1>9. CASE Tick
  BY <1>0, <1>9 DEF Tick, Quiet, Settled, priors
<1>10. CASE Idle \/ UNCHANGED vars
  BY <1>0, <1>10 DEF Idle, vars, Quiet, Settled, priors
<1> QED
  BY <1>1, <1>2, <1>3, <1>4, <1>5, <1>6, <1>7, <1>8, <1>9, <1>10
     DEF Next, Loop, WaitTask, Environment, Update

(* What an update does to the responses, whatever it is. *)
LEMMA UpdateSays ==
  ASSUME TypeOK, PrimaciesDiffer(model), Update
  PROVE  /\ \E events : Receive(model', events)
         /\ SameIntervals(model, model')
         /\ out' \in Seq(StatusChanged)
         /\ PrimaciesDiffer(model')
         /\ NoneEarly(model', out', now)
<1> USE SchedulerAssumption
<1>0. IsSep2Model(model)
  BY DEF TypeOK, ModelTypeOK
<1>1. (\E events : Receive(model', events)) /\ SameIntervals(model, model')
  BY ReceiveKeeps DEF Update
<1>2. \A n : NoneEarly(n, <<>>, now)
  BY DEF NoneEarly
<1>3. <<>> \in Seq(StatusChanged)
  OBVIOUS
<1>4. CASE ReceiveControlList
  <2>1. PICK l \in ControlLists :
          \E shift \in Draws(l.items) :
            Receive(WithControlList(model, l.program, l.items, shift),
                    ControlListEvents(model, l.items, shift, now))
    BY <1>4 DEF ReceiveControlList
  <2>2. PICK shift \in Draws(l.items) :
          Receive(WithControlList(model, l.program, l.items, shift),
                  ControlListEvents(model, l.items, shift, now))
    BY <2>1
  <2>3. /\ model' = WithControlList(model, l.program, l.items, shift)
        /\ out' = ControlListEvents(model, l.items, shift, now)
    BY <2>2 DEF Receive
  <2>4. l.items \in Seq(DERControl)
        /\ \A i, j \in DOMAIN l.items : l.items[i].mrid = l.items[j].mrid => i = j
    OBVIOUS
  <2>5. out' \in Seq(StatusChanged) /\ NoneEarly(model', out', now)
    BY <1>0, <2>3, <2>4, ListEventsNotEarly
  <2>6. model'.programs = model.programs
    BY <2>3 DEF WithControlList, DropUntracked
  <2> QED
    BY <1>1, <2>5, <2>6 DEF PrimaciesDiffer
<1>5. CASE ReceivePrograms
  <2>1. PICK f \in ProgramLists, rate \in {model.rate, NoRate} :
          Receive(WithPrograms(model, f, rate), <<>>)
    BY <1>5 DEF ReceivePrograms
  <2>2. model' = WithPrograms(model, f, rate) /\ out' = <<>>
    BY <2>1 DEF Receive
  <2>3. PrimaciesDiffer(model')
    BY <2>2 DEF PrimaciesDiffer, WithPrograms, DropUntracked
  <2> QED
    BY <1>1, <1>2, <1>3, <2>2, <2>3
<1>6. CASE ReceiveDefault
  <2>1. PICK d \in Defaults : Receive(WithDefault(model, d.program, d.base), <<>>)
    BY <1>6 DEF ReceiveDefault
  <2>2. model' = WithDefault(model, d.program, d.base) /\ out' = <<>>
    BY <2>1 DEF Receive
  <2>3. PrimaciesDiffer(model')
    BY <2>2 DEF PrimaciesDiffer, WithDefault, DropUntracked
  <2> QED
    BY <1>1, <1>2, <1>3, <2>2, <2>3
<1>7. CASE ReceiveRate
  <2>1. PICK r \in Rate \cup {NoRate} : Receive(WithRate(model, r), <<>>)
    BY <1>7 DEF ReceiveRate
  <2>2. model' = WithRate(model, r) /\ out' = <<>>
    BY <2>1 DEF Receive
  <2>3. PrimaciesDiffer(model')
    BY <2>2 DEF PrimaciesDiffer, WithRate, DropUntracked
  <2> QED
    BY <1>1, <1>2, <1>3, <2>2, <2>3
<1> QED
  BY <1>4, <1>5, <1>6, <1>7 DEF Update

(* Taking the first of some responses. *)
LEMMA TakeFirst ==
  ASSUME NEW s \in Seq(StatusChanged), s # <<>>
  PROVE  /\ Head(s) \in StatusChanged /\ Head(s) = s[1] /\ 1 \in DOMAIN s
         /\ Tail(s) \in Seq(StatusChanged)
         /\ \A i \in DOMAIN Tail(s) : i + 1 \in DOMAIN s /\ Tail(s)[i] = s[i + 1]
         /\ \A i \in DOMAIN s : i # 1 => i - 1 \in DOMAIN Tail(s) /\ Tail(s)[i - 1] = s[i]
         /\ Range(Tail(s)) \subseteq Range(s)
<1>1. /\ Head(s) \in StatusChanged /\ Head(s) = s[1] /\ 1 \in DOMAIN s
      /\ Tail(s) \in Seq(StatusChanged)
  OBVIOUS
<1>2. \A i \in DOMAIN Tail(s) : i + 1 \in DOMAIN s /\ Tail(s)[i] = s[i + 1]
  OBVIOUS
<1>3. ASSUME NEW i \in DOMAIN s, i # 1
      PROVE  i - 1 \in DOMAIN Tail(s) /\ Tail(s)[i - 1] = s[i]
  BY <1>3
<1> QED
  BY <1>1, <1>2, <1>3 DEF Range

(* Emitting a response adds it to those of its control. *)
LEMMA AcknowledgeAdds ==
  ASSUME acks \in [MRID -> SUBSET ResponseStatus], NEW e \in StatusChanged, Acknowledge(e)
  PROVE  /\ acks' \in [MRID -> SUBSET ResponseStatus]
         /\ \A c \in MRID : acks'[c] = IF c = e.subject THEN acks[c] \cup {e.status} ELSE acks[c]
<1>1. e.subject \in MRID /\ e.status \in ResponseStatus
  BY DEF StatusChanged
<1> QED
  BY <1>1 DEF Acknowledge

(* Nothing is emitted, held or announced at first. *)
LEMMA ResponseTypeInit == Init => ResponseTypeInv
<1> SUFFICES ASSUME Init PROVE ResponseTypeInv
  OBVIOUS
<1>1. acks \in [MRID -> SUBSET ResponseStatus]
  BY DEF Init
<1>2. out = <<>> /\ wait.events = <<>> /\ priorEvents = <<>>
  BY DEF Init, NoWait
<1>3. <<>> \in Seq(StatusChanged)
  OBVIOUS
<1>4. PrimaciesDiffer(model) /\ disk = NoFile
  BY DEF Init, PrimaciesDiffer, EmptyModel
<1> QED
  BY <1>1, <1>2, <1>3, <1>4 DEF ResponseTypeInv

(* Every step keeps the types, and empties `out` before it leaves `emit`. *)
LEMMA ResponseTypeStep == TypeOK /\ ResponseTypeInv /\ [Next]_vars => ResponseTypeInv'
<1> SUFFICES ASSUME TypeOK, ResponseTypeInv, [Next]_vars
             PROVE  ResponseTypeInv'
  OBVIOUS
<1>1. CASE Update
  <2>1. PICK events : Receive(model', events)
    BY <1>1, UpdateSays DEF ResponseTypeInv
  <2>2. UNCHANGED <<acks, wait, priorEvents, disk>> /\ pc' = "emit"
    BY <2>1 DEF Receive, priors
  <2> QED
    BY <1>1, <2>2, UpdateSays DEF ResponseTypeInv
<1>2. CASE BroadcastEvent
  <2>1. /\ out # <<>> /\ out' = Tail(out) /\ Acknowledge(Head(out))
        /\ UNCHANGED <<wait, priorEvents, model, disk, pc>> /\ pc = "emit"
    BY <1>2 DEF BroadcastEvent, priors
  <2>2. Head(out) \in StatusChanged /\ out' \in Seq(StatusChanged)
    BY <2>1, TakeFirst DEF ResponseTypeInv
  <2>3. acks' \in [MRID -> SUBSET ResponseStatus]
    BY <2>1, <2>2, AcknowledgeAdds DEF ResponseTypeInv
  <2> QED
    BY <2>1, <2>2, <2>3 DEF ResponseTypeInv
<1>3. CASE PersistState
  BY <1>3 DEF PersistState, ResponseTypeInv, priors
<1>4. CASE ReplaceWaitTask
  <2>1. /\ wait'.events = NextEvents(model, calcNow) /\ priorEvents' = NextEvents(model, calcNow)
        /\ UNCHANGED <<acks, out, model, disk>> /\ pc # "emit"
    BY <1>4 DEF ReplaceWaitTask
  <2>2. IsSep2Model(model)
    BY DEF TypeOK, ModelTypeOK
  <2>3. NextEvents(model, calcNow) \in Seq(StatusChanged)
    BY <2>2, NextEventsAreDue DEF ResponseTypeInv
  <2> QED
    BY <2>1, <2>3 DEF ResponseTypeInv
<1>5. CASE WaitBroadcast
  <2>1. /\ wait.events # <<>> /\ wait'.events = Tail(wait.events)
        /\ Acknowledge(Head(wait.events))
        /\ UNCHANGED <<out, priorEvents, model, disk, pc>>
    BY <1>5 DEF WaitBroadcast, priors
  <2>2. Head(wait.events) \in StatusChanged /\ wait'.events \in Seq(StatusChanged)
    BY <2>1, TakeFirst DEF ResponseTypeInv
  <2>3. acks' \in [MRID -> SUBSET ResponseStatus]
    BY <2>1, <2>2, AcknowledgeAdds DEF ResponseTypeInv
  <2> QED
    BY <2>1, <2>2, <2>3 DEF ResponseTypeInv
<1>6. CASE CrashAndRestart
  <2>1. /\ out' = <<>> /\ wait'.events = <<>> /\ priorEvents' = <<>>
        /\ UNCHANGED <<acks, disk>> /\ model' = IF disk = NoFile THEN EmptyModel ELSE disk
    BY <1>6 DEF CrashAndRestart, NoWait
  <2>2. PrimaciesDiffer(model')
    BY <2>1 DEF ResponseTypeInv, PrimaciesDiffer, EmptyModel
  <2>3. <<>> \in Seq(StatusChanged)
    OBVIOUS
  <2> QED
    BY <2>1, <2>2, <2>3 DEF ResponseTypeInv
<1>7. CASE Quiet
  BY <1>7 DEF Quiet, ResponseTypeInv
<1> QED
  BY <1>1, <1>2, <1>3, <1>4, <1>5, <1>6, <1>7, ResponseSteps


-----------------------------------------------------------------------------
(* What the wait task holds, and when it is sent. *)

(* At first there is no prediction. *)
LEMMA PredictionInit == Init => PredictionInv
<1> SUFFICES ASSUME Init PROVE PredictionInv
  OBVIOUS
<1>1. wait.events = <<>> /\ priorEvents = <<>> /\ calcNow = NoTime
  BY DEF Init, NoWait
<1> QED
  BY <1>1 DEF PredictionInv, Settled

(* The wait task is replaced together with the prediction it was made from,  *)
(* and sends its responses from the front.                                   *)
LEMMA PredictionStep ==
  TypeOK /\ ResponseTypeInv /\ PredictionInv /\ [Next]_vars => PredictionInv'
<1> SUFFICES ASSUME TypeOK, ResponseTypeInv, PredictionInv, [Next]_vars
             PROVE  PredictionInv'
  OBVIOUS
<1>1. CASE Update
  <2>1. PICK events : Receive(model', events)
    BY <1>1, UpdateSays DEF ResponseTypeInv
  <2>2. UNCHANGED <<wait, priorEvents, calcNow>> /\ pc' = "emit"
    BY <2>1 DEF Receive, priors
  <2> QED
    BY <2>2 DEF PredictionInv, Settled
<1>2. CASE BroadcastEvent
  BY <1>2 DEF BroadcastEvent, PredictionInv, Settled, priors
<1>3. CASE PersistState
  BY <1>3 DEF PersistState, PredictionInv, Settled, priors
<1>4. CASE ReplaceWaitTask
  <2>1. /\ wait'.events = NextEvents(model, calcNow) /\ priorEvents' = NextEvents(model, calcNow)
        /\ model' = model /\ calcNow' = calcNow /\ pc = "replace"
    BY <1>4 DEF ReplaceWaitTask
  <2>2. calcNow # NoTime
    BY <2>1 DEF TypeOK, LoopTypeOK
  <2> QED
    BY <2>1, <2>2 DEF PredictionInv
<1>5. CASE WaitBroadcast
  <2>1. /\ wait.events # <<>> /\ wait'.events = Tail(wait.events)
        /\ UNCHANGED <<priorEvents, model, pc, calcNow>>
    BY <1>5 DEF WaitBroadcast, priors
  <2>2. Range(wait'.events) \subseteq Range(wait.events)
    BY <2>1, TakeFirst DEF ResponseTypeInv
  <2> QED
    BY <2>1, <2>2 DEF PredictionInv, Settled
<1>6. CASE CrashAndRestart
  <2>1. wait'.events = <<>> /\ priorEvents' = <<>> /\ calcNow' = NoTime
    BY <1>6 DEF CrashAndRestart, NoWait
  <2> QED
    BY <2>1 DEF PredictionInv, Settled
<1>7. CASE Quiet
  <2>1. /\ wait'.events = wait.events /\ priorEvents' = priorEvents /\ model' = model
        /\ Settled' => calcNow' = calcNow /\ (Settled \/ priorEvents = NextEvents(model, calcNow))
        /\ calcNow' = NoTime => calcNow = NoTime
    BY <1>7 DEF Quiet
  <2> QED
    BY <2>1 DEF PredictionInv
<1> QED
  BY <1>1, <1>2, <1>3, <1>4, <1>5, <1>6, <1>7, ResponseSteps

(* While the loop waits, what the wait task holds is due at its time. *)
LEMMA HeldAreDue ==
  ASSUME SchedulingInv, ResponseTypeInv, PredictionInv, Settled
  PROVE  \A i \in DOMAIN wait.events :
           wait.events[i] \in ResponsesDue(model, calcNow, wait.time)
<1>1. IsSep2Model(model)
  BY DEF SchedulingInv, TypeOK, ModelTypeOK
<1>2. wait.time = NextTime(model, calcNow)
  BY DEF SchedulingInv, PredictedInv
<1>3. Range(wait.events) \subseteq Range(NextEvents(model, calcNow))
  BY DEF PredictionInv
<1>4. \A e \in Range(NextEvents(model, calcNow)) :
        e \in ResponsesDue(model, calcNow, NextTime(model, calcNow))
  BY <1>1, NextEventsAreDue DEF ResponseTypeInv
<1>5. \A i \in DOMAIN wait.events : wait.events[i] \in Range(wait.events)
  BY DEF Range
<1> QED
  BY <1>2, <1>3, <1>4, <1>5

(* No response is held at first. *)
LEMMA EarlyInit == Init => EarlyInv
<1> SUFFICES ASSUME Init PROVE EarlyInv
  OBVIOUS
<1>1. wait.events = <<>> /\ out = <<>>
  BY DEF Init, NoWait
<1> QED
  BY <1>1 DEF EarlyInv, Timely, NoneEarly

(* An update leaves the intervals alone, and it finds in the wait task only  *)
(* responses of controls it knows: one that is dropped and listed again gets *)
(* a new interval, but by then the old responses are gone.                   *)
LEMMA EarlyStep ==
  SchedulingInv /\ ResponseTypeInv /\ PredictionInv /\ EarlyInv /\ [Next]_vars => EarlyInv'
<1> SUFFICES ASSUME SchedulingInv, ResponseTypeInv, PredictionInv, EarlyInv, [Next]_vars
             PROVE  Timely(model, wait.events, wait.time)' /\ NoneEarly(model, out, now)'
  BY DEF EarlyInv
<1>0. TypeOK /\ IsSep2Model(model)
  BY DEF SchedulingInv, TypeOK, ModelTypeOK
<1>1. CASE Update
  <2>1. PICK events : Receive(model', events)
    BY <1>0, <1>1, UpdateSays DEF ResponseTypeInv
  <2>2. UNCHANGED <<wait, now>> /\ pc = "recv"
    BY <2>1 DEF Receive
  <2>3. SameIntervals(model, model') /\ NoneEarly(model', out', now)
    BY <1>0, <1>1, UpdateSays DEF ResponseTypeInv
  <2>4. CASE calcNow = NoTime
    <3>1. Range(wait.events) = {}
      BY <2>4 DEF PredictionInv, Range
    <3>2. DOMAIN wait.events = {}
      BY <3>1 DEF Range
    <3> QED
      BY <2>2, <2>3, <3>2 DEF Timely
  <2>5. CASE calcNow # NoTime
    <3>1. Settled
      BY <2>2, <2>5 DEF Settled
    <3>2. ASSUME NEW i \in DOMAIN wait.events
          PROVE  /\ wait.events[i].subject \in DOMAIN model.controls
                 /\ \/ /\ wait.events[i].status = "EventStarted"
                       /\ model.controls[wait.events[i].subject].start = wait.time
                    \/ /\ wait.events[i].status = "EventCompleted"
                       /\ model.controls[wait.events[i].subject].end = wait.time
      BY <1>0, <3>1, HeldAreDue, DueIsTimely
    <3>3. Timely(model', wait.events, wait.time)
      BY <2>3, <3>2 DEF Timely, SameIntervals
    <3> QED
      BY <2>2, <2>3, <3>3
  <2> QED
    BY <2>4, <2>5
<1>2. CASE BroadcastEvent
  <2>1. out # <<>> /\ out' = Tail(out) /\ UNCHANGED <<wait, model, now>>
    BY <1>2 DEF BroadcastEvent
  <2>2. \A i \in DOMAIN out' : i + 1 \in DOMAIN out /\ out'[i] = out[i + 1]
    BY <2>1, TakeFirst DEF ResponseTypeInv
  <2> QED
    BY <2>1, <2>2 DEF EarlyInv, Timely, NoneEarly
<1>3. CASE PersistState
  BY <1>3 DEF PersistState, EarlyInv
<1>4. CASE ReplaceWaitTask
  <2>1. /\ wait'.events = NextEvents(model, calcNow) /\ wait'.time = NextTime(model, calcNow)
        /\ UNCHANGED <<out, model, now>>
    BY <1>4 DEF ReplaceWaitTask
  <2>2. \A e \in Range(NextEvents(model, calcNow)) :
          e \in ResponsesDue(model, calcNow, NextTime(model, calcNow))
    BY <1>0, NextEventsAreDue DEF ResponseTypeInv
  <2>3. \A i \in DOMAIN wait'.events :
          wait'.events[i] \in ResponsesDue(model, calcNow, wait'.time)
    BY <2>1, <2>2 DEF Range
  <2>4. Timely(model, wait'.events, wait'.time)
    BY <1>0, <2>3, DueIsTimely DEF Timely
  <2> QED
    BY <2>1, <2>4 DEF EarlyInv
<1>5. CASE WaitBroadcast
  <2>1. /\ wait.events # <<>> /\ wait'.events = Tail(wait.events) /\ wait'.time = wait.time
        /\ UNCHANGED <<out, model, now>>
    BY <1>5 DEF WaitBroadcast
  <2>2. \A i \in DOMAIN wait'.events :
          i + 1 \in DOMAIN wait.events /\ wait'.events[i] = wait.events[i + 1]
    BY <2>1, TakeFirst DEF ResponseTypeInv
  <2> QED
    BY <2>1, <2>2 DEF EarlyInv, Timely
<1>6. CASE CrashAndRestart
  <2>1. wait'.events = <<>> /\ out' = <<>>
    BY <1>6 DEF CrashAndRestart, NoWait
  <2> QED
    BY <2>1 DEF Timely, NoneEarly
<1>7. CASE Quiet
  <2>1. /\ wait'.events = wait.events /\ wait'.time = wait.time
        /\ UNCHANGED <<out, model>> /\ now <= now'
    BY <1>7 DEF Quiet
  <2>2. now \in Int /\ now' \in Int
    BY <1>0, TypeStep, SchedulerAssumption DEF TypeOK, LoopTypeOK
  <2>3. \A c \in DOMAIN model.controls : model.controls[c].start \in Int
    BY <1>0, ModelIsTimed DEF Timed
  <2>4. NoneEarly(model, out, now')
    BY <2>1, <2>2, <2>3 DEF EarlyInv, NoneEarly
  <2> QED
    BY <2>1, <2>4 DEF EarlyInv
<1> QED
  BY <1>0, <1>1, <1>2, <1>3, <1>4, <1>5, <1>6, <1>7, ResponseSteps

(* The inductive invariant of the two results below. *)
ResponseInv == SchedulingInv /\ ResponseTypeInv /\ PredictionInv /\ EarlyInv

(* The three together, as an invariant. *)
LEMMA ResponsesHold == Spec => []ResponseInv
<1>1. Init => ResponseInv
  BY SchedulingInit, ResponseTypeInit, PredictionInit, EarlyInit DEF ResponseInv
<1>2. ResponseInv /\ [Next]_vars => ResponseInv'
  BY SchedulingStep, ResponseTypeStep, PredictionStep, EarlyStep
     DEF ResponseInv, SchedulingInv
<1> QED
  BY <1>1, <1>2, PTL DEF Spec

(* While the loop waits for a command, the wait task holds only responses    *)
(* that are due by the model as it stands: calc_next_schedule_time's         *)
(* prediction is what keeps the old task or replaces it.                     *)
THEOREM ResponsesNeverStale == Spec => []NoStaleResponses
<1>1. ResponseInv => NoStaleResponses
  BY HeldAreDue DEF ResponseInv, NoStaleResponses
<1> QED
  BY <1>1, ResponsesHold, PTL

(* Neither the loop nor the wait task reports a start or an end before the   *)
(* realised time, whatever was cancelled, dropped or listed again meanwhile. *)
THEOREM ResponsesNeverEarly == Spec => NeverEarly
<1>1. ResponseInv /\ [Next]_vars =>
        [\A c \in DOMAIN model.controls :
           /\ "EventStarted" \in acks'[c] \ acks[c] => model.controls[c].start <= now
           /\ "EventCompleted" \in acks'[c] \ acks[c] => model.controls[c].end <= now]_vars
  <2> SUFFICES ASSUME ResponseInv, Next, NEW c \in DOMAIN model.controls
               PROVE  /\ "EventStarted" \in acks'[c] \ acks[c] => model.controls[c].start <= now
                      /\ "EventCompleted" \in acks'[c] \ acks[c] => model.controls[c].end <= now
    OBVIOUS
  <2>0. /\ SchedulingInv /\ TypeOK /\ ResponseTypeInv /\ EarlyInv
        /\ c \in MRID /\ acks \in [MRID -> SUBSET ResponseStatus]
    BY DEF ResponseInv, SchedulingInv, TypeOK, ModelTypeOK, IsSep2Model, IsPartialFunction,
           ResponseTypeInv
  <2>1. CASE BroadcastEvent
    <3>1. out # <<>> /\ Acknowledge(Head(out))
      BY <2>1 DEF BroadcastEvent
    <3>2. Head(out) \in StatusChanged /\ Head(out) = out[1] /\ 1 \in DOMAIN out
      BY <2>0, <3>1, TakeFirst DEF ResponseTypeInv
    <3>3. acks'[c] = IF c = Head(out).subject THEN acks[c] \cup {Head(out).status} ELSE acks[c]
      BY <2>0, <3>1, <3>2, AcknowledgeAdds
    <3> QED
      BY <2>0, <3>2, <3>3 DEF EarlyInv, NoneEarly
  <2>2. CASE WaitBroadcast
    <3>1. wait.state = "send" /\ wait.events # <<>> /\ Acknowledge(Head(wait.events))
      BY <2>2 DEF WaitBroadcast
    <3>2. /\ Head(wait.events) \in StatusChanged /\ Head(wait.events) = wait.events[1]
          /\ 1 \in DOMAIN wait.events
      BY <2>0, <3>1, TakeFirst DEF ResponseTypeInv
    <3>3. acks'[c] = IF c = Head(wait.events).subject
                     THEN acks[c] \cup {Head(wait.events).status} ELSE acks[c]
      BY <2>0, <3>1, <3>2, AcknowledgeAdds
    <3>4. wait.time # NoTime => wait.time <= now
      BY <2>0, <3>1 DEF SchedulingInv, WaitInv
    <3>5. /\ model.controls[c].start \in Int /\ model.controls[c].end \in Int
      BY <2>0, ModelIsTimed DEF TypeOK, ModelTypeOK, Timed
    <3> QED
      BY <2>0, <3>2, <3>3, <3>4, <3>5, NoTimeAssumption DEF EarlyInv, Timely
  <2>3. CASE acks' = acks
    BY <2>3
  <2>4. Update => acks' = acks
    BY <2>0, UpdateSays DEF ResponseTypeInv, Receive
  <2>5. PersistState \/ ReplaceWaitTask \/ CrashAndRestart \/ Quiet => acks' = acks
    BY DEF PersistState, ReplaceWaitTask, CrashAndRestart, Quiet
  <2> QED
    BY <2>0, <2>1, <2>2, <2>3, <2>4, <2>5, ResponseSteps
<1> QED
  BY <1>1, ResponsesHold, PTL DEF Spec, NeverEarly


-----------------------------------------------------------------------------
(* A control is acknowledged before it is reported started. *)

(* Only control lists bring documents, and each is reported as it comes. *)
LEMMA UpdateReceives ==
  ASSUME RequirementsStay(ControlLists), TypeOK, PrimaciesDiffer(model), Served(model), Update
  PROVE  /\ Served(model')
         /\ \A c \in DOMAIN model'.controls : c \notin DOMAIN model.controls /\ Asks(c) =>
              Response(c, "EventReceived") \in Range(out')
         /\ \A i \in DOMAIN out' : Started(out', i) => Heralded(out', i)
<1> USE SchedulerAssumption
<1>0. IsSep2Model(model)
  BY DEF TypeOK, ModelTypeOK
<1>1. CASE ReceiveControlList
  <2>1. PICK l \in ControlLists :
          \E shift \in Draws(l.items) :
            Receive(WithControlList(model, l.program, l.items, shift),
                    ControlListEvents(model, l.items, shift, now))
    BY <1>1 DEF ReceiveControlList
  <2>2. PICK shift \in Draws(l.items) :
          Receive(WithControlList(model, l.program, l.items, shift),
                  ControlListEvents(model, l.items, shift, now))
    BY <2>1
  <2>3. /\ model' = WithControlList(model, l.program, l.items, shift)
        /\ out' = ControlListEvents(model, l.items, shift, now)
    BY <2>2 DEF Receive
  <2>4. PICK items \in Seq(DERControl) : items = l.items
    OBVIOUS
  <2>5. \A i, j \in DOMAIN items : items[i].mrid = items[j].mrid => i = j
    BY <2>4
  <2>6. shift \in Draws(items) /\ out' = ControlListEvents(model, items, shift, now)
    BY <2>3, <2>4
  <2>7. /\ \A i \in DOMAIN out' : Started(out', i) => Heralded(out', i)
        /\ \A c \in MRIDs(items) : c \notin DOMAIN model.controls /\ Asks(c) =>
             Response(c, "EventReceived") \in Range(out')
    BY <1>0, <2>4, <2>5, <2>6, ListEventsHeralded
  <2>8. ASSUME NEW c \in DOMAIN model'.controls
        PROVE  /\ c \in DOMAIN model.controls \cup MRIDs(items)
               /\ \E k \in ControlLists : \E i \in DOMAIN k.items :
                    k.items[i] = model'.controls[c].der_control /\ k.items[i].mrid = c
    <3>1. /\ c \in DOMAIN model.controls \cup MRIDs(items)
          /\ model'.controls[c].der_control =
               IF c \in MRIDs(items) THEN Incoming(items, c) ELSE model.controls[c].der_control
      BY <1>0, <2>3, <2>4, ListedControl
    <3>2. CASE c \in MRIDs(items)
      <4>1. PICK i \in DOMAIN items : items[i].mrid = c
        BY <3>2 DEF MRIDs
      <4>2. Incoming(items, c) = items[i]
        BY <2>5, <4>1, IncomingIs
      <4> QED
        BY <2>4, <3>1, <3>2, <4>1, <4>2
    <3>3. CASE c \notin MRIDs(items)
      BY <3>1, <3>3 DEF Served
    <3> QED
      BY <3>2, <3>3
  <2> QED
    BY <2>7, <2>8 DEF Served
<1>2. ASSUME out' = <<>>, NEW n, model' = DropUntracked(n), n.controls = model.controls
      PROVE  /\ Served(model')
             /\ DOMAIN model'.controls \subseteq DOMAIN model.controls /\ DOMAIN out' = {}
  BY <1>2 DEF Served, DropUntracked, Listed
<1>3. CASE ReceivePrograms
  <2>1. PICK f \in ProgramLists, rate \in {model.rate, NoRate} :
          Receive(WithPrograms(model, f, rate), <<>>)
    BY <1>3 DEF ReceivePrograms
  <2>2. model' = WithPrograms(model, f, rate) /\ out' = <<>>
    BY <2>1 DEF Receive
  <2>3. PICK n : model' = DropUntracked(n) /\ n.controls = model.controls
    BY <2>2 DEF WithPrograms
  <2> QED
    BY <1>2, <2>2, <2>3
<1>4. CASE ReceiveDefault
  <2>1. PICK d \in Defaults : Receive(WithDefault(model, d.program, d.base), <<>>)
    BY <1>4 DEF ReceiveDefault
  <2>2. model' = WithDefault(model, d.program, d.base) /\ out' = <<>>
    BY <2>1 DEF Receive
  <2> DEFINE n == [programs |-> model.programs, lists |-> model.lists,
                   controls |-> model.controls,
                   defaults |-> [q \in DOMAIN model.defaults \cup {d.program} |->
                                   IF q = d.program THEN d.base ELSE model.defaults[q]],
                   rate |-> model.rate]
  <2>3. model' = DropUntracked(n)
    BY <2>2 DEF WithDefault
  <2>4. n.controls = model.controls
    OBVIOUS
  <2> HIDE DEF n
  <2> QED
    BY <1>2, <2>2, <2>3, <2>4
<1>5. CASE ReceiveRate
  <2>1. PICK r \in Rate \cup {NoRate} : Receive(WithRate(model, r), <<>>)
    BY <1>5 DEF ReceiveRate
  <2>2. model' = WithRate(model, r) /\ out' = <<>>
    BY <2>1 DEF Receive
  <2>3. PICK n : model' = DropUntracked(n) /\ n.controls = model.controls
    BY <2>2 DEF WithRate
  <2> QED
    BY <1>2, <2>2, <2>3
<1> QED
  BY <1>1, <1>3, <1>4, <1>5 DEF Update

(* What was emitted stays emitted. *)
LEMMA AcksGrow ==
  ASSUME TypeOK, ResponseTypeInv, [Next]_vars
  PROVE  \A c \in MRID : acks[c] \subseteq acks'[c]
<1>0. acks \in [MRID -> SUBSET ResponseStatus]
  BY DEF ResponseTypeInv
<1>1. CASE BroadcastEvent
  <2>1. out # <<>> /\ Acknowledge(Head(out))
    BY <1>1 DEF BroadcastEvent
  <2> QED
    BY <1>0, <2>1, TakeFirst, AcknowledgeAdds DEF ResponseTypeInv
<1>2. CASE WaitBroadcast
  <2>1. wait.events # <<>> /\ Acknowledge(Head(wait.events))
    BY <1>2 DEF WaitBroadcast
  <2> QED
    BY <1>0, <2>1, TakeFirst, AcknowledgeAdds DEF ResponseTypeInv
<1>3. Update => acks' = acks
  BY UpdateSays DEF ResponseTypeInv, Receive
<1>4. PersistState \/ ReplaceWaitTask \/ CrashAndRestart \/ Quiet => acks' = acks
  BY DEF PersistState, ReplaceWaitTask, CrashAndRestart, Quiet
<1> QED
  BY <1>1, <1>2, <1>3, <1>4, ResponseSteps

(* No control is known at first, in memory or in the file. *)
LEMMA ReceiptInit == Init => ReceiptInv
<1> SUFFICES ASSUME Init PROVE ReceiptInv
  OBVIOUS
<1>1. /\ out = <<>> /\ wait.events = <<>> /\ disk = NoFile
      /\ model = EmptyModel /\ acks = [c \in MRID |-> {}]
  BY DEF Init, NoWait
<1>2. DOMAIN EmptyModel.controls = {}
  BY DEF EmptyModel
<1> QED
  BY <1>1, <1>2 DEF ReceiptInv, Served, KnownReceived, StoredReceived, HeldHeralded,
                    OutHeralded, StartedReceived


(* A response is about a control. *)
LEMMA SubjectsAreKnown ==
  ASSUME NEW s \in Seq(StatusChanged)
  PROVE  \A i \in DOMAIN s : s[i].subject \in MRID
<1>1. \A i \in DOMAIN s : s[i] \in StatusChanged
  OBVIOUS
<1> QED
  BY <1>1 DEF StatusChanged

(* A control becomes known with its acknowledgement among the responses to   *)
(* broadcast, ahead of its start; the file is written, and the wait task     *)
(* replaced, only when those are out.                                        *)
LEMMA ReceiptStep ==
  ASSUME RequirementsStay(ControlLists), SchedulingInv, ResponseTypeInv, ReceiptInv, [Next]_vars
  PROVE  ReceiptInv'
<1>0. /\ TypeOK /\ PrimaciesDiffer(model) /\ Served(model) /\ (disk # NoFile => Served(disk))
      /\ KnownReceived /\ StoredReceived /\ HeldHeralded /\ OutHeralded /\ StartedReceived
      /\ acks \in [MRID -> SUBSET ResponseStatus]
      /\ out \in Seq(StatusChanged) /\ wait.events \in Seq(StatusChanged)
      /\ pc # "emit" => out = <<>>
  BY DEF SchedulingInv, ResponseTypeInv, ReceiptInv
<1>1. IsSep2Model(model) /\ (disk # NoFile => IsSep2Model(disk))
  BY <1>0 DEF TypeOK, ModelTypeOK
<1>2. \A c \in DOMAIN model.controls : c \in MRID
  BY <1>1 DEF IsSep2Model, IsPartialFunction
<1>3. disk # NoFile => \A c \in DOMAIN disk.controls : c \in MRID
  BY <1>1 DEF IsSep2Model, IsPartialFunction
<1>4. \A c \in MRID : acks[c] \subseteq acks'[c]
  BY <1>0, AcksGrow
<1>5. \A i \in DOMAIN wait.events : wait.events[i].subject \in MRID
  BY <1>0, SubjectsAreKnown
<1>6. \A i \in DOMAIN out : out[i].subject \in MRID
  BY <1>0, SubjectsAreKnown
<1>7. out = <<>> =>
        \A c \in DOMAIN model.controls : Asks(c) => "EventReceived" \in acks[c]
  BY <1>0 DEF KnownReceived, Range
<1>8. CASE Update
  <2>1. /\ UNCHANGED <<acks, wait, disk>> /\ out = <<>>
    <3>1. PICK events : Receive(model', events)
      BY <1>0, <1>8, UpdateSays
    <3> QED
      BY <1>0, <3>1 DEF Receive
  <2>2. /\ Served(model')
        /\ \A c \in DOMAIN model'.controls : c \notin DOMAIN model.controls /\ Asks(c) =>
             Response(c, "EventReceived") \in Range(out')
        /\ \A i \in DOMAIN out' : Started(out', i) => Heralded(out', i)
    BY <1>0, <1>8, UpdateReceives
  <2>3. KnownReceived'
    BY <1>7, <2>1, <2>2 DEF KnownReceived
  <2>4. StoredReceived' /\ HeldHeralded' /\ StartedReceived'
    BY <1>0, <2>1 DEF StoredReceived, HeldHeralded, StartedReceived
  <2>5. OutHeralded'
    BY <2>2 DEF OutHeralded
  <2> QED
    BY <1>0, <2>1, <2>2, <2>3, <2>4, <2>5 DEF ReceiptInv
<1>9. CASE BroadcastEvent
  <2>1. /\ out # <<>> /\ out' = Tail(out) /\ Acknowledge(Head(out))
        /\ UNCHANGED <<wait, model, disk>>
    BY <1>9 DEF BroadcastEvent
  <2>2. PICK e \in StatusChanged : e = Head(out) /\ e = out[1] /\ 1 \in DOMAIN out
    BY <1>0, <2>1, TakeFirst
  <2>3. \A c \in MRID : acks'[c] = IF c = e.subject THEN acks[c] \cup {e.status} ELSE acks[c]
    BY <1>0, <2>1, <2>2, AcknowledgeAdds
  <2>4. /\ \A i \in DOMAIN out' : i + 1 \in DOMAIN out /\ out'[i] = out[i + 1]
        /\ \A i \in DOMAIN out : i # 1 => i - 1 \in DOMAIN out' /\ out'[i - 1] = out[i]
    BY <1>0, <2>1, TakeFirst
  <2>5. ASSUME NEW c \in MRID, NEW i \in DOMAIN out, out[i] = Response(c, "EventReceived")
        PROVE  "EventReceived" \in acks'[c] \/ (i # 1 /\ out'[i - 1] = Response(c, "EventReceived"))
    <3>1. CASE i = 1
      <4>1. e.subject = c /\ e.status = "EventReceived"
        BY <2>2, <2>5, <3>1 DEF Response
      <4> QED
        BY <2>3, <4>1
    <3>2. CASE i # 1
      BY <2>4, <2>5, <3>2
    <3> QED
      BY <3>1, <3>2
  <2>6. KnownReceived'
    <3> SUFFICES ASSUME NEW c \in DOMAIN model.controls, Asks(c)
                 PROVE  "EventReceived" \in acks'[c] \/ Response(c, "EventReceived") \in Range(out')
      BY <2>1 DEF KnownReceived
    <3>1. CASE "EventReceived" \in acks[c]
      BY <1>2, <1>4, <3>1
    <3>2. CASE Response(c, "EventReceived") \in Range(out)
      <4>1. PICK i \in DOMAIN out : out[i] = Response(c, "EventReceived")
        BY <3>2 DEF Range
      <4>2. "EventReceived" \in acks'[c]
              \/ (i # 1 /\ out'[i - 1] = Response(c, "EventReceived"))
        BY <1>2, <2>5, <4>1
      <4> QED
        BY <2>4, <4>2 DEF Range
    <3> QED
      BY <1>0, <3>1, <3>2 DEF KnownReceived
  <2>7. StoredReceived' /\ HeldHeralded'
    BY <1>0, <1>3, <1>4, <1>5, <2>1 DEF StoredReceived, HeldHeralded
  <2>8. OutHeralded'
    <3> SUFFICES ASSUME NEW i \in DOMAIN out', Started(out', i)
                 PROVE  "EventReceived" \in acks'[out'[i].subject] \/ Heralded(out', i)
      BY DEF OutHeralded
    <3>1. i + 1 \in DOMAIN out /\ out'[i] = out[i + 1] /\ i \in Nat
      <4>1. out' \in Seq(StatusChanged)
        BY <1>0, <2>1, TakeFirst
      <4>2. i \in Nat
        BY <4>1
      <4> QED
        BY <2>4, <4>2
    <3>2. PICK c \in MRID : c = out'[i].subject /\ c = out[i + 1].subject
      BY <1>6, <3>1
    <3>3. Started(out, i + 1)
      BY <3>1 DEF Started
    <3>4. CASE "EventReceived" \in acks[c]
      BY <1>4, <3>2, <3>4
    <3>5. CASE Heralded(out, i + 1)
      <4>1. PICK j \in 1 .. i : out[j] = Response(c, "EventReceived")
        <5>1. (i + 1) - 1 = i
          BY <3>1
        <5> QED
          BY <3>2, <3>5, <5>1 DEF Heralded
      <4>2. j \in DOMAIN out
        BY <1>0, <3>1
      <4>3. "EventReceived" \in acks'[c]
              \/ (j # 1 /\ out'[j - 1] = Response(c, "EventReceived"))
        BY <2>5, <4>1, <4>2
      <4>4. j # 1 => j - 1 \in 1 .. i - 1
        BY <3>1
      <4> QED
        BY <3>2, <4>3, <4>4 DEF Heralded
    <3> QED
      BY <1>0, <3>1, <3>2, <3>3, <3>4, <3>5 DEF OutHeralded
  <2>9. StartedReceived'
    <3> SUFFICES ASSUME NEW c \in MRID, "EventStarted" \in acks'[c], Asks(c)
                 PROVE  "EventReceived" \in acks'[c]
      BY DEF StartedReceived
    <3>1. CASE "EventStarted" \in acks[c]
      BY <1>0, <1>4, <3>1 DEF StartedReceived
    <3>2. CASE "EventStarted" \notin acks[c]
      <4>1. e.subject = c /\ e.status = "EventStarted"
        BY <2>3, <3>2
      <4>2. ~Heralded(out, 1)
        BY DEF Heralded
      <4>3. Started(out, 1) /\ out[1].subject = c
        BY <2>2, <4>1 DEF Started
      <4>4. "EventReceived" \in acks[c]
        BY <1>0, <2>2, <4>2, <4>3 DEF OutHeralded
      <4> QED
        BY <1>4, <4>4
    <3> QED
      BY <3>1, <3>2
  <2> QED
    BY <1>0, <2>1, <2>6, <2>7, <2>8, <2>9 DEF ReceiptInv
<1>10. CASE PersistState
  <2>1. /\ UNCHANGED <<acks, wait, out, model>> /\ out = <<>> /\ (disk' = model \/ disk' = disk)
    BY <1>10 DEF PersistState
  <2>2. KnownReceived' /\ HeldHeralded' /\ OutHeralded' /\ StartedReceived'
    BY <1>0, <2>1 DEF KnownReceived, HeldHeralded, OutHeralded, StartedReceived
  <2>3. StoredReceived'
    BY <1>0, <1>7, <2>1 DEF StoredReceived
  <2> QED
    BY <1>0, <2>1, <2>2, <2>3 DEF ReceiptInv
<1>11. CASE ReplaceWaitTask
  <2>1. /\ UNCHANGED <<acks, out, model, disk>> /\ wait'.events = NextEvents(model, calcNow)
        /\ out = <<>>
    BY <1>0, <1>11 DEF ReplaceWaitTask
  <2>2. KnownReceived' /\ StoredReceived' /\ OutHeralded' /\ StartedReceived'
    BY <1>0, <2>1 DEF KnownReceived, StoredReceived, OutHeralded, StartedReceived
  <2>3. \A x \in Range(NextEvents(model, calcNow)) : x.subject \in DOMAIN model.controls
    BY <1>0, <1>1, NextEventsAreDue, DueIsTimely
  <2>4. HeldHeralded'
    BY <1>7, <2>1, <2>3 DEF HeldHeralded, Started, Range
  <2> QED
    BY <1>0, <2>1, <2>2, <2>4 DEF ReceiptInv
<1>12. CASE WaitBroadcast
  <2>1. /\ wait.events # <<>> /\ wait'.events = Tail(wait.events)
        /\ Acknowledge(Head(wait.events)) /\ UNCHANGED <<out, model, disk>>
    BY <1>12 DEF WaitBroadcast
  <2>2. PICK e \in StatusChanged : e = Head(wait.events) /\ e = wait.events[1]
                                   /\ 1 \in DOMAIN wait.events
    BY <1>0, <2>1, TakeFirst
  <2>3. \A c \in MRID : acks'[c] = IF c = e.subject THEN acks[c] \cup {e.status} ELSE acks[c]
    BY <1>0, <2>1, <2>2, AcknowledgeAdds
  <2>4. \A i \in DOMAIN wait'.events :
          i + 1 \in DOMAIN wait.events /\ wait'.events[i] = wait.events[i + 1]
    BY <1>0, <2>1, TakeFirst
  <2>5. KnownReceived' /\ StoredReceived' /\ OutHeralded'
    BY <1>0, <1>2, <1>3, <1>4, <1>6, <2>1 DEF KnownReceived, StoredReceived, OutHeralded
  <2>6. HeldHeralded'
    BY <1>0, <1>4, <1>5, <2>4 DEF HeldHeralded, Started
  <2>7. StartedReceived'
    <3> SUFFICES ASSUME NEW c \in MRID, "EventStarted" \in acks'[c], Asks(c)
                 PROVE  "EventReceived" \in acks'[c]
      BY DEF StartedReceived
    <3>1. CASE "EventStarted" \in acks[c]
      BY <1>0, <1>4, <3>1 DEF StartedReceived
    <3>2. CASE "EventStarted" \notin acks[c]
      <4>1. e.subject = c /\ e.status = "EventStarted"
        BY <2>3, <3>2
      <4>2. "EventReceived" \in acks[c]
        BY <1>0, <2>2, <4>1 DEF HeldHeralded, Started
      <4> QED
        BY <1>4, <4>2
    <3> QED
      BY <3>1, <3>2
  <2> QED
    BY <1>0, <2>1, <2>5, <2>6, <2>7 DEF ReceiptInv
<1>13. CASE CrashAndRestart
  <2>1. /\ out' = <<>> /\ wait'.events = <<>> /\ UNCHANGED <<acks, disk>>
        /\ model' = IF disk = NoFile THEN EmptyModel ELSE disk
    BY <1>13 DEF CrashAndRestart, NoWait
  <2>2. DOMAIN EmptyModel.controls = {}
    BY DEF EmptyModel
  <2>3. Served(model') /\ KnownReceived'
    BY <1>0, <2>1, <2>2 DEF Served, KnownReceived, StoredReceived
  <2>4. StoredReceived' /\ HeldHeralded' /\ OutHeralded' /\ StartedReceived'
    BY <1>0, <2>1 DEF StoredReceived, HeldHeralded, OutHeralded, StartedReceived
  <2> QED
    BY <1>0, <2>1, <2>3, <2>4 DEF ReceiptInv
<1>14. CASE Quiet
  <2>1. UNCHANGED <<acks, out, model, disk>> /\ wait'.events = wait.events
    BY <1>14 DEF Quiet
  <2> QED
    BY <1>0, <2>1 DEF ReceiptInv, KnownReceived, StoredReceived, HeldHeralded, OutHeralded,
                      StartedReceived
<1> QED
  BY <1>0, <1>8, <1>9, <1>10, <1>11, <1>12, <1>13, <1>14, ResponseSteps

(* A control whose receipt the server asks to have acknowledged is not       *)
(* reported started before that, by whichever task and across restarts -     *)
(* for a server that asks the same of a control in every list.               *)
THEOREM ReceivedBeforeStarted ==
  ASSUME RequirementsStay(ControlLists)
  PROVE  Spec => []ReceivedFirst
<1>1. Init => ResponseInv /\ ReceiptInv
  BY SchedulingInit, ResponseTypeInit, PredictionInit, EarlyInit, ReceiptInit DEF ResponseInv
<1>2. ResponseInv /\ ReceiptInv /\ [Next]_vars => (ResponseInv /\ ReceiptInv)'
  BY SchedulingStep, ResponseTypeStep, PredictionStep, EarlyStep, ReceiptStep
     DEF ResponseInv, SchedulingInv
<1>3. ResponseInv /\ ReceiptInv => ReceivedFirst
  <2> SUFFICES ASSUME ResponseInv, ReceiptInv, NEW c \in DOMAIN model.controls,
                      "EventStarted" \in acks[c],
                      "MessageReceived" \in model.controls[c].der_control.required
               PROVE  "EventReceived" \in acks[c]
    BY DEF ReceivedFirst
  <2>1. c \in MRID
    BY DEF ResponseInv, SchedulingInv, TypeOK, ModelTypeOK, IsSep2Model, IsPartialFunction
  <2>2. Asks(c)
    BY DEF ReceiptInv, Served, Asks
  <2> QED
    BY <2>1, <2>2 DEF ReceiptInv, StartedReceived
<1> QED
  BY <1>1, <1>2, <1>3, PTL DEF Spec


=============================================================================
