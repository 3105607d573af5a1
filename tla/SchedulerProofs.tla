-------------------------- MODULE SchedulerProofs --------------------------
(***************************************************************************)
(* Proofs about Scheduler, for every set of controls, every server and     *)
(* every bound.  The argument: CalcParameters depends on the time only     *)
(* through the set of active controls, and that set changes only at a      *)
(* boundary; the wait task's time is the first boundary after the last     *)
(* calculation, so nothing can have changed before it.                     *)
(***************************************************************************)
EXTENDS Scheduler, WellFoundedInduction, TLAPS

-----------------------------------------------------------------------------
(* Facts about the pure functions of DERControls. *)

(* The intervals of a model are made of integers. *)
Timed(m) ==
  \A c \in DOMAIN m.controls :
    m.controls[c].start \in Int /\ m.controls[c].end \in Int

(* The boundaries lie strictly ahead of the time asked about: the filter of *)
(* calc_next_schedule_time_for_controls is > and not >=.                    *)
LEMMA BoundariesAhead ==
  ASSUME NEW m, NEW t \in Nat, Timed(m)
  PROVE  \A b \in Boundaries(m, t) : b \in Nat /\ t < b
BY DEF Boundaries, Pending, Listed, Timed

(* calc_next_schedule_time returns the earliest boundary when there is one. *)
LEMMA NextTimeIsEarliest ==
  ASSUME NEW m, NEW t \in Nat, Timed(m)
  PROVE  IF Boundaries(m, t) = {} THEN NextTime(m, t) = NoTime
         ELSE /\ NextTime(m, t) \in Boundaries(m, t)
              /\ \A b \in Boundaries(m, t) : NextTime(m, t) <= b
<1>1. CASE Boundaries(m, t) = {}
  BY <1>1 DEF NextTime
<1>2. CASE Boundaries(m, t) # {}
  <2>1. Boundaries(m, t) \subseteq Nat
    BY BoundariesAhead
  <2>2. \E x \in Boundaries(m, t) :
          \A y \in Boundaries(m, t) : ~ (<<y, x>> \in OpToRel(<, Nat))
    BY <1>2, <2>1, WFMin, NatLessThanWellFounded
  <2>3. \A x, y \in Nat : y < x => <<y, x>> \in OpToRel(<, Nat)
    BY DEF OpToRel
  <2>4. \E x \in Boundaries(m, t) : \A y \in Boundaries(m, t) : ~ (y < x)
    BY <2>1, <2>2, <2>3
  <2>5. \E x \in Boundaries(m, t) : \A y \in Boundaries(m, t) : x <= y
    BY <2>1, <2>4
  <2>6. QED
    BY <1>2, <2>5 DEF NextTime
<1>3. QED
  BY <1>1, <1>2

(* With no boundary in (s, t] the same controls are active at s and at t. *)
LEMMA ActiveBetweenBoundaries ==
  ASSUME NEW m, NEW s \in Nat, NEW t \in Nat, Timed(m), s <= t,
         \A b \in Boundaries(m, s) : t < b
  PROVE  Active(m, s) = Active(m, t)
<1>1. ASSUME NEW c \in Active(m, s)
      PROVE  c \in Active(m, t)
  <2>1. c \in Pending(m, s) /\ m.controls[c].start <= s
    BY <1>1 DEF Active
  <2>2. m.controls[c].end \in Boundaries(m, s)
    BY <2>1 DEF Boundaries, Pending
  <2>3. QED
    BY <2>1, <2>2 DEF Active, Pending, Listed, Timed
<1>2. ASSUME NEW c \in Active(m, t)
      PROVE  c \in Active(m, s)
  <2>1. c \in Pending(m, t) /\ m.controls[c].start <= t
    BY <1>2 DEF Active
  <2>2. c \in Pending(m, s)
    BY <2>1 DEF Pending, Listed, Timed
  <2>3. m.controls[c].start > s => m.controls[c].start \in Boundaries(m, s)
    BY <2>2 DEF Boundaries
  <2>4. QED
    BY <2>1, <2>2, <2>3 DEF Active, Pending, Listed, Timed
<1>3. QED
  BY <1>1, <1>2

(* ... and so the same parameters apply. *)
LEMMA ParametersBetweenBoundaries ==
  ASSUME NEW m, NEW s \in Nat, NEW t \in Nat, Timed(m), s <= t,
         \A b \in Boundaries(m, s) : t < b
  PROVE  CalcParameters(m, s) = CalcParameters(m, t)
BY ActiveBetweenBoundaries DEF CalcParameters

(* A model has intervals of integers. *)
LEMMA ModelIsTimed ==
  ASSUME NEW m, IsSep2Model(m)
  PROVE  Timed(m)
BY DEF IsSep2Model, IsPartialFunction, ScheduledControl, Timed

(* The model of a process that found no file. *)
LEMMA EmptyModelType == IsSep2Model(EmptyModel)
<1>1. /\ IsPartialFunction(EmptyModel.programs, Program, Int)
      /\ IsPartialFunction(EmptyModel.controls, MRID, ScheduledControl)
      /\ IsPartialFunction(EmptyModel.defaults, Program, Base)
  BY DEF EmptyModel, IsPartialFunction
<1>2. EmptyModel.lists \in [Program -> Seq(MRID)] /\ EmptyModel.rate = NoRate
  BY DEF EmptyModel
<1>3. QED
  BY <1>1, <1>2 DEF IsSep2Model

(* The document of a list that a control comes from. *)
LEMMA IncomingIsListed ==
  ASSUME NEW items \in Seq(DERControl), NEW c \in MRIDs(items)
  PROVE  /\ Incoming(items, c) \in DERControl
         /\ Incoming(items, c).mrid = c
<1>1. \E i \in DOMAIN items : items[i].mrid = c
  BY DEF MRIDs
<1>2. \A i \in DOMAIN items : items[i] \in DERControl
  OBVIOUS
<1>3. QED
  BY <1>1, <1>2 DEF Incoming

(* A realised control has an interval of integers that does not end before   *)
(* it starts, whatever is drawn within the server's randomisation bounds.    *)
LEMMA RealiseType ==
  ASSUME NEW doc \in DERControl, NEW shift \in Shifts(doc)
  PROVE  /\ Realise(doc, shift) \in ScheduledControl
         /\ Realise(doc, shift).start <= Realise(doc, shift).end
<1>1. doc.start \in Int /\ doc.duration \in Nat
  BY DEF DERControl
<1>2. shift[1] \in Int /\ shift[2] \in Int
  BY DEF Shifts, DERControl
<1>3. QED
  BY <1>1, <1>2 DEF Realise, ScheduledControl

(* drop_untracked_resources only forgets. *)
LEMMA DropUntrackedType ==
  ASSUME NEW m, IsSep2Model(m)
  PROVE  IsSep2Model(DropUntracked(m))
BY DEF IsSep2Model, IsPartialFunction, DropUntracked, Listed

LEMMA SetControlsType ==
  ASSUME NEW m, IsSep2Model(m), NEW items \in Seq(DERControl), NEW shift,
         \A c \in MRIDs(items) : shift[c] \in Shifts(Incoming(items, c))
  PROVE  IsPartialFunction(SetControls(m, items, shift), MRID, ScheduledControl)
<1>1. MRIDs(items) \subseteq MRID
  <2>1. \A i \in DOMAIN items : items[i] \in DERControl
    OBVIOUS
  <2>2. QED
    BY <2>1 DEF MRIDs, DERControl
<1>2. DOMAIN SetControls(m, items, shift) = DOMAIN m.controls \cup MRIDs(items)
  BY DEF SetControls
<1>3. ASSUME NEW c \in DOMAIN m.controls \cup MRIDs(items)
      PROVE  SetControls(m, items, shift)[c] \in ScheduledControl
  <2>1. CASE c \notin MRIDs(items)
    BY <2>1 DEF SetControls, IsSep2Model, IsPartialFunction
  <2>2. CASE c \in MRIDs(items) /\ c \in DOMAIN m.controls
    <3>1. m.controls[c] \in ScheduledControl
      BY <2>2 DEF IsSep2Model, IsPartialFunction
    <3>2. SetControls(m, items, shift)[c] =
            [m.controls[c] EXCEPT !.der_control = Incoming(items, c)]
      BY <2>2 DEF SetControls
    <3>3. QED
      BY <2>2, <3>1, <3>2, IncomingIsListed DEF ScheduledControl
  <2>3. CASE c \in MRIDs(items) /\ c \notin DOMAIN m.controls
    <3>1. SetControls(m, items, shift)[c] = Realise(Incoming(items, c), shift[c])
      BY <2>3 DEF SetControls
    <3>2. QED
      BY <2>3, <3>1, IncomingIsListed, RealiseType
  <2>4. QED
    BY <1>3, <2>1, <2>2, <2>3
<1>4. QED
  BY <1>1, <1>2, <1>3 DEF IsPartialFunction, SetControls, IsSep2Model

(* apply_update of each kind of resource gives a model. *)
LEMMA WithControlListType ==
  ASSUME NEW m, IsSep2Model(m), NEW p \in Program, NEW items \in Seq(DERControl),
         NEW shift, \A c \in MRIDs(items) : shift[c] \in Shifts(Incoming(items, c))
  PROVE  IsSep2Model(WithControlList(m, p, items, shift))
<1> DEFINE ids == [i \in DOMAIN items |-> items[i].mrid]
           n == [programs |-> m.programs, lists |-> [m.lists EXCEPT ![p] = ids],
                 controls |-> SetControls(m, items, shift),
                 defaults |-> m.defaults, rate |-> m.rate]
<1>1. ids \in Seq(MRID)
  <2>1. DOMAIN items = 1 .. Len(items) /\ Len(items) \in Nat
    OBVIOUS
  <2>2. \A i \in 1 .. Len(items) : items[i].mrid \in MRID
    <3>1. \A i \in 1 .. Len(items) : items[i] \in DERControl
      BY <2>1
    <3>2. QED
      BY <3>1 DEF DERControl
  <2>3. ids \in [1 .. Len(items) -> MRID]
    BY <2>1, <2>2
  <2>4. QED
    BY <2>1, <2>3
<1>2. n.lists \in [Program -> Seq(MRID)]
  BY <1>1 DEF IsSep2Model
<1>3. IsPartialFunction(n.controls, MRID, ScheduledControl)
  BY SetControlsType
<1>4. IsSep2Model(n)
  BY <1>2, <1>3 DEF IsSep2Model
<1>5. QED
  BY <1>4, DropUntrackedType DEF WithControlList

LEMMA WithProgramsType ==
  ASSUME NEW m, IsSep2Model(m), NEW f, IsPartialFunction(f, Program, Int),
         NEW rate \in Rate \cup {NoRate}
  PROVE  IsSep2Model(WithPrograms(m, f, rate))
BY DropUntrackedType DEF WithPrograms, IsSep2Model

LEMMA WithDefaultType ==
  ASSUME NEW m, IsSep2Model(m), NEW p \in Program, NEW base \in Base
  PROVE  IsSep2Model(WithDefault(m, p, base))
<1> DEFINE d == [q \in DOMAIN m.defaults \cup {p} |->
                   IF q = p THEN base ELSE m.defaults[q]]
<1>1. IsPartialFunction(d, Program, Base)
  BY DEF IsSep2Model, IsPartialFunction
<1>2. QED
  BY <1>1, DropUntrackedType DEF WithDefault, IsSep2Model

LEMMA WithRateType ==
  ASSUME NEW m, IsSep2Model(m), NEW rate \in Rate \cup {NoRate}
  PROVE  IsSep2Model(WithRate(m, rate))
BY DropUntrackedType DEF WithRate, IsSep2Model

-----------------------------------------------------------------------------
(* Type correctness. *)

(* Where a received update leaves a model, the model has its type. *)
LEMMA ReceiveType ==
  ASSUME TypeOK, NEW newModel, NEW events, IsSep2Model(newModel),
         Receive(newModel, events)
  PROVE  TypeOK'
<1>1. LoopTypeOK'
  BY DEF Receive, TypeOK, LoopTypeOK
<1>2. WaitTypeOK'
  BY DEF Receive, TypeOK, WaitTypeOK
<1>3. ModelTypeOK'
  BY DEF Receive, TypeOK, ModelTypeOK
<1>4. FlagTypeOK'
  BY DEF Receive, TypeOK, FlagTypeOK
<1>5. QED
  BY <1>1, <1>2, <1>3, <1>4 DEF TypeOK

(* A step that leaves the model and the file alone. *)
LEMMA SameModelType ==
  ASSUME TypeOK, UNCHANGED <<model, disk>>
  PROVE  ModelTypeOK'
BY DEF TypeOK, ModelTypeOK

LEMMA TypeInit == Init => TypeOK
<1> SUFFICES ASSUME Init PROVE TypeOK
  OBVIOUS
<1>1. LoopTypeOK
  BY SchedulerAssumption DEF Init, LoopTypeOK
<1>2. WaitTypeOK
  BY SchedulerAssumption DEF Init, WaitTypeOK, NoWait, WaitStates
<1>3. ModelTypeOK
  BY EmptyModelType DEF Init, ModelTypeOK
<1>4. FlagTypeOK
  BY DEF Init, FlagTypeOK
<1>5. QED
  BY <1>1, <1>2, <1>3, <1>4 DEF TypeOK

LEMMA TypeStep == TypeOK /\ [Next]_vars => TypeOK'
<1> SUFFICES ASSUME TypeOK, [Next]_vars
             PROVE  TypeOK'
  OBVIOUS
<1> USE SchedulerAssumption
<1>0. LoopTypeOK /\ FlagTypeOK /\ WaitTypeOK /\ ModelTypeOK
  BY DEF TypeOK
<1>1. CASE ReceiveControlList
  <2> PICK l \in ControlLists :
        \E shift \in Draws(l.items) :
          Receive(WithControlList(model, l.program, l.items, shift),
                  ControlListEvents(model, l.items, shift, now))
    BY <1>1 DEF ReceiveControlList
  <2>1. PICK shift \in Draws(l.items) :
          Receive(WithControlList(model, l.program, l.items, shift),
                  ControlListEvents(model, l.items, shift, now))
    OBVIOUS
  <2>2. IsSep2Model(WithControlList(model, l.program, l.items, shift))
    BY <1>0, WithControlListType DEF ModelTypeOK, Draws
  <2>3. QED
    BY <2>1, <2>2, ReceiveType
<1>2. CASE ReceivePrograms
  <2>1. PICK f \in ProgramLists, rate \in {model.rate, NoRate} :
          Receive(WithPrograms(model, f, rate), <<>>)
    BY <1>2 DEF ReceivePrograms
  <2>2. IsSep2Model(WithPrograms(model, f, rate))
    BY <1>0, WithProgramsType DEF ModelTypeOK, IsSep2Model
  <2>3. QED
    BY <2>1, <2>2, ReceiveType
<1>3. CASE ReceiveDefault
  <2>1. PICK d \in Defaults : Receive(WithDefault(model, d.program, d.base), <<>>)
    BY <1>3 DEF ReceiveDefault
  <2>2. IsSep2Model(WithDefault(model, d.program, d.base))
    BY <1>0, WithDefaultType DEF ModelTypeOK
  <2>3. QED
    BY <2>1, <2>2, ReceiveType
<1>4. CASE ReceiveRate
  <2>1. PICK r \in Rate \cup {NoRate} : Receive(WithRate(model, r), <<>>)
    BY <1>4 DEF ReceiveRate
  <2>2. IsSep2Model(WithRate(model, r))
    BY <1>0, WithRateType DEF ModelTypeOK
  <2>3. QED
    BY <2>1, <2>2, ReceiveType
<1>5. CASE TakeNextSchedule
  <2>1. LoopTypeOK'
    BY <1>0, <1>5 DEF TakeNextSchedule, LoopTypeOK
  <2>2. WaitTypeOK'
    BY <1>0, <1>5 DEF TakeNextSchedule, WaitTypeOK
  <2>3. FlagTypeOK'
    BY <1>0, <1>5 DEF TakeNextSchedule, FlagTypeOK
  <2>4. QED
    BY <1>5, <2>1, <2>2, <2>3, SameModelType DEF TakeNextSchedule, TypeOK
<1>6. CASE TakeRefresh
  <2>1. LoopTypeOK'
    BY <1>0, <1>6 DEF TakeRefresh, LoopTypeOK
  <2>2. WaitTypeOK'
    BY <1>0, <1>6 DEF TakeRefresh, WaitTypeOK
  <2>3. FlagTypeOK'
    BY <1>0, <1>6 DEF TakeRefresh, FlagTypeOK
  <2>4. QED
    BY <1>6, <2>1, <2>2, <2>3, SameModelType DEF TakeRefresh, TypeOK
<1>7. CASE BroadcastEvent
  <2>1. LoopTypeOK'
    BY <1>0, <1>7 DEF BroadcastEvent, LoopTypeOK
  <2>2. WaitTypeOK'
    BY <1>0, <1>7 DEF BroadcastEvent, WaitTypeOK
  <2>3. FlagTypeOK'
    BY <1>0, <1>7 DEF BroadcastEvent, FlagTypeOK
  <2>4. QED
    BY <1>7, <2>1, <2>2, <2>3, SameModelType DEF BroadcastEvent, TypeOK
<1>8. CASE PersistState
  <2>1. LoopTypeOK'
    BY <1>0, <1>8 DEF PersistState, LoopTypeOK
  <2>2. WaitTypeOK'
    BY <1>0, <1>8 DEF PersistState, WaitTypeOK
  <2>3. ModelTypeOK'
    BY <1>0, <1>8 DEF PersistState, ModelTypeOK
  <2>4. FlagTypeOK'
    BY <1>0, <1>8 DEF PersistState, FlagTypeOK
  <2>5. QED
    BY <2>1, <2>2, <2>3, <2>4 DEF TypeOK
<1>9. CASE CheckPostRates
  <2>1. LoopTypeOK'
    BY <1>0, <1>9 DEF CheckPostRates, LoopTypeOK
  <2>2. WaitTypeOK'
    BY <1>0, <1>9 DEF CheckPostRates, WaitTypeOK
  <2>3. FlagTypeOK'
    BY <1>0, <1>9 DEF CheckPostRates, FlagTypeOK
  <2>4. QED
    BY <1>9, <2>1, <2>2, <2>3, SameModelType DEF CheckPostRates, TypeOK
<1>10. CASE ReadClock
  <2>1. LoopTypeOK'
    BY <1>0, <1>10, NoTimeAssumption DEF ReadClock, LoopTypeOK
  <2>2. WaitTypeOK'
    BY <1>0, <1>10 DEF ReadClock, WaitTypeOK
  <2>3. FlagTypeOK'
    BY <1>0, <1>10 DEF ReadClock, FlagTypeOK
  <2>4. QED
    BY <1>10, <2>1, <2>2, <2>3, SameModelType DEF ReadClock, TypeOK
<1>11. CASE AnnounceParameters
  <2>1. LoopTypeOK'
    BY <1>0, <1>11 DEF AnnounceParameters, LoopTypeOK
  <2>2. WaitTypeOK'
    BY <1>0, <1>11 DEF AnnounceParameters, WaitTypeOK
  <2>3. FlagTypeOK'
    BY <1>0, <1>11 DEF AnnounceParameters, FlagTypeOK
  <2>4. QED
    BY <1>11, <2>1, <2>2, <2>3, SameModelType DEF AnnounceParameters, TypeOK
<1>12. CASE Predict
  <2>1. LoopTypeOK'
    BY <1>0, <1>12 DEF Predict, LoopTypeOK
  <2>2. WaitTypeOK'
    BY <1>0, <1>12 DEF Predict, WaitTypeOK
  <2>3. FlagTypeOK'
    BY <1>0, <1>12 DEF Predict, FlagTypeOK
  <2>4. QED
    BY <1>12, <2>1, <2>2, <2>3, SameModelType DEF Predict, TypeOK
<1>13. CASE ReplaceWaitTask
  <2>1. calcNow \in Nat
    BY <1>0, <1>13 DEF ReplaceWaitTask, LoopTypeOK
  <2>2. NextTime(model, calcNow) \in Int \cup {NoTime}
    BY <1>0, <2>1, NextTimeIsEarliest, BoundariesAhead, ModelIsTimed DEF ModelTypeOK
  <2>3. LoopTypeOK'
    BY <1>0, <1>13 DEF ReplaceWaitTask, LoopTypeOK
  <2>4. WaitTypeOK'
    BY <1>0, <1>13, <2>2 DEF ReplaceWaitTask, WaitTypeOK, WaitStates
  <2>5. FlagTypeOK'
    BY <1>0, <1>13 DEF ReplaceWaitTask, FlagTypeOK
  <2>6. QED
    BY <1>13, <2>3, <2>4, <2>5, SameModelType DEF ReplaceWaitTask, TypeOK
<1>14. CASE WaitTimeout
  <2>1. LoopTypeOK'
    BY <1>0, <1>14 DEF WaitTimeout, LoopTypeOK
  <2>2. WaitTypeOK'
    BY <1>0, <1>14 DEF WaitTimeout, WaitTypeOK, WaitStates
  <2>3. FlagTypeOK'
    BY <1>0, <1>14 DEF WaitTimeout, FlagTypeOK
  <2>4. QED
    BY <1>14, <2>1, <2>2, <2>3, SameModelType DEF WaitTimeout, TypeOK
<1>15. CASE WaitBroadcast
  <2>1. LoopTypeOK'
    BY <1>0, <1>15 DEF WaitBroadcast, LoopTypeOK
  <2>2. WaitTypeOK'
    BY <1>0, <1>15 DEF WaitBroadcast, WaitTypeOK, WaitStates
  <2>3. FlagTypeOK'
    BY <1>0, <1>15 DEF WaitBroadcast, FlagTypeOK
  <2>4. QED
    BY <1>15, <2>1, <2>2, <2>3, SameModelType DEF WaitBroadcast, TypeOK
<1>16. CASE WaitWake
  <2>1. LoopTypeOK'
    BY <1>0, <1>16 DEF WaitWake, LoopTypeOK
  <2>2. WaitTypeOK'
    BY <1>0, <1>16 DEF WaitWake, WaitTypeOK, WaitStates
  <2>3. FlagTypeOK'
    BY <1>0, <1>16 DEF WaitWake, FlagTypeOK
  <2>4. QED
    BY <1>16, <2>1, <2>2, <2>3, SameModelType DEF WaitWake, TypeOK
<1>17. CASE Tick
  <2>1. LoopTypeOK'
    BY <1>0, <1>17 DEF Tick, LoopTypeOK
  <2>2. WaitTypeOK'
    BY <1>0, <1>17 DEF Tick, WaitTypeOK
  <2>3. FlagTypeOK'
    BY <1>0, <1>17 DEF Tick, FlagTypeOK
  <2>4. QED
    BY <1>17, <2>1, <2>2, <2>3, SameModelType DEF Tick, TypeOK
<1>18. CASE CrashAndRestart
  <2>1. LoopTypeOK'
    BY <1>0, <1>18 DEF CrashAndRestart, LoopTypeOK
  <2>2. WaitTypeOK'
    BY <1>0, <1>18 DEF CrashAndRestart, WaitTypeOK, NoWait, WaitStates
  <2>3. ModelTypeOK'
    BY <1>0, <1>18, EmptyModelType DEF CrashAndRestart, ModelTypeOK
  <2>4. FlagTypeOK'
    BY <1>0, <1>18 DEF CrashAndRestart, FlagTypeOK
  <2>5. QED
    BY <2>1, <2>2, <2>3, <2>4 DEF TypeOK
<1>19. CASE Idle \/ UNCHANGED vars
  BY <1>0, <1>19 DEF Idle, vars, TypeOK, LoopTypeOK, FlagTypeOK, WaitTypeOK, ModelTypeOK
<1>20. QED
  BY <1>1, <1>2, <1>3, <1>4, <1>5, <1>6, <1>7, <1>8, <1>9, <1>10, <1>11, <1>12,
     <1>13, <1>14, <1>15, <1>16, <1>17, <1>18, <1>19
     DEF Next, Loop, WaitTask, Environment

(* Whatever the server sends, whenever the process crashes and whether or    *)
(* not the file could be written, the model and the file hold a model, and   *)
(* the input channel keeps to its bound.                                     *)
THEOREM TypeCorrect == Spec => []TypeOK
BY TypeInit, TypeStep, PTL DEF Spec

-----------------------------------------------------------------------------
(* The scheduling invariant. *)

(* A received update leaves the loop away from `recv` with a new model, so   *)
(* nothing is claimed of it until the loop has calculated again.             *)
LEMMA ReceiveScheduling ==
  ASSUME SchedulingInv, NEW newModel, NEW events, Receive(newModel, events)
  PROVE  CalculatedInv' /\ PredictedInv' /\ WaitInv'
<1>1. CalculatedInv'
  BY DEF Receive, SchedulingInv, CalculatedInv, priors
<1>2. PredictedInv'
  BY DEF Receive, SchedulingInv, PredictedInv, Settled, priors
<1>3. WaitInv'
  BY DEF Receive, SchedulingInv, WaitInv
<1>4. QED
  BY <1>1, <1>2, <1>3

LEMMA SchedulingInit == Init => SchedulingInv
<1> SUFFICES ASSUME Init PROVE SchedulingInv
  OBVIOUS
<1>1. CalculatedInv
  BY DEF Init, CalculatedInv
<1>2. PredictedInv
  BY DEF Init, PredictedInv, Settled, NoWait
<1>3. WaitInv
  BY DEF Init, WaitInv, NoWait
<1>4. QED
  BY <1>1, <1>2, <1>3, TypeInit DEF SchedulingInv

LEMMA SchedulingStep == SchedulingInv /\ [Next]_vars => SchedulingInv'
<1> SUFFICES ASSUME SchedulingInv, [Next]_vars
             PROVE  CalculatedInv' /\ PredictedInv' /\ WaitInv'
  BY TypeStep DEF SchedulingInv
<1>0. TypeOK /\ CalculatedInv /\ PredictedInv /\ WaitInv
  BY DEF SchedulingInv
<1>1. CASE ReceiveControlList \/ ReceivePrograms \/ ReceiveDefault \/ ReceiveRate
  <2>1. \E newModel, events : Receive(newModel, events)
    BY <1>1 DEF ReceiveControlList, ReceivePrograms, ReceiveDefault, ReceiveRate
  <2>2. QED
    BY <2>1, ReceiveScheduling
<1>2. CASE TakeNextSchedule
  <2>1. CalculatedInv'
    BY <1>0, <1>2 DEF TakeNextSchedule, CalculatedInv, priors
  <2>2. PredictedInv'
    BY <1>0, <1>2 DEF TakeNextSchedule, PredictedInv, Settled, priors
  <2>3. WaitInv'
    BY <1>0, <1>2 DEF TakeNextSchedule, WaitInv
  <2>4. QED
    BY <2>1, <2>2, <2>3
<1>3. CASE TakeRefresh
  <2>1. CalculatedInv'
    BY <1>0, <1>3 DEF TakeRefresh, CalculatedInv, priors
  <2>2. PredictedInv'
    BY <1>0, <1>3 DEF TakeRefresh, PredictedInv, Settled, priors
  <2>3. WaitInv'
    BY <1>0, <1>3 DEF TakeRefresh, WaitInv
  <2>4. QED
    BY <2>1, <2>2, <2>3
<1>4. CASE BroadcastEvent
  <2>1. CalculatedInv'
    BY <1>0, <1>4 DEF BroadcastEvent, CalculatedInv, priors
  <2>2. PredictedInv'
    BY <1>0, <1>4 DEF BroadcastEvent, PredictedInv, Settled, priors
  <2>3. WaitInv'
    BY <1>0, <1>4 DEF BroadcastEvent, WaitInv
  <2>4. QED
    BY <2>1, <2>2, <2>3
<1>5. CASE PersistState
  <2>1. CalculatedInv'
    BY <1>0, <1>5 DEF PersistState, CalculatedInv, priors
  <2>2. PredictedInv'
    BY <1>0, <1>5 DEF PersistState, PredictedInv, Settled, priors
  <2>3. WaitInv'
    BY <1>0, <1>5 DEF PersistState, WaitInv
  <2>4. QED
    BY <2>1, <2>2, <2>3
<1>6. CASE CheckPostRates
  <2>1. CalculatedInv'
    BY <1>0, <1>6 DEF CheckPostRates, CalculatedInv
  <2>2. PredictedInv'
    BY <1>0, <1>6 DEF CheckPostRates, PredictedInv, Settled
  <2>3. WaitInv'
    BY <1>0, <1>6 DEF CheckPostRates, WaitInv
  <2>4. QED
    BY <2>1, <2>2, <2>3
<1>7. CASE ReadClock
  <2>1. CalculatedInv'
    BY <1>0, <1>7 DEF ReadClock, CalculatedInv, priors, TypeOK, LoopTypeOK
  <2>2. PredictedInv'
    BY <1>0, <1>7 DEF ReadClock, PredictedInv, Settled, priors
  <2>3. WaitInv'
    BY <1>0, <1>7 DEF ReadClock, WaitInv, TypeOK, LoopTypeOK, WaitTypeOK
  <2>4. QED
    BY <2>1, <2>2, <2>3
<1>8. CASE AnnounceParameters
  <2>1. CalculatedInv'
    BY <1>0, <1>8 DEF AnnounceParameters, CalculatedInv
  <2>2. PredictedInv'
    BY <1>0, <1>8 DEF AnnounceParameters, PredictedInv, Settled
  <2>3. WaitInv'
    BY <1>0, <1>8 DEF AnnounceParameters, WaitInv
  <2>4. QED
    BY <2>1, <2>2, <2>3
<1>9. CASE Predict
  <2>1. CalculatedInv'
    BY <1>0, <1>9 DEF Predict, CalculatedInv, priors
  <2>2. PredictedInv'
    BY <1>0, <1>9 DEF Predict, PredictedInv, Settled, priors
  <2>3. WaitInv'
    BY <1>0, <1>9 DEF Predict, WaitInv
  <2>4. QED
    BY <2>1, <2>2, <2>3
<1>10. CASE ReplaceWaitTask
  <2>1. CalculatedInv'
    BY <1>0, <1>10 DEF ReplaceWaitTask, CalculatedInv
  <2>2. PredictedInv'
    BY <1>0, <1>10 DEF ReplaceWaitTask, PredictedInv, Settled
  <2>3. WaitInv'
    BY <1>0, <1>10 DEF ReplaceWaitTask, WaitInv
  <2>4. QED
    BY <2>1, <2>2, <2>3
<1>11. CASE WaitTimeout
  <2>1. CalculatedInv'
    BY <1>0, <1>11 DEF WaitTimeout, CalculatedInv, priors
  <2>2. PredictedInv'
    BY <1>0, <1>11 DEF WaitTimeout, PredictedInv, Settled, priors
  <2>3. WaitInv'
    BY <1>0, <1>11 DEF WaitTimeout, WaitInv, TypeOK, LoopTypeOK, WaitTypeOK
  <2>4. QED
    BY <2>1, <2>2, <2>3
<1>12. CASE WaitBroadcast
  <2>1. CalculatedInv'
    BY <1>0, <1>12 DEF WaitBroadcast, CalculatedInv, priors
  <2>2. PredictedInv'
    BY <1>0, <1>12 DEF WaitBroadcast, PredictedInv, Settled, priors
  <2>3. WaitInv'
    BY <1>0, <1>12 DEF WaitBroadcast, WaitInv
  <2>4. QED
    BY <2>1, <2>2, <2>3
<1>13. CASE WaitWake
  <2>1. CalculatedInv'
    BY <1>0, <1>13 DEF WaitWake, CalculatedInv, priors
  <2>2. PredictedInv'
    BY <1>0, <1>13 DEF WaitWake, PredictedInv, Settled, priors
  <2>3. WaitInv'
    BY <1>0, <1>13 DEF WaitWake, WaitInv, TypeOK, LoopTypeOK, WaitTypeOK
  <2>4. QED
    BY <2>1, <2>2, <2>3
<1>14. CASE Tick
  <2>1. CalculatedInv'
    BY <1>0, <1>14 DEF Tick, CalculatedInv, priors, TypeOK, LoopTypeOK
  <2>2. PredictedInv'
    BY <1>0, <1>14 DEF Tick, PredictedInv, Settled, priors
  <2>3. WaitInv'
    BY <1>0, <1>14 DEF Tick, WaitInv, TypeOK, LoopTypeOK, WaitTypeOK
  <2>4. QED
    BY <2>1, <2>2, <2>3
<1>15. CASE CrashAndRestart
  <2>1. CalculatedInv'
    BY <1>0, <1>15 DEF CrashAndRestart, CalculatedInv, NoWait
  <2>2. PredictedInv'
    BY <1>0, <1>15 DEF CrashAndRestart, PredictedInv, Settled, NoWait
  <2>3. WaitInv'
    BY <1>0, <1>15 DEF CrashAndRestart, WaitInv, NoWait
  <2>4. QED
    BY <2>1, <2>2, <2>3
<1>16. CASE Idle \/ UNCHANGED vars
  BY <1>0, <1>16 DEF Idle, vars, priors, CalculatedInv, PredictedInv, WaitInv, Settled
<1>17. QED
  BY <1>1, <1>2, <1>3, <1>4, <1>5, <1>6, <1>7, <1>8, <1>9,
     <1>10, <1>11, <1>12, <1>13, <1>14, <1>15, <1>16
     DEF Next, Loop, WaitTask, Environment

(* The loop's bookkeeping holds throughout: it is what the two results below *)
(* rest on.                                                                  *)
THEOREM Scheduling == Spec => []SchedulingInv
BY SchedulingInit, SchedulingStep, PTL DEF Spec

(* Where the wait task stands, by the model. *)
LEMMA WaitsForEarliest ==
  ASSUME SchedulingInv, Settled
  PROVE  /\ calcNow \in Nat /\ now \in Nat /\ calcNow <= now /\ Timed(model)
         /\ wait.time # NoTime => wait.time \in Boundaries(model, calcNow)
         /\ \A b \in Boundaries(model, calcNow) :
              /\ b \in Nat /\ calcNow < b
              /\ wait.time \in Nat /\ wait.time # NoTime /\ wait.time <= b
<1>1. calcNow \in Nat /\ now \in Nat /\ calcNow <= now
  BY SchedulerAssumption DEF SchedulingInv, TypeOK, LoopTypeOK, CalculatedInv, Settled
<1>2. Timed(model)
  BY ModelIsTimed DEF SchedulingInv, TypeOK, ModelTypeOK
<1>3. wait.time = NextTime(model, calcNow)
  BY DEF SchedulingInv, PredictedInv
<1>4. \A b \in Boundaries(model, calcNow) : b \in Nat /\ calcNow < b
  BY <1>1, <1>2, BoundariesAhead
<1>5. IF Boundaries(model, calcNow) = {} THEN wait.time = NoTime
      ELSE /\ wait.time \in Boundaries(model, calcNow)
           /\ \A b \in Boundaries(model, calcNow) : wait.time <= b
  BY <1>1, <1>2, <1>3, NextTimeIsEarliest
<1>6. QED
  BY <1>1, <1>2, <1>4, <1>5, NoTimeAssumption

(* What was last announced applies until the wait task's time. *)
THEOREM ParametersStayCurrent == Spec => []ParametersCurrent
<1>1. SchedulingInv => ParametersCurrent
  <2> SUFFICES ASSUME SchedulingInv, Settled, BeforeNextTime
               PROVE  /\ priorParameters = CalcParameters(model, now)
                      /\ priorParameters # NoParameters => device = priorParameters
    BY DEF ParametersCurrent
  <2>1. priorParameters = CalcParameters(model, calcNow)
    BY DEF SchedulingInv, CalculatedInv, Settled
  <2>2. \A b \in Boundaries(model, calcNow) : now < b
    BY WaitsForEarliest DEF BeforeNextTime
  <2>3. CalcParameters(model, calcNow) = CalcParameters(model, now)
    BY <2>2, WaitsForEarliest, ParametersBetweenBoundaries
  <2>4. QED
    BY <2>1, <2>3 DEF SchedulingInv, CalculatedInv
<1>2. QED
  BY <1>1, Scheduling, PTL

(* As long as something is still to happen, a wake-up is on its way. *)
THEOREM WakeUpStaysPending == Spec => []WakeUpPending
<1>1. SchedulingInv => WakeUpPending
  <2> SUFFICES ASSUME SchedulingInv, Settled, NEW b \in Boundaries(model, calcNow)
               PROVE  \/ wait.state \in {"sleep", "send"} /\ wait.time <= b
                      \/ wakes > 0
    BY DEF WakeUpPending
  <2>1. wait.time # NoTime /\ wait.time <= b
    BY WaitsForEarliest
  <2>2. wait.state = "done" => calcNow < wait.time
    <3>1. wait.time \in Boundaries(model, calcNow)
      BY <2>1, WaitsForEarliest
    <3>2. QED
      BY <3>1, WaitsForEarliest
  <2>3. wait.state = "done" => wakes > 0
    BY <2>1, <2>2 DEF SchedulingInv, WaitInv, Settled
  <2>4. QED
    BY <2>1, <2>3 DEF SchedulingInv, TypeOK, WaitTypeOK, WaitStates
<1>2. QED
  BY <1>1, Scheduling, PTL

-----------------------------------------------------------------------------
(* What is realised, and what a restart finds. *)

(* set_der_control: a control that is known keeps its interval. *)
LEMMA SetControlsKeep ==
  ASSUME NEW m, IsSep2Model(m), NEW items, NEW shift, NEW c \in DOMAIN m.controls
  PROVE  /\ c \in DOMAIN SetControls(m, items, shift)
         /\ SetControls(m, items, shift)[c].start = m.controls[c].start
         /\ SetControls(m, items, shift)[c].end = m.controls[c].end
<1>1. m.controls[c] \in ScheduledControl
  BY DEF IsSep2Model, IsPartialFunction
<1>2. CASE c \in MRIDs(items)
  <2>1. SetControls(m, items, shift)[c] = [m.controls[c] EXCEPT !.der_control = Incoming(items, c)]
    BY <1>2 DEF SetControls
  <2> QED
    BY <1>1, <2>1 DEF ScheduledControl, SetControls
<1>3. CASE c \notin MRIDs(items)
  BY <1>3 DEF SetControls
<1> QED
  BY <1>2, <1>3

(* Forgetting what is not listed changes no interval. *)
LEMMA DropUntrackedKeeps ==
  ASSUME NEW m, NEW n, \A c \in DOMAIN m.controls \cap DOMAIN n.controls :
           /\ n.controls[c].start = m.controls[c].start
           /\ n.controls[c].end = m.controls[c].end
  PROVE  SameIntervals(m, DropUntracked(n))
BY DEF SameIntervals, DropUntracked, Listed

(* What drop_untracked_resources leaves is a record with the model's fields. *)
LEMMA DropUntrackedShape ==
  ASSUME NEW m, IsSep2Model(DropUntracked(m))
  PROVE  DropUntracked(m) \in Sep2Model
<1> DEFINE d == DropUntracked(m)
<1>1. d = [programs |-> d.programs, lists |-> d.lists, controls |-> d.controls,
           defaults |-> d.defaults, rate |-> d.rate]
  BY DEF DropUntracked
<1> HIDE DEF d
<1>2. \A f, S, T : IsPartialFunction(f, S, T) => f \in PartialFunctions(S, T)
  BY DEF IsPartialFunction, PartialFunctions
<1>3. /\ d.programs \in PartialFunctions(Program, Int)
      /\ d.controls \in PartialFunctions(MRID, ScheduledControl)
      /\ d.defaults \in PartialFunctions(Program, Base)
      /\ d.lists \in [Program -> Seq(MRID)] /\ d.rate \in Rate \cup {NoRate}
  BY <1>2 DEF IsSep2Model, d
<1> QED
  BY <1>1, <1>3 DEF Sep2Model, d

(* Every update of a model gives a model, with the intervals of the old one. *)
LEMMA ReceiveKeeps ==
  ASSUME TypeOK, ReceiveControlList \/ ReceivePrograms \/ ReceiveDefault \/ ReceiveRate
  PROVE  /\ model' \in Sep2Model /\ SameIntervals(model, model')
         /\ \E events : Receive(model', events)
<1> USE SchedulerAssumption
<1>0. IsSep2Model(model)
  BY DEF TypeOK, ModelTypeOK
<1>1. CASE ReceiveControlList
  <2> PICK l \in ControlLists :
        \E shift \in Draws(l.items) :
          Receive(WithControlList(model, l.program, l.items, shift),
                  ControlListEvents(model, l.items, shift, now))
    BY <1>1 DEF ReceiveControlList
  <2>1. PICK shift \in Draws(l.items) :
          Receive(WithControlList(model, l.program, l.items, shift),
                  ControlListEvents(model, l.items, shift, now))
    OBVIOUS
  <2>2. model' = WithControlList(model, l.program, l.items, shift)
    BY <2>1 DEF Receive
  <2>3. IsSep2Model(WithControlList(model, l.program, l.items, shift))
    BY <1>0, WithControlListType DEF Draws
  <2>4. WithControlList(model, l.program, l.items, shift) \in Sep2Model
    BY <2>3, DropUntrackedShape DEF WithControlList
  <2>5. SameIntervals(model, WithControlList(model, l.program, l.items, shift))
    BY <1>0, SetControlsKeep, DropUntrackedKeeps DEF WithControlList
  <2> QED
    BY <2>1, <2>2, <2>4, <2>5
<1>2. CASE ReceivePrograms
  <2>1. PICK f \in ProgramLists, rate \in {model.rate, NoRate} :
          Receive(WithPrograms(model, f, rate), <<>>)
    BY <1>2 DEF ReceivePrograms
  <2>2. model' = WithPrograms(model, f, rate)
    BY <2>1 DEF Receive
  <2>3. WithPrograms(model, f, rate) \in Sep2Model
    BY <1>0, WithProgramsType, DropUntrackedShape DEF WithPrograms, IsSep2Model
  <2>4. SameIntervals(model, WithPrograms(model, f, rate))
    BY DropUntrackedKeeps DEF WithPrograms
  <2> QED
    BY <2>1, <2>2, <2>3, <2>4
<1>3. CASE ReceiveDefault
  <2>1. PICK d \in Defaults : Receive(WithDefault(model, d.program, d.base), <<>>)
    BY <1>3 DEF ReceiveDefault
  <2>2. model' = WithDefault(model, d.program, d.base)
    BY <2>1 DEF Receive
  <2> d.program \in Program /\ d.base \in Base
    BY SchedulerAssumption
  <2> HIDE SchedulerAssumption
  <2>3a. IsSep2Model(WithDefault(model, d.program, d.base))
    BY <1>0, WithDefaultType
  <2>3. WithDefault(model, d.program, d.base) \in Sep2Model
    BY <2>3a, DropUntrackedShape DEF WithDefault
  <2>4. SameIntervals(model, WithDefault(model, d.program, d.base))
    BY DropUntrackedKeeps DEF WithDefault
  <2> QED
    BY <2>1, <2>2, <2>3, <2>4
<1>4. CASE ReceiveRate
  <2>1. PICK r \in Rate \cup {NoRate} : Receive(WithRate(model, r), <<>>)
    BY <1>4 DEF ReceiveRate
  <2>2. model' = WithRate(model, r)
    BY <2>1 DEF Receive
  <2>3. WithRate(model, r) \in Sep2Model
    BY <1>0, WithRateType, DropUntrackedShape DEF WithRate
  <2>4. SameIntervals(model, WithRate(model, r))
    BY DropUntrackedKeeps DEF WithRate
  <2> QED
    BY <2>1, <2>2, <2>3, <2>4
<1> QED
  BY <1>1, <1>2, <1>3, <1>4

(* What load_persisted_state would give. *)
Stored == IF disk = NoFile THEN EmptyModel ELSE disk

(* Until a write fails, the file is behind only while an update's events are *)
(* still being emitted, and by that update only.                             *)
PersistInv ==
  /\ model \in Sep2Model
  /\ disk = NoFile \/ disk \in Sep2Model
  /\ dirty => pc = "emit"
  /\ used.failures = 0 => SameIntervals(Stored, model) /\ (~dirty => model = Stored)

LEMMA EmptyModelShape == EmptyModel \in Sep2Model
<1>1. \A S, T : [x \in {} |-> NoValue] \in PartialFunctions(S, T)
  BY DEF PartialFunctions
<1>2. [p \in {} |-> 0] \in PartialFunctions(Program, Int)
  BY DEF PartialFunctions
<1> QED
  BY <1>1, <1>2 DEF EmptyModel, Sep2Model

LEMMA PersistInit == Init => PersistInv
BY EmptyModelShape DEF Init, PersistInv, Stored, SameIntervals

LEMMA PersistStep == TypeOK /\ PersistInv /\ [Next]_vars => PersistInv'
<1> SUFFICES ASSUME TypeOK, PersistInv, [Next]_vars
             PROVE  PersistInv'
  OBVIOUS
<1>0. used \in [updates : Nat, crashes : Nat, failures : Nat]
  BY DEF TypeOK, LoopTypeOK
<1>1. CASE ReceiveControlList \/ ReceivePrograms \/ ReceiveDefault \/ ReceiveRate
  <2>1. PICK events : Receive(model', events)
    BY <1>1, ReceiveKeeps
  <2>2. ~dirty /\ dirty' /\ pc' = "emit" /\ disk' = disk
    BY <2>1 DEF Receive, PersistInv
  <2>3. used'.failures = used.failures
    BY <1>0, <2>1 DEF Receive
  <2>4. used.failures = 0 => SameIntervals(Stored, model')
    BY <1>1, <2>2, ReceiveKeeps DEF PersistInv
  <2> QED
    BY <1>1, <2>2, <2>3, <2>4, ReceiveKeeps DEF PersistInv, Stored
<1>2. CASE PersistState
  <2>1. /\ model' = model /\ ~dirty'
        /\ \/ disk' = model /\ used' = used
           \/ disk' = disk /\ used'.failures = used.failures + 1
    BY <1>0, <1>2 DEF PersistState
  <2>2. CASE disk' = model /\ used' = used
    <3>1. Stored' = model
      BY <2>2, SchedulerAssumption DEF Stored, PersistInv
    <3> QED
      BY <2>1, <2>2, <3>1 DEF PersistInv, SameIntervals
  <2>3. CASE disk' = disk /\ used'.failures = used.failures + 1
    BY <1>0, <2>1, <2>3 DEF PersistInv
  <2> QED
    BY <2>1, <2>2, <2>3
<1>3. CASE CrashAndRestart
  <2>1. model' = Stored /\ disk' = disk /\ ~dirty' /\ used'.failures = used.failures
    BY <1>0, <1>3 DEF CrashAndRestart, Stored
  <2>2. Stored' = Stored /\ SameIntervals(Stored, Stored)
    BY <2>1 DEF Stored, SameIntervals
  <2> QED
    BY <2>1, <2>2, EmptyModelShape DEF PersistInv, Stored
<1>4. ASSUME UNCHANGED <<model, disk, dirty, used>>, dirty => pc' = pc
      PROVE  PersistInv'
  BY <1>4 DEF PersistInv, Stored, SameIntervals
<1>5. CASE TakeNextSchedule \/ TakeRefresh \/ BroadcastEvent \/ CheckPostRates
             \/ ReadClock \/ AnnounceParameters \/ Predict \/ ReplaceWaitTask
  BY <1>4, <1>5
     DEF TakeNextSchedule, TakeRefresh, BroadcastEvent, CheckPostRates, ReadClock,
         AnnounceParameters, Predict, ReplaceWaitTask, PersistInv
<1>6. CASE WaitTask \/ Tick \/ Idle \/ UNCHANGED vars
  BY <1>4, <1>6
     DEF WaitTask, WaitTimeout, WaitBroadcast, WaitWake, Tick, Idle, vars
<1> QED
  BY <1>1, <1>2, <1>3, <1>5, <1>6 DEF Next, Loop, Environment

LEMMA Persists == Spec => [](TypeOK /\ PersistInv)
BY TypeInit, TypeStep, PersistInit, PersistStep, PTL DEF Spec

(* Only an update and a restart write the model. *)
LEMMA ModelWriters ==
  Next => \/ ReceiveControlList \/ ReceivePrograms \/ ReceiveDefault \/ ReceiveRate
          \/ CrashAndRestart
          \/ model' = model
<1>1. TakeNextSchedule \/ TakeRefresh \/ BroadcastEvent \/ CheckPostRates \/ ReadClock
        \/ AnnounceParameters \/ Predict \/ ReplaceWaitTask => model' = model
  BY DEF TakeNextSchedule, TakeRefresh, BroadcastEvent, CheckPostRates, ReadClock,
         AnnounceParameters, Predict, ReplaceWaitTask
<1>2. PersistState => model' = model
  BY DEF PersistState
<1>3. WaitTask \/ Tick \/ Idle => model' = model
  BY DEF WaitTask, WaitTimeout, WaitBroadcast, WaitWake, Tick, Idle, vars
<1> QED
  BY <1>1, <1>2, <1>3 DEF Next, Loop, Environment

(* For every server, whatever is drawn and however often the process         *)
(* crashes: a control's interval is realised once, as long as it is known    *)
(* and the file could be written.                                            *)
THEOREM RealisedOnlyOnce == Spec => RealisedOnce
<1>1. TypeOK /\ PersistInv /\ [Next]_vars
        => [used'.crashes = used.crashes \/ used.failures = 0 => SameIntervals(model, model')]_vars
  <2> SUFFICES ASSUME TypeOK, PersistInv, Next,
                      used'.crashes = used.crashes \/ used.failures = 0
               PROVE  SameIntervals(model, model')
    OBVIOUS
  <2>0. used \in [updates : Nat, crashes : Nat, failures : Nat]
    BY DEF TypeOK, LoopTypeOK
  <2>1. CASE ReceiveControlList \/ ReceivePrograms \/ ReceiveDefault \/ ReceiveRate
    BY <2>1, ReceiveKeeps
  <2>2. CASE CrashAndRestart
    <3>1. model' = Stored /\ used'.crashes = used.crashes + 1
      BY <2>0, <2>2 DEF CrashAndRestart, Stored
    <3>2. used.failures = 0
      BY <2>0, <3>1
    <3> QED
      BY <3>1, <3>2 DEF PersistInv, SameIntervals
  <2>3. CASE model' = model
    BY <2>3 DEF SameIntervals
  <2> QED
    BY <2>1, <2>2, <2>3, ModelWriters
<1> QED
  BY <1>1, Persists, PTL DEF Spec, RealisedOnce

(* ... and a crash between two updates loses nothing of the model.           *)
THEOREM RestartRemembersModel == Spec => RestartRemembers
<1>1. TypeOK /\ PersistInv /\ [Next]_vars
        => [used'.crashes # used.crashes /\ ~dirty /\ used.failures = 0 => model' = model]_vars
  <2> SUFFICES ASSUME TypeOK, PersistInv, Next,
                      used'.crashes # used.crashes, ~dirty, used.failures = 0
               PROVE  model' = model
    OBVIOUS
  <2>0. used \in [updates : Nat, crashes : Nat, failures : Nat]
    BY DEF TypeOK, LoopTypeOK
  <2>1. CASE ReceiveControlList \/ ReceivePrograms \/ ReceiveDefault \/ ReceiveRate
    <3>1. PICK events : Receive(model', events)
      BY <2>1, ReceiveKeeps
    <3> QED
      BY <2>0, <3>1 DEF Receive
  <2>2. CASE CrashAndRestart
    BY <2>2 DEF CrashAndRestart, PersistInv, Stored
  <2>3. CASE model' = model
    BY <2>3
  <2> QED
    BY <2>1, <2>2, <2>3, ModelWriters
<1> QED
  BY <1>1, Persists, PTL DEF Spec, RestartRemembers

(* The file, while the loop waits or an update is not yet persisted, holds   *)
(* the model the loop last calculated with.                                  *)
InForceInv ==
  used.failures = 0 /\ pc \in {"recv", "emit"} /\ calcNow # NoTime
    => /\ priorParameters = CalcParameters(Stored, calcNow)
       /\ wait.time = NextTime(Stored, calcNow)

LEMMA InForceInit == Init => InForceInv
BY DEF Init, InForceInv

LEMMA InForceStep ==
  SchedulingInv /\ SchedulingInv' /\ PersistInv /\ PersistInv' /\ InForceInv /\ [Next]_vars
    => InForceInv'
<1> SUFFICES ASSUME SchedulingInv, SchedulingInv', PersistInv, PersistInv', InForceInv, [Next]_vars
             PROVE  InForceInv'
  OBVIOUS
<1>0. TypeOK /\ used \in [updates : Nat, crashes : Nat, failures : Nat]
  BY DEF SchedulingInv, TypeOK, LoopTypeOK
<1>1. CASE pc' = "recv" /\ pc \in {"predict", "replace"}
  <2>1. ASSUME used'.failures = 0, calcNow' # NoTime
        PROVE  /\ priorParameters' = CalcParameters(Stored, calcNow)'
               /\ wait'.time = NextTime(Stored, calcNow)'
    <3>1. Stored' = model'
      BY <1>1, <2>1 DEF PersistInv
    <3>2. priorParameters' = CalcParameters(model, calcNow)'
      BY <1>1, <2>1 DEF SchedulingInv, CalculatedInv
    <3>3. wait'.time = NextTime(model, calcNow)'
      BY <1>1, <2>1 DEF SchedulingInv, PredictedInv, Settled
    <3> QED
      BY <3>1, <3>2, <3>3
  <2> QED
    BY <2>1 DEF InForceInv
<1>2. ASSUME pc \in {"recv", "emit"},
             UNCHANGED <<disk, calcNow, priorParameters, wait.time, used.failures>>
      PROVE  InForceInv'
  <2>1. Stored' = Stored
    BY <1>2 DEF Stored
  <2> QED
    BY <1>2, <2>1 DEF InForceInv
<1>3. CASE ReceiveControlList \/ ReceivePrograms \/ ReceiveDefault \/ ReceiveRate
  <2>1. PICK events : Receive(model', events)
    BY <1>0, <1>3, ReceiveKeeps
  <2> QED
    BY <1>0, <1>2, <2>1 DEF Receive, priors
<1>4. CASE pc' \notin {"recv", "emit"} \/ calcNow' = NoTime
  BY <1>4 DEF InForceInv
<1>5. CASE TakeNextSchedule \/ TakeRefresh \/ PersistState \/ CheckPostRates \/ ReadClock
             \/ AnnounceParameters \/ CrashAndRestart
  BY <1>4, <1>5 DEF TakeNextSchedule, TakeRefresh, PersistState, CheckPostRates, ReadClock,
     AnnounceParameters, CrashAndRestart
<1>6. CASE Predict \/ ReplaceWaitTask
  BY <1>1, <1>4, <1>6 DEF Predict, ReplaceWaitTask
<1>7. CASE BroadcastEvent
  BY <1>2, <1>7 DEF BroadcastEvent, priors
<1>8. CASE WaitTask \/ Tick \/ Idle \/ UNCHANGED vars
  <2>1. UNCHANGED <<pc, disk, calcNow, priorParameters, wait.time, used.failures>>
    BY <1>8 DEF WaitTask, WaitTimeout, WaitBroadcast, WaitWake, Tick, Idle, vars, priors
  <2> QED
    BY <1>2, <1>4, <2>1
<1> QED
  BY <1>3, <1>5, <1>6, <1>7, <1>8 DEF Next, Loop, Environment

LEMMA OnlyCrashesCount ==
  ASSUME TypeOK, Next, used'.crashes # used.crashes
  PROVE  CrashAndRestart
<1>0. used \in [updates : Nat, crashes : Nat, failures : Nat]
  BY DEF TypeOK, LoopTypeOK
<1>1. CASE ReceiveControlList \/ ReceivePrograms \/ ReceiveDefault \/ ReceiveRate
  <2>1. PICK events : Receive(model', events)
    BY <1>1, ReceiveKeeps
  <2> QED
    BY <1>0, <2>1 DEF Receive
<1>2. CASE Loop
  BY <1>0, <1>2 DEF Loop, TakeNextSchedule, TakeRefresh, BroadcastEvent, PersistState,
     CheckPostRates, ReadClock, AnnounceParameters, Predict, ReplaceWaitTask
<1>3. CASE WaitTask \/ Tick \/ Idle
  BY <1>3 DEF WaitTask, WaitTimeout, WaitBroadcast, WaitWake, Tick, Idle, vars
<1> QED
  BY <1>1, <1>2, <1>3 DEF Next, Environment

(* What is in force rests on the file: a restart at any time that an update  *)
(* may be lost finds the model of what the device was last told.             *)
THEOREM InForceIsKept == Spec => RestartKeepsInForce
<1>1. TypeOK /\ InForceInv /\ [Next]_vars
        => [/\ used'.crashes # used.crashes /\ used.failures = 0
            /\ pc \in {"recv", "emit"} /\ calcNow # NoTime
            => /\ priorParameters = CalcParameters(model', calcNow)
               /\ wait.time = NextTime(model', calcNow)]_vars
  <2> SUFFICES ASSUME TypeOK, InForceInv, Next,
                      used'.crashes # used.crashes, used.failures = 0,
                      pc \in {"recv", "emit"}, calcNow # NoTime
               PROVE  /\ priorParameters = CalcParameters(model', calcNow)
                      /\ wait.time = NextTime(model', calcNow)
    OBVIOUS
  <2>1. model' = Stored
    BY OnlyCrashesCount DEF CrashAndRestart, Stored
  <2> QED
    BY <2>1 DEF InForceInv
<1> QED
  BY <1>1, Persists, Scheduling, InForceInit, InForceStep, PTL DEF Spec, RestartKeepsInForce

=============================================================================
