------------------------ MODULE BridgeChannelsProofs ------------------------
(***************************************************************************)
(* Proofs about BridgeChannels, for every capacity, every set of resources *)
(* and every number of results.  The argument: a result of a GET and a     *)
(* wake-up are held by one task or channel at a time, so the places on the *)
(* way up to the scheduler never hold more than there have been of them,   *)
(* and the command of main is the only other thing that was ever there.    *)
(***************************************************************************)
EXTENDS BridgeChannels, FiniteSetTheorems, TLAPS

LEMMA HeadTail ==
  ASSUME NEW S, NEW q \in Seq(S), q # <<>>
  PROVE  /\ Head(q) \in S /\ Tail(q) \in Seq(S)
         /\ Head(q) = q[1]
         /\ Len(q) \in Nat \ {0} /\ Len(Tail(q)) = Len(q) - 1
         /\ \A i \in 1 .. Len(q) - 1 : Tail(q)[i] = q[i + 1]
OBVIOUS

LEMMA HeldIsOne ==
  ASSUME NEW S, NEW q \in Seq(S), q # <<>>, Len(q) <= 1
  PROVE  Len(q) = 1
<1>1. \A n \in Nat : n # 0 /\ n <= 1 => n = 1
  OBVIOUS
<1>2. Len(q) \in Nat /\ Len(q) # 0
  OBVIOUS
<1>3. QED
  BY <1>1, <1>2

LEMMA OneMore ==
  ASSUME NEW S, NEW q \in Seq(S), NEW x \in S
  PROVE  /\ Append(q, x) \in Seq(S) /\ Append(q, x) # <<>>
         /\ Len(Append(q, x)) = Len(q) + 1
         /\ \A i \in 1 .. Len(q) : Append(q, x)[i] = q[i]
         /\ Append(q, x)[Len(q) + 1] = x
OBVIOUS

LEMMA One ==
  ASSUME NEW S, NEW x \in S
  PROVE  /\ <<x>> \in Seq(S) /\ <<x>> # <<>> /\ Len(<<x>>) = 1 /\ <<>> \in Seq(S) /\ Len(<<>>) = 0
OBVIOUS

Bounds == [results : Nat, wakeUps : Nat, polls : Nat, reports : Nat, failures : Nat]

(* The results and the wake-ups there have been. *)
Sent(u) == u.results + u.wakeUps

LEMMA Spend ==
  ASSUME NEW u \in Bounds
  PROVE  /\ [u EXCEPT !.results = @ + 1] \in Bounds
         /\ Sent([u EXCEPT !.results = @ + 1]) = Sent(u) + 1
         /\ [u EXCEPT !.wakeUps = @ + 1] \in Bounds
         /\ Sent([u EXCEPT !.wakeUps = @ + 1]) = Sent(u) + 1
         /\ [u EXCEPT !.polls = @ + 1, !.results = @ + 1] \in Bounds
         /\ Sent([u EXCEPT !.polls = @ + 1, !.results = @ + 1]) = Sent(u) + 1
         /\ [u EXCEPT !.reports = @ + 1] \in Bounds
         /\ Sent([u EXCEPT !.reports = @ + 1]) = Sent(u)
         /\ [u EXCEPT !.failures = @ + 1] \in Bounds
         /\ Sent([u EXCEPT !.failures = @ + 1]) = Sent(u)
<1>1. /\ u.results + 1 \in Nat /\ u.polls + 1 \in Nat /\ u.reports + 1 \in Nat
      /\ u.failures + 1 \in Nat /\ u.wakeUps + 1 \in Nat /\ u.results \in Nat /\ u.wakeUps \in Nat
  BY DEF Bounds
<1>2. /\ [u EXCEPT !.results = @ + 1] \in Bounds
      /\ Sent([u EXCEPT !.results = @ + 1]) = Sent(u) + 1
  BY <1>1 DEF Bounds, Sent
<1>3. /\ [u EXCEPT !.wakeUps = @ + 1] \in Bounds
      /\ Sent([u EXCEPT !.wakeUps = @ + 1]) = Sent(u) + 1
  BY <1>1 DEF Bounds, Sent
<1>4. /\ [u EXCEPT !.polls = @ + 1, !.results = @ + 1] \in Bounds
      /\ Sent([u EXCEPT !.polls = @ + 1, !.results = @ + 1]) = Sent(u) + 1
  <2>1. [u EXCEPT !.polls = @ + 1, !.results = @ + 1] \in Bounds
    BY <1>1 DEF Bounds
  <2>2. /\ [u EXCEPT !.polls = @ + 1, !.results = @ + 1].results = u.results + 1
        /\ [u EXCEPT !.polls = @ + 1, !.results = @ + 1].wakeUps = u.wakeUps
    BY DEF Bounds
  <2>3. QED
    BY <1>1, <2>1, <2>2 DEF Sent
<1>5. /\ [u EXCEPT !.reports = @ + 1] \in Bounds
      /\ Sent([u EXCEPT !.reports = @ + 1]) = Sent(u)
  BY <1>1 DEF Bounds, Sent
<1>6. /\ [u EXCEPT !.failures = @ + 1] \in Bounds
      /\ Sent([u EXCEPT !.failures = @ + 1]) = Sent(u)
  BY <1>1 DEF Bounds, Sent
<1>7. QED
  BY <1>2, <1>3, <1>4, <1>5, <1>6

LEMMA TypeOKInit == Init => TypeOK
<1> SUFFICES ASSUME Init
             PROVE  TypeOK
  OBVIOUS
<1>1. Capacity \in Nat \ {0}
  BY ChannelsAssumption
<1>2. applied \subseteq Resource
  BY DEF Init, Known
<1>3. schedulerInput \in Seq(Input) /\ Len(schedulerInput) = 0
  BY DEF Init
<1>4. connectionInput \in Seq(Command) /\ Len(connectionInput) = 0
  BY DEF Init
<1>5. used \in Bounds
  BY DEF Init, Bounds
<1>6. /\ modbusInput \in 0 .. Capacity /\ deviceEvents \in 0 .. Capacity /\ heldReports \in 0 .. 3
      /\ polls \subseteq Resource /\ arrived \subseteq polls
      /\ modbus \in {"receiving", "broadcasting"}
      /\ wait \in {"none", "sleeping", "broadcasting", "sending"}
      /\ main \in {"Wake", "RefreshActiveResources", "nothing"}
  BY <1>1 DEF Init
<1>10. /\ heldParameters \in BOOLEAN /\ passing \in BOOLEAN /\ retry \in BOOLEAN
       /\ reset \in BOOLEAN
  BY DEF Init
<1>7. /\ resources \in Seq(Resource) /\ heldResource \in Seq(Resource) /\ announcing \in Seq(Event)
      /\ toSubscriptions \in Seq(Event) /\ toControls \in Seq(Event) /\ heldCommand \in Seq(Event)
      /\ fetched \in Seq(Resource)
  BY DEF Init
<1>8. /\ Len(resources) <= Capacity /\ Len(heldResource) <= 1 /\ Len(toSubscriptions) <= Capacity
      /\ Len(toControls) <= Capacity /\ Len(heldCommand) <= 1 /\ Len(fetched) <= 1
      /\ Len(schedulerInput) <= Capacity /\ Len(connectionInput) <= Capacity
  BY <1>1, <1>3, <1>4 DEF Init
<1>9. QED
  BY <1>2, <1>3, <1>4, <1>5, <1>6, <1>7, <1>8, <1>10 DEF TypeOK, Bounds

(* The type invariant by the parts of the state that a step disturbs. *)
MainOK == main \in {"Wake", "RefreshActiveResources", "nothing"}

UpwardOK ==
  /\ resources \in Seq(Resource) /\ Len(resources) <= Capacity
  /\ heldResource \in Seq(Resource) /\ Len(heldResource) <= 1
  /\ schedulerInput \in Seq(Input) /\ Len(schedulerInput) <= Capacity

SchedulerOK ==
  /\ announcing \in Seq(Event) /\ applied \subseteq Resource
  /\ wait \in {"none", "sleeping", "broadcasting", "sending"}

EventsOK ==
  /\ toSubscriptions \in Seq(Event) /\ Len(toSubscriptions) <= Capacity
  /\ toControls \in Seq(Event) /\ Len(toControls) <= Capacity

HeldCommandOK == heldCommand \in Seq(Event) /\ Len(heldCommand) <= 1

ControlOK ==
  /\ heldParameters \in BOOLEAN /\ modbus \in {"receiving", "broadcasting"}
  /\ modbusInput \in 0 .. Capacity /\ deviceEvents \in 0 .. Capacity /\ heldReports \in 0 .. 3

ConnectionInputOK == connectionInput \in Seq(Command) /\ Len(connectionInput) <= Capacity

FetchedOK == fetched \in Seq(Resource) /\ Len(fetched) <= 1

PassOK == passing \in BOOLEAN /\ retry \in BOOLEAN

PollingOK == polls \subseteq Resource /\ arrived \subseteq polls /\ reset \in BOOLEAN

ConnectionOK == FetchedOK /\ PassOK /\ PollingOK

LEMMA TypeOKParts ==
  TypeOK <=> /\ MainOK /\ UpwardOK /\ SchedulerOK /\ EventsOK /\ HeldCommandOK /\ ControlOK
             /\ ConnectionInputOK /\ ConnectionOK /\ used \in Bounds
BY DEF TypeOK, MainOK, UpwardOK, SchedulerOK, EventsOK, HeldCommandOK, ControlOK,
       ConnectionInputOK, ConnectionOK, FetchedOK, PassOK, PollingOK, Bounds

(* What is taken from a channel leaves it within its capacity, and what is *)
(* sent to one that has room does too.                                     *)
LEMMA Taken ==
  ASSUME NEW S, NEW q \in Seq(S), q # <<>>, NEW n \in Nat, Len(q) <= n
  PROVE  Head(q) \in S /\ Tail(q) \in Seq(S) /\ Len(Tail(q)) <= n
BY HeadTail

LEMMA Sends ==
  ASSUME NEW S, NEW q \in Seq(S), HasRoom(q), NEW x \in S
  PROVE  Append(q, x) \in Seq(S) /\ Len(Append(q, x)) <= Capacity
BY OneMore, ChannelsAssumption DEF HasRoom

LEMMA TypeOKStep == TypeOK /\ [Next]_vars => TypeOK'
<1> SUFFICES ASSUME TypeOK, [Next]_vars
             PROVE  TypeOK'
  OBVIOUS
<1> USE ChannelsAssumption
<1>t. /\ MainOK /\ UpwardOK /\ SchedulerOK /\ EventsOK /\ HeldCommandOK /\ ControlOK
      /\ ConnectionInputOK /\ ConnectionOK /\ used \in Bounds
  BY TypeOKParts
<1>c. Capacity \in Nat \ {0}
  OBVIOUS
<1>u. /\ UNCHANGED upward => UpwardOK'
      /\ UNCHANGED scheduler => SchedulerOK'
      /\ UNCHANGED events => EventsOK'
      /\ UNCHANGED heldCommand => HeldCommandOK'
      /\ UNCHANGED control => ControlOK'
      /\ UNCHANGED connectionInput => ConnectionInputOK'
      /\ UNCHANGED fetched => FetchedOK'
      /\ UNCHANGED pass => PassOK'
      /\ UNCHANGED polling => PollingOK'
      /\ UNCHANGED connection => ConnectionOK'
      /\ UNCHANGED main => MainOK'
      /\ UNCHANGED used => used' \in Bounds
  <2>1. UNCHANGED upward => UpwardOK'
    BY <1>t DEF UpwardOK, upward
  <2>2. UNCHANGED scheduler => SchedulerOK'
    BY <1>t DEF SchedulerOK, scheduler
  <2>3. UNCHANGED events => EventsOK'
    BY <1>t DEF EventsOK, events
  <2>4. UNCHANGED heldCommand => HeldCommandOK'
    BY <1>t DEF HeldCommandOK
  <2>5. UNCHANGED control => ControlOK'
    BY <1>t DEF ControlOK, control
  <2>6. UNCHANGED connectionInput => ConnectionInputOK'
    BY <1>t DEF ConnectionInputOK
  <2>7. UNCHANGED fetched => FetchedOK'
    BY <1>t DEF ConnectionOK, FetchedOK
  <2>8. UNCHANGED pass => PassOK'
    BY <1>t DEF ConnectionOK, PassOK, pass
  <2>9. UNCHANGED polling => PollingOK'
    BY <1>t DEF ConnectionOK, PollingOK, polling
  <2>10. UNCHANGED connection => ConnectionOK'
    BY <2>7, <2>8, <2>9 DEF ConnectionOK, connection
  <2>11. UNCHANGED main => MainOK'
    BY <1>t DEF MainOK
  <2>12. QED
    BY <1>t, <2>1, <2>2, <2>3, <2>4, <2>5, <2>6, <2>7, <2>8, <2>9, <2>10, <2>11
<1>p. ASSUME MainOK', UpwardOK', SchedulerOK', EventsOK', HeldCommandOK', ControlOK', ConnectionInputOK',
             ConnectionOK', used' \in Bounds
      PROVE  TypeOK'
  BY <1>p DEF TypeOK, MainOK, UpwardOK, SchedulerOK, EventsOK, HeldCommandOK, ControlOK,
              ConnectionInputOK, ConnectionOK, FetchedOK, PassOK, PollingOK, Bounds
<1>w. ASSUME NEW command, Take(command)
      PROVE  ConnectionInputOK'
  <2>1. connectionInput # <<>> /\ connectionInput' = Tail(connectionInput)
    BY <1>w DEF Take
  <2>2. QED
    BY <1>c, <1>t, <2>1, Taken DEF ConnectionInputOK
<1>s. ASSUME NEW command \in Command, Send(command)
      PROVE  ConnectionInputOK'
  BY <1>s, <1>t, Sends DEF ConnectionInputOK, Send
<1>m. ASSUME Fails
      PROVE  used' \in Bounds /\ FetchedOK'
  BY <1>m, <1>t, <1>u, Spend DEF Fails
<1>n. ASSUME NEW r \in Resource, Fetch(r)
      PROVE  used' \in Bounds /\ FetchedOK'
  <2>1. fetched' = <<r>> /\ used' = [used EXCEPT !.results = @ + 1]
    BY <1>n DEF Fetch
  <2>2. FetchedOK'
    BY <2>1, One DEF FetchedOK
  <2>3. used' \in Bounds
    BY <1>t, <2>1, Spend
  <2>4. QED
    BY <2>2, <2>3
<1>a. MayAbortWait => wait' \in {"none", "sleeping", "broadcasting", "sending"}
  BY <1>t DEF MayAbortWait, SchedulerOK
<1>b. ASSUME NEW command, TakeCommand(command), MayAbortWait,
             announcing' \in Seq(Event), applied' \subseteq Resource
      PROVE  TypeOK'
  <2>1. UNCHANGED <<main, resources, heldResource, events, heldCommand, control, connectionInput,
                    connection, used>>
    BY <1>b DEF TakeCommand
  <2>2. schedulerInput # <<>> /\ schedulerInput' = Tail(schedulerInput)
    BY <1>b DEF TakeCommand
  <2>3. UpwardOK'
    BY <1>c, <1>t, <2>1, <2>2, Taken DEF UpwardOK
  <2>4. SchedulerOK'
    BY <1>a, <1>b DEF SchedulerOK
  <2>5. QED
    BY <1>p, <1>u, <2>1, <2>3, <2>4
<1>1. CASE TakeWake
  <2>1. /\ Take(Other("Wake")) /\ passing' = TRUE
        /\ UNCHANGED <<main, upward, scheduler, events, heldCommand, control, fetched, retry,
                       polling, used>>
    BY <1>1 DEF TakeWake, Take
  <2>2. PassOK'
    BY <1>t, <2>1 DEF ConnectionOK, PassOK
  <2>3. QED
    BY <1>p, <1>u, <1>w, <2>1, <2>2 DEF ConnectionOK
<1>27. CASE TakeReset
  <2>1. /\ Take(Other("ResetConnection")) /\ passing' = TRUE
        /\ polls' = polls \ {Root} /\ arrived' = arrived \ {Root} /\ reset' = FALSE
        /\ UNCHANGED <<main, upward, scheduler, events, heldCommand, control, fetched, retry, used>>
    BY <1>27 DEF TakeReset, Take
  <2>2. PassOK' /\ PollingOK'
    BY <1>t, <2>1 DEF ConnectionOK, PassOK, PollingOK
  <2>3. QED
    BY <1>p, <1>u, <1>w, <2>1, <2>2 DEF ConnectionOK
<1>2. CASE TakeSubscription
  <2>1. PICK r \in Resource :
          /\ Take(Link(r))
          /\ \/ UNCHANGED <<fetched, polls, used>>
             \/ Fetch(r) /\ UNCHANGED polls
             \/ Fails /\ polls' = polls \cup {r}
    BY <1>2 DEF TakeSubscription
  <2>2. UNCHANGED <<main, upward, scheduler, events, heldCommand, control, retry, passing, arrived,
                    reset>>
    BY <1>2, <2>1 DEF TakeSubscription, Take
  <2>3. used' \in Bounds /\ FetchedOK'
    BY <1>m, <1>n, <1>t, <1>u, <2>1
  <2>4. PassOK' /\ PollingOK'
    <3>1. polls' = polls \/ polls' = polls \cup {r}
      BY <2>1
    <3>2. QED
      BY <1>t, <2>2, <3>1 DEF ConnectionOK, PassOK, PollingOK
  <2>5. QED
    BY <1>p, <1>u, <1>w, <2>1, <2>2, <2>3, <2>4 DEF ConnectionOK
<1>3. CASE TakeOther
  <2>1. /\ \E type \in {"DERControlStatusChanged", "PostRatesChanged", "DeviceReport"} :
             Take(Other(type))
        /\ passing' = ~retry
        /\ UNCHANGED <<main, upward, scheduler, events, heldCommand, control, fetched, retry,
                       polling, used>>
    BY <1>3 DEF TakeOther, Take
  <2>2. PassOK'
    BY <1>t, <2>1 DEF ConnectionOK, PassOK
  <2>3. QED
    BY <1>p, <1>u, <1>w, <2>1, <2>2 DEF ConnectionOK
<1>28. ASSUME FetchDcap \/ PassEnds
       PROVE  TypeOK'
  <2>1. UNCHANGED <<main, upward, scheduler, events, heldCommand, control, connectionInput, polling>>
    BY <1>28 DEF FetchDcap, PassEnds
  <2>2. UNCHANGED pass \/ EndPass(TRUE) \/ EndPass(FALSE)
    BY <1>28 DEF FetchDcap, PassEnds
  <2>3. Fetch(Root) \/ Fails \/ UNCHANGED <<fetched, used>>
    BY <1>28 DEF FetchDcap, PassEnds
  <2>4. used' \in Bounds /\ FetchedOK'
    BY <1>m, <1>n, <1>t, <1>u, <2>3
  <2>5. PassOK'
    BY <1>u, <2>2 DEF EndPass, PassOK
  <2>6. QED
    BY <1>p, <1>u, <2>1, <2>4, <2>5 DEF ConnectionOK
<1>4. CASE BroadcastFetched
  <2>1. /\ fetched # <<>> /\ HasRoom(resources) /\ resources' = Append(resources, Head(fetched))
        /\ polls' = polls \cup {Head(fetched)} /\ fetched' = <<>>
        /\ UNCHANGED <<main, heldResource, schedulerInput, scheduler, events, heldCommand, control,
                       connectionInput, pass, arrived, reset, used>>
    BY <1>4 DEF BroadcastFetched, Idle
  <2>2. Head(fetched) \in Resource
    BY <1>t, <2>1, HeadTail DEF ConnectionOK, FetchedOK
  <2>3. UpwardOK'
    BY <1>t, <2>1, <2>2, Sends DEF UpwardOK
  <2>4. FetchedOK' /\ PollingOK'
    BY <1>t, <2>1, <2>2, One DEF ConnectionOK, FetchedOK, PollingOK
  <2>5. QED
    BY <1>p, <1>u, <2>1, <2>3, <2>4 DEF ConnectionOK
<1>5. CASE PollArrives
  <2>1. PICK r \in polls \ arrived : arrived' = arrived \cup {r}
    BY <1>5 DEF PollArrives
  <2>2. /\ used' = [used EXCEPT !.polls = @ + 1, !.results = @ + 1]
        /\ UNCHANGED <<main, upward, scheduler, events, heldCommand, control, connectionInput,
                       fetched, pass, polls, reset>>
    BY <1>5 DEF PollArrives
  <2>3. used' \in Bounds
    BY <1>t, <2>2, Spend
  <2>4. PollingOK'
    BY <1>t, <2>1, <2>2 DEF ConnectionOK, PollingOK
  <2>5. QED
    BY <1>p, <1>u, <2>2, <2>3, <2>4 DEF ConnectionOK
<1>6. CASE PollBroadcasts
  <2>1. PICK r \in arrived :
          /\ resources' = Append(resources, r) /\ arrived' = arrived \ {r}
          /\ UNCHANGED reset \/ reset' = TRUE
    BY <1>6 DEF PollBroadcasts
  <2>2. /\ HasRoom(resources)
        /\ UNCHANGED <<main, heldResource, schedulerInput, scheduler, events, heldCommand, control,
                       connectionInput, fetched, pass, polls, used>>
    BY <1>6 DEF PollBroadcasts
  <2>3. r \in Resource /\ PollingOK'
    BY <1>t, <2>1, <2>2 DEF ConnectionOK, PollingOK
  <2>4. UpwardOK'
    BY <1>t, <2>1, <2>2, <2>3, Sends DEF UpwardOK
  <2>5. QED
    BY <1>p, <1>u, <2>2, <2>3, <2>4 DEF ConnectionOK
<1>29. CASE SendReset
  <2>1. /\ Send(Other("ResetConnection")) /\ reset' = FALSE
        /\ UNCHANGED <<main, upward, scheduler, events, heldCommand, control, fetched, pass, polls,
                       arrived, used>>
    BY <1>29 DEF SendReset
  <2>2. Other("ResetConnection") \in Command
    BY DEF Command
  <2>3. PollingOK'
    BY <1>t, <2>1 DEF ConnectionOK, PollingOK
  <2>4. QED
    BY <1>p, <1>s, <1>u, <2>1, <2>2, <2>3 DEF ConnectionOK
<1>30. CASE RetryWakes
  <2>1. /\ Send(Other("Wake"))
        /\ UNCHANGED <<main, upward, scheduler, events, heldCommand, control, connection, used>>
    BY <1>30 DEF RetryWakes
  <2>2. Other("Wake") \in Command
    BY DEF Command
  <2>3. QED
    BY <1>p, <1>s, <1>u, <2>1, <2>2
<1>31. CASE MainWakes
  <2>1. /\ Send(Other("Wake")) /\ main' = "RefreshActiveResources"
        /\ UNCHANGED <<upward, scheduler, events, heldCommand, control, connection, used>>
    BY <1>31 DEF MainWakes
  <2>2. Other("Wake") \in Command
    BY DEF Command
  <2>3. MainOK'
    BY <2>1 DEF MainOK
  <2>4. QED
    BY <1>p, <1>s, <1>u, <2>1, <2>2, <2>3
<1>32. CASE MainRefreshes
  <2>1. /\ HasRoom(schedulerInput) /\ schedulerInput' = Append(schedulerInput, Refresh)
        /\ main' = "nothing"
        /\ UNCHANGED <<resources, heldResource, scheduler, events, heldCommand, control,
                       connectionInput, connection, used>>
    BY <1>32 DEF MainRefreshes
  <2>2. Refresh \in Input
    BY DEF Input
  <2>3. UpwardOK'
    BY <1>t, <2>1, <2>2, Sends DEF UpwardOK
  <2>4. MainOK'
    BY <2>1 DEF MainOK
  <2>5. QED
    BY <1>p, <1>u, <2>1, <2>3, <2>4
<1>7. CASE ReceiveResource
  <2>1. /\ resources # <<>> /\ heldResource' = <<Head(resources)>> /\ resources' = Tail(resources)
        /\ UNCHANGED <<main, schedulerInput, scheduler, events, heldCommand, control, connectionInput,
                       connection, used>>
    BY <1>7 DEF ReceiveResource
  <2>2. Head(resources) \in Resource /\ resources' \in Seq(Resource) /\ Len(resources') <= Capacity
    BY <1>c, <1>t, <2>1, Taken DEF UpwardOK
  <2>3. heldResource' \in Seq(Resource) /\ Len(heldResource') <= 1
    BY <2>1, <2>2, One
  <2>4. UpwardOK'
    BY <1>t, <2>1, <2>2, <2>3 DEF UpwardOK
  <2>5. QED
    BY <1>p, <1>u, <2>1, <2>4
<1>8. CASE SendResource
  <2>1. /\ heldResource # <<>> /\ HasRoom(schedulerInput) /\ heldResource' = <<>>
        /\ schedulerInput' = Append(schedulerInput, Updated(Head(heldResource)))
        /\ UNCHANGED <<main, resources, scheduler, events, heldCommand, control, connectionInput,
                       connection, used>>
    BY <1>8 DEF SendResource
  <2>2. Head(heldResource) \in Resource
    BY <1>t, <2>1, HeadTail DEF UpwardOK
  <2>3. Updated(Head(heldResource)) \in Input
    BY <2>2 DEF Input
  <2>4. schedulerInput' \in Seq(Input) /\ Len(schedulerInput') <= Capacity
    BY <1>t, <2>1, <2>3, Sends DEF UpwardOK
  <2>5. UpwardOK'
    BY <1>t, <2>1, <2>4, One DEF UpwardOK
  <2>6. QED
    BY <1>p, <1>u, <2>1, <2>5
<1>9. CASE TakeRefresh
  <2>1. announcing' \in Seq(Event) /\ applied' \subseteq Resource
    BY <1>9, <1>t DEF TakeRefresh, SchedulerOK
  <2>2. QED
    BY <1>9, <1>b, <2>1 DEF TakeRefresh
<1>10. CASE TakeResource
  <2>1. PICK r \in Resource :
          /\ TakeCommand(Updated(r)) /\ MayAbortWait
          /\ announcing' = IF r \in applied THEN <<>> ELSE Announces[r]
          /\ applied' = applied \cup {r}
    BY <1>10 DEF TakeResource
  <2>2. announcing' \in Seq(Event)
    <3>1. Announces[r] \in Seq(Event)
      OBVIOUS
    <3>2. QED
      BY <2>1, <3>1, One
  <2>3. applied' \subseteq Resource
    BY <1>t, <2>1 DEF SchedulerOK
  <2>4. QED
    BY <2>1, <2>2, <2>3, <1>b
<1>23. CASE TakeNextSchedule
  <2>1. Other("ParametersChanged") \in Event
    BY DEF Event
  <2>2. announcing' \in Seq(Event)
    BY <1>23, <2>1, One DEF TakeNextSchedule
  <2>3. applied' \subseteq Resource
    BY <1>23, <1>t DEF TakeNextSchedule, SchedulerOK
  <2>4. QED
    BY <1>23, <1>b, <2>2, <2>3 DEF TakeNextSchedule
<1>11. CASE BroadcastEvent
  <2>1. /\ announcing # <<>> /\ HasRoom(toSubscriptions) /\ HasRoom(toControls)
        /\ toSubscriptions' = Append(toSubscriptions, Head(announcing))
        /\ toControls' = Append(toControls, Head(announcing))
        /\ announcing' = Tail(announcing) /\ MayAbortWait
        /\ UNCHANGED <<main, upward, applied, heldCommand, control, connectionInput, connection, used>>
    BY <1>11 DEF BroadcastEvent
  <2>2. Head(announcing) \in Event /\ Tail(announcing) \in Seq(Event)
    BY <1>t, <2>1, HeadTail DEF SchedulerOK
  <2>3. SchedulerOK'
    BY <1>t, <1>a, <2>1, <2>2 DEF SchedulerOK
  <2>4. EventsOK'
    BY <1>t, <2>1, <2>2, Sends DEF EventsOK
  <2>5. QED
    BY <1>p, <1>u, <2>1, <2>3, <2>4
<1>24. CASE WaitEnds
  <2>1. /\ used' = [used EXCEPT !.wakeUps = @ + 1] /\ wait' \in {"broadcasting", "sending"}
        /\ UNCHANGED <<main, upward, announcing, applied, events, heldCommand, control, connectionInput,
                       connection>>
    BY <1>24 DEF WaitEnds
  <2>2. used' \in Bounds
    BY <1>t, <2>1, Spend
  <2>3. SchedulerOK'
    BY <1>t, <2>1 DEF SchedulerOK
  <2>4. QED
    BY <1>p, <1>u, <2>1, <2>2, <2>3
<1>25. CASE WaitBroadcasts
  <2>1. /\ HasRoom(toSubscriptions) /\ HasRoom(toControls) /\ wait' = "sending"
        /\ toSubscriptions' = Append(toSubscriptions, Other("DERControlStatusChanged"))
        /\ toControls' = Append(toControls, Other("DERControlStatusChanged"))
        /\ UNCHANGED <<main, upward, announcing, applied, heldCommand, control, connectionInput,
                       connection, used>>
    BY <1>25 DEF WaitBroadcasts
  <2>2. Other("DERControlStatusChanged") \in Event
    BY DEF Event
  <2>3. EventsOK'
    BY <1>t, <2>1, <2>2, Sends DEF EventsOK
  <2>4. SchedulerOK'
    BY <1>t, <2>1 DEF SchedulerOK
  <2>5. QED
    BY <1>p, <1>u, <2>1, <2>3, <2>4
<1>26. CASE WaitSends
  <2>1. /\ HasRoom(schedulerInput) /\ schedulerInput' = Append(schedulerInput, NextSchedule)
        /\ wait' = "sleeping"
        /\ UNCHANGED <<main, resources, heldResource, announcing, applied, events, heldCommand, control,
                       connectionInput, connection, used>>
    BY <1>26 DEF WaitSends
  <2>2. NextSchedule \in Input
    BY DEF Input
  <2>3. UpwardOK'
    BY <1>t, <2>1, <2>2, Sends DEF UpwardOK
  <2>4. SchedulerOK'
    BY <1>t, <2>1 DEF SchedulerOK
  <2>5. QED
    BY <1>p, <1>u, <2>1, <2>3, <2>4
<1>12. CASE ReceiveEvent
  <2>1. /\ toSubscriptions # <<>> /\ toSubscriptions' = Tail(toSubscriptions)
        /\ UNCHANGED <<main, upward, scheduler, toControls, control, connectionInput, connection, used>>
    BY <1>12 DEF ReceiveEvent
  <2>2. /\ Head(toSubscriptions) \in Event
        /\ Tail(toSubscriptions) \in Seq(Event) /\ Len(Tail(toSubscriptions)) <= Capacity
    BY <1>c, <1>t, <2>1, Taken DEF EventsOK
  <2>3. heldCommand' = <<>> \/ heldCommand' = <<Head(toSubscriptions)>>
    BY <1>12 DEF ReceiveEvent
  <2>4. HeldCommandOK'
    <3>1. \A e \in Event : <<e>> \in Seq(Event) /\ Len(<<e>>) <= 1
      BY One
    <3>2. <<>> \in Seq(Event) /\ Len(<<>>) <= 1
      OBVIOUS
    <3>3. QED
      BY <2>2, <2>3, <3>1, <3>2 DEF HeldCommandOK
  <2>5. EventsOK'
    BY <1>t, <2>1, <2>2 DEF EventsOK
  <2>6. QED
    BY <1>p, <1>u, <2>1, <2>4, <2>5
<1>13. CASE SendCommand
  <2>1. /\ heldCommand # <<>> /\ Send(Head(heldCommand)) /\ heldCommand' = <<>>
        /\ UNCHANGED <<main, upward, scheduler, events, control, connection, used>>
    BY <1>13 DEF SendCommand
  <2>2. Head(heldCommand) \in Event
    BY <1>t, <2>1, HeadTail DEF HeldCommandOK
  <2>3. Head(heldCommand) \in Command
    BY <2>2 DEF Command
  <2>4. ConnectionInputOK'
    BY <1>t, <2>1, <2>3, Sends DEF ConnectionInputOK, Send
  <2>5. HeldCommandOK'
    BY <2>1, One DEF HeldCommandOK
  <2>6. QED
    BY <1>p, <1>u, <2>1, <2>4, <2>5
<1>14. CASE ReceiveControl
  <2>1. /\ toControls # <<>> /\ toControls' = Tail(toControls) /\ heldParameters' \in BOOLEAN
        /\ UNCHANGED <<main, upward, scheduler, toSubscriptions, heldCommand, modbusInput, modbus,
                       deviceEvents, heldReports, connectionInput, connection, used>>
    BY <1>14 DEF ReceiveControl
  <2>2. EventsOK'
    BY <1>c, <1>t, <2>1, Taken DEF EventsOK
  <2>3. ControlOK'
    BY <1>t, <2>1 DEF ControlOK
  <2>4. QED
    BY <1>p, <1>u, <2>1, <2>2, <2>3
<1>15. ASSUME SendParameters \/ TakeParameters \/ BroadcastReport \/ ReceiveReport
       PROVE  TypeOK'
  <2>1. UNCHANGED <<main, upward, scheduler, events, heldCommand, connectionInput, connection, used>>
    BY <1>15 DEF SendParameters, TakeParameters, BroadcastReport, ReceiveReport
  <2>2. ControlOK'
    <3>1. CASE SendParameters
      <4>1. heldParameters' \in BOOLEAN
        BY <3>1 DEF SendParameters
      <4>2. /\ modbusInput < Capacity /\ modbusInput' = modbusInput + 1
            /\ UNCHANGED <<modbus, deviceEvents, heldReports>>
        BY <3>1 DEF SendParameters
      <4>3. modbusInput' \in 0 .. Capacity
        BY <1>c, <1>t, <4>2 DEF ControlOK
      <4>4. QED
        BY <1>t, <4>1, <4>2, <4>3 DEF ControlOK
    <3>2. CASE TakeParameters
      BY <1>c, <1>t, <3>2 DEF ControlOK, TakeParameters
    <3>3. CASE BroadcastReport
      BY <1>c, <1>t, <3>3 DEF ControlOK, BroadcastReport
    <3>4. CASE ReceiveReport
      BY <1>c, <1>t, <3>4 DEF ControlOK, ReceiveReport
    <3>5. QED
      BY <1>15, <3>1, <3>2, <3>3, <3>4
  <2>3. QED
    BY <1>p, <1>u, <2>1, <2>2
<1>17. CASE PollDevice
  <2>1. /\ used' = [used EXCEPT !.reports = @ + 1] /\ modbus' = "broadcasting"
        /\ UNCHANGED <<main, upward, scheduler, events, heldCommand, heldParameters, modbusInput,
                       deviceEvents, heldReports, connectionInput, connection>>
    BY <1>17 DEF PollDevice
  <2>2. used' \in Bounds
    BY <1>t, <2>1, Spend
  <2>3. ControlOK'
    BY <1>t, <2>1 DEF ControlOK
  <2>4. QED
    BY <1>p, <1>u, <2>1, <2>2, <2>3
<1>20. CASE SendReport
  <2>1. /\ heldReports > 0 /\ Send(Other("DeviceReport")) /\ heldReports' = heldReports - 1
        /\ UNCHANGED <<main, upward, scheduler, events, heldCommand, heldParameters, modbusInput, modbus,
                       deviceEvents, connection, used>>
    BY <1>20 DEF SendReport
  <2>2. Other("DeviceReport") \in Command
    BY DEF Command
  <2>3. ConnectionInputOK'
    BY <1>t, <2>1, <2>2, Sends DEF ConnectionInputOK, Send
  <2>4. ControlOK'
    BY <1>t, <2>1 DEF ControlOK
  <2>5. QED
    BY <1>p, <1>u, <2>1, <2>3, <2>4
<1>21. CASE UNCHANGED vars
  BY <1>p, <1>u, <1>21 DEF vars
<1>22. QED
  BY <1>1, <1>2, <1>3, <1>4, <1>5, <1>6, <1>7, <1>8, <1>9, <1>10, <1>11, <1>12, <1>13, <1>14,
     <1>15, <1>17, <1>20, <1>21, <1>23, <1>24, <1>25, <1>26, <1>27, <1>28, <1>29, <1>30, <1>31,
     <1>32
     DEF Next, ConnectionTask, ResourceDispatcher, SchedulerTask, WaitTask, SubscriptionDispatcher,
         ControlDispatcher, StateDispatcher, Rest

-----------------------------------------------------------------------------
(* What is on the way up to the scheduler. *)

(* A wake-up is on its way from the end of the wait, though an abort may   *)
(* end it.                                                                 *)
Waking == IF wait \in {"broadcasting", "sending"} THEN 1 ELSE 0

OnTheWay ==
  Len(resources) + Len(heldResource) + Len(schedulerInput) + Len(fetched) + Cardinality(arrived)
    + Waking

(* The command of main, while it is in the channel and while it is to come. *)
RefreshIn == IF \E i \in 1 .. Len(schedulerInput) : schedulerInput[i] = Refresh THEN 1 ELSE 0

RefreshToCome == IF main = "nothing" THEN 0 ELSE 1

OneRefresh ==
  \A i, j \in 1 .. Len(schedulerInput) :
    schedulerInput[i] = Refresh /\ schedulerInput[j] = Refresh => i = j

(* What is on its way is some of what there has been, and the one command  *)
(* of main.  What is announced before that command is taken is announced   *)
(* for a result or wake-up that was taken, and the command has its place.  *)
Inv ==
  /\ TypeOK
  /\ IsFiniteSet(arrived)
  /\ OneRefresh
  /\ main # "nothing" => RefreshIn = 0
  /\ OnTheWay <= Sent(used) + RefreshIn
  /\ announcing # <<>> => OnTheWay + RefreshToCome <= Sent(used)

LEMMA InvInit == Init => Inv
<1> SUFFICES ASSUME Init
             PROVE  Inv
  OBVIOUS
<1>1. TypeOK
  BY TypeOKInit
<1>2. IsFiniteSet(arrived) /\ Cardinality(arrived) = 0
  BY FS_EmptySet DEF Init
<1>3. Len(schedulerInput) = 0 /\ RefreshIn = 0 /\ OneRefresh
  BY DEF Init, RefreshIn, OneRefresh
<1>4. OnTheWay = 0
  BY <1>2, <1>3 DEF Init, OnTheWay, Waking
<1>5. Sent(used) = 0
  BY DEF Init, Sent
<1>6. QED
  BY <1>1, <1>2, <1>3, <1>4, <1>5 DEF Inv, Init

LEMMA LengthsAreNaturals ==
  ASSUME TypeOK, IsFiniteSet(arrived)
  PROVE  /\ Len(resources) \in Nat /\ Len(heldResource) \in Nat /\ Len(schedulerInput) \in Nat
         /\ Len(fetched) \in Nat /\ Cardinality(arrived) \in Nat /\ Sent(used) \in Nat
         /\ Waking \in 0 .. 1 /\ RefreshIn \in 0 .. 1 /\ RefreshToCome \in 0 .. 1
         /\ OnTheWay \in Nat
<1>1. /\ resources \in Seq(Resource) /\ heldResource \in Seq(Resource)
      /\ schedulerInput \in Seq(Input) /\ fetched \in Seq(Resource)
      /\ used.results \in Nat /\ used.wakeUps \in Nat
  BY DEF TypeOK
<1>2. /\ Len(resources) \in Nat /\ Len(heldResource) \in Nat /\ Len(schedulerInput) \in Nat
      /\ Len(fetched) \in Nat
  BY <1>1
<1>3. Cardinality(arrived) \in Nat
  BY FS_CardinalityType
<1>4. Sent(used) \in Nat
  BY <1>1 DEF Sent
<1>5. Waking \in 0 .. 1
  BY DEF Waking
<1>6. RefreshIn \in 0 .. 1 /\ RefreshToCome \in 0 .. 1
  BY DEF RefreshIn, RefreshToCome
<1>7. OnTheWay \in Nat
  BY <1>2, <1>3, <1>5 DEF OnTheWay
<1>8. QED
  BY <1>2, <1>3, <1>4, <1>5, <1>6, <1>7

(* A step that sends nothing to the scheduler and takes nothing from its   *)
(* input: what comes on the way is counted, and what goes may be lost.     *)
LEMMA InvKept ==
  ASSUME Inv, TypeOK', IsFiniteSet(arrived'), UNCHANGED schedulerInput,
         main' = "nothing" <=> main = "nothing", announcing = <<>> => announcing' = <<>>,
         NEW n \in 0 .. 1, OnTheWay' <= OnTheWay + n, Sent(used') = Sent(used) + n
  PROVE  Inv'
<1>1. OneRefresh' /\ RefreshIn' = RefreshIn /\ RefreshToCome' = RefreshToCome
  BY DEF Inv, OneRefresh, RefreshIn, RefreshToCome
<1>2. /\ OnTheWay \in Nat /\ Sent(used) \in Nat /\ RefreshIn \in 0 .. 1
      /\ RefreshToCome \in 0 .. 1
  BY LengthsAreNaturals DEF Inv
<1>3. OnTheWay' \in Nat
  <2>1. (TypeOK /\ IsFiniteSet(arrived) => OnTheWay \in Nat)'
    BY LengthsAreNaturals, PTL
  <2>2. QED
    BY <2>1
<1>4. OnTheWay' <= Sent(used') + RefreshIn'
  BY <1>1, <1>2, <1>3 DEF Inv
<1>5. announcing' # <<>> => OnTheWay' + RefreshToCome' <= Sent(used')
  BY <1>1, <1>2, <1>3 DEF Inv
<1>6. QED
  BY <1>1, <1>4, <1>5 DEF Inv

(* What no step of the way up touches. *)
LEMMA InvFrame ==
  ASSUME Inv, TypeOK', UNCHANGED <<upward, fetched, arrived>>, Sent(used') = Sent(used),
         main' = "nothing" <=> main = "nothing", Waking' <= Waking,
         announcing = <<>> => announcing' = <<>>
  PROVE  Inv'
<1>1. UNCHANGED <<resources, heldResource, schedulerInput, fetched, arrived>>
  BY DEF upward
<1>2. OnTheWay' <= OnTheWay
  BY <1>1, LengthsAreNaturals DEF OnTheWay, Inv, Waking
<1>3. OnTheWay \in Nat /\ Sent(used) \in Nat /\ OnTheWay <= OnTheWay + 0
  BY LengthsAreNaturals DEF Inv
<1>4. Sent(used') = Sent(used) + 0 /\ OnTheWay' <= OnTheWay + 0
  BY <1>2, <1>3
<1>5. IsFiniteSet(arrived')
  BY <1>1 DEF Inv
<1>6. QED
  BY <1>1, <1>4, <1>5, InvKept

(* Fetch: one more result, in one more place. *)
LEMMA InvFetch ==
  ASSUME Inv, TypeOK', NEW r \in Resource, Idle, Fetch(r),
         UNCHANGED <<main, upward, scheduler, arrived>>
  PROVE  Inv'
<1>1. Len(fetched) = 0 /\ Len(fetched') = 1
  BY One DEF Idle, Fetch
<1>2. Sent(used') = Sent(used) + 1
  BY Spend DEF Inv, TypeOK, Bounds, Fetch
<1>3. UNCHANGED <<resources, heldResource, schedulerInput, announcing, arrived, Waking>>
  BY DEF upward, scheduler, Waking
<1>4. OnTheWay' = OnTheWay + 1
  BY <1>1, <1>3, LengthsAreNaturals DEF OnTheWay, Inv
<1>5. OnTheWay' <= OnTheWay + 1
  BY <1>4, LengthsAreNaturals DEF Inv
<1>6. IsFiniteSet(arrived')
  BY <1>3 DEF Inv
<1>7. QED
  BY <1>2, <1>3, <1>5, <1>6, InvKept

LEMMA WakingKept == wait' = wait => Waking' <= Waking
BY DEF Waking

(* A message moves on, or one comes that is counted. *)
LEMMA InvMoves ==
  ASSUME Inv, TypeOK', IsFiniteSet(arrived'), UNCHANGED <<main, schedulerInput, announcing>>,
         \/ OnTheWay' = OnTheWay /\ Sent(used') = Sent(used)
         \/ OnTheWay' = OnTheWay + 1 /\ Sent(used') = Sent(used) + 1
  PROVE  Inv'
<1>1. OnTheWay \in Nat /\ Sent(used) \in Nat
  BY LengthsAreNaturals DEF Inv
<1>2. CASE OnTheWay' = OnTheWay /\ Sent(used') = Sent(used)
  <2>1. OnTheWay' <= OnTheWay + 0 /\ Sent(used') = Sent(used) + 0
    BY <1>1, <1>2
  <2>2. QED
    BY <2>1, InvKept
<1>3. CASE OnTheWay' = OnTheWay + 1 /\ Sent(used') = Sent(used) + 1
  <2>1. OnTheWay' <= OnTheWay + 1
    BY <1>1, <1>3
  <2>2. QED
    BY <2>1, <1>3, InvKept
<1>4. QED
  BY <1>2, <1>3

LEMMA Appended ==
  ASSUME TypeOK, OneRefresh, NEW x \in Input, schedulerInput' = Append(schedulerInput, x),
         x = Refresh => RefreshIn = 0
  PROVE  /\ Len(schedulerInput') = Len(schedulerInput) + 1
         /\ RefreshIn' = IF x = Refresh THEN 1 ELSE RefreshIn
         /\ OneRefresh'
<1>1. schedulerInput \in Seq(Input)
  BY DEF TypeOK
<1>2. /\ Len(schedulerInput') = Len(schedulerInput) + 1
      /\ \A i \in 1 .. Len(schedulerInput) : schedulerInput'[i] = schedulerInput[i]
      /\ schedulerInput'[Len(schedulerInput) + 1] = x
      /\ Len(schedulerInput) \in Nat
  BY <1>1, OneMore
<1>3. \A i \in 1 .. Len(schedulerInput') :
        i \in 1 .. Len(schedulerInput) \/ i = Len(schedulerInput) + 1
  BY <1>2
<1>4. 1 .. Len(schedulerInput) \subseteq 1 .. Len(schedulerInput')
      /\ Len(schedulerInput) + 1 \in 1 .. Len(schedulerInput')
  BY <1>2
<1>5. CASE x = Refresh
  <2>1. \A i \in 1 .. Len(schedulerInput) : schedulerInput[i] # Refresh
    BY <1>5 DEF RefreshIn
  <2>2. \A i \in 1 .. Len(schedulerInput') :
          schedulerInput'[i] = Refresh => i = Len(schedulerInput) + 1
    BY <1>2, <1>3, <2>1
  <2>3. RefreshIn' = 1 /\ OneRefresh'
    BY <1>2, <1>4, <1>5, <2>2 DEF RefreshIn, OneRefresh
  <2>4. QED
    BY <1>2, <1>5, <2>3
<1>6. CASE x # Refresh
  <2>1. \A i \in 1 .. Len(schedulerInput') :
          schedulerInput'[i] = Refresh
            => i \in 1 .. Len(schedulerInput) /\ schedulerInput[i] = Refresh
    BY <1>2, <1>3, <1>6
  <2>2. \A i \in 1 .. Len(schedulerInput) :
          schedulerInput[i] = Refresh
            => i \in 1 .. Len(schedulerInput') /\ schedulerInput'[i] = Refresh
    BY <1>2, <1>4
  <2>3. RefreshIn' = RefreshIn
    BY <2>1, <2>2 DEF RefreshIn
  <2>4. OneRefresh'
    BY <2>1 DEF OneRefresh
  <2>5. QED
    BY <1>2, <1>6, <2>3, <2>4
<1>7. QED
  BY <1>5, <1>6

(* What is sent to the scheduler by others than main. *)
LEMMA InvSends ==
  ASSUME Inv, TypeOK', NEW x \in Input, x # Refresh,
         schedulerInput' = Append(schedulerInput, x), OnTheWay' = OnTheWay,
         UNCHANGED <<main, announcing, arrived, used>>
  PROVE  Inv'
<1>1. TypeOK /\ OneRefresh
  BY DEF Inv
<1>2. RefreshIn' = RefreshIn /\ OneRefresh'
  BY <1>1, Appended
<1>3. RefreshToCome' = RefreshToCome
  BY DEF RefreshToCome
<1>4. QED
  BY <1>2, <1>3 DEF Inv

(* A message is taken from the scheduler's input, and it may announce. *)
LEMMA InvTakes ==
  ASSUME Inv, TypeOK', NEW command, TakeCommand(command), MayAbortWait
  PROVE  Inv'
<1>0. TypeOK /\ IsFiniteSet(arrived) /\ OneRefresh
  BY DEF Inv
<1>1. /\ schedulerInput # <<>> /\ schedulerInput' = Tail(schedulerInput)
      /\ Head(schedulerInput) = command
      /\ UNCHANGED <<main, resources, heldResource, fetched, arrived, used>>
  BY DEF TakeCommand, connection, polling
<1>2. Waking' <= Waking /\ Waking' \in 0 .. 1
  BY DEF MayAbortWait, Waking
<1>3. schedulerInput \in Seq(Input)
  BY <1>0 DEF TypeOK
<1>4. /\ Len(schedulerInput') = Len(schedulerInput) - 1
      /\ \A i \in 1 .. Len(schedulerInput) - 1 : schedulerInput'[i] = schedulerInput[i + 1]
      /\ Len(schedulerInput') \in Nat /\ Len(schedulerInput) \in Nat \ {0}
      /\ command = schedulerInput[1]
  BY <1>1, <1>3, HeadTail
<1>5. \A i \in 1 .. Len(schedulerInput') :
        i + 1 \in 1 .. Len(schedulerInput) /\ schedulerInput'[i] = schedulerInput[i + 1]
  BY <1>4
<1>6. OneRefresh'
  <2> SUFFICES ASSUME NEW i \in 1 .. Len(schedulerInput'), NEW j \in 1 .. Len(schedulerInput'),
                      schedulerInput'[i] = Refresh, schedulerInput'[j] = Refresh
               PROVE  i = j
    BY DEF OneRefresh
  <2>1. i + 1 = j + 1
    BY <1>0, <1>5 DEF OneRefresh
  <2>2. QED
    BY <2>1, <1>4
<1>7. RefreshIn' <= RefreshIn /\ RefreshIn' \in 0 .. 1
  BY <1>5 DEF RefreshIn
<1>8. command = Refresh => RefreshIn = 1 /\ RefreshIn' = 0
  <2> SUFFICES ASSUME command = Refresh
               PROVE  RefreshIn = 1 /\ RefreshIn' = 0
    OBVIOUS
  <2>1. 1 \in 1 .. Len(schedulerInput) /\ schedulerInput[1] = Refresh
    BY <1>4
  <2>2. \A i \in 1 .. Len(schedulerInput') : schedulerInput'[i] # Refresh
    <3> SUFFICES ASSUME NEW i \in 1 .. Len(schedulerInput'), schedulerInput'[i] = Refresh
                 PROVE  FALSE
      OBVIOUS
    <3>1. i + 1 = 1
      BY <1>0, <1>5, <2>1 DEF OneRefresh
    <3>2. QED
      BY <3>1
  <2>3. QED
    BY <2>1, <2>2 DEF RefreshIn
<1>9. command # Refresh => RefreshIn' = RefreshIn
  <2> SUFFICES ASSUME command # Refresh, RefreshIn = 1
               PROVE  RefreshIn' = 1
    BY <1>7 DEF RefreshIn
  <2>1. PICK i \in 1 .. Len(schedulerInput) : schedulerInput[i] = Refresh
    BY DEF RefreshIn
  <2>2. i # 1
    BY <1>4, <2>1
  <2>3. i - 1 \in 1 .. Len(schedulerInput') /\ schedulerInput'[i - 1] = schedulerInput[(i - 1) + 1]
        /\ (i - 1) + 1 = i
    BY <1>4, <2>1, <2>2
  <2>4. QED
    BY <2>1, <2>3 DEF RefreshIn
<1>10. /\ OnTheWay' <= OnTheWay - 1 /\ OnTheWay' \in Nat /\ OnTheWay \in Nat
       /\ Sent(used) \in Nat /\ RefreshIn \in 0 .. 1 /\ RefreshToCome \in 0 .. 1
  <2> DEFINE rest == Len(resources) + Len(heldResource) + Len(fetched) + Cardinality(arrived)
  <2>1. /\ Len(resources) \in Nat /\ Len(heldResource) \in Nat /\ Len(fetched) \in Nat
        /\ Cardinality(arrived) \in Nat /\ Sent(used) \in Nat /\ Waking \in 0 .. 1
        /\ RefreshIn \in 0 .. 1 /\ RefreshToCome \in 0 .. 1
    BY <1>0, LengthsAreNaturals
  <2>2. rest \in Nat /\ rest' = rest
    BY <1>1, <2>1
  <2>3. OnTheWay = rest + Len(schedulerInput) + Waking
    BY <1>4, <2>1 DEF OnTheWay
  <2>4. OnTheWay' = rest' + Len(schedulerInput') + Waking'
    BY <1>1, <1>2, <1>4, <2>1 DEF OnTheWay
  <2> HIDE DEF rest
  <2>5. OnTheWay' \in Nat /\ OnTheWay \in Nat
    BY <1>2, <1>4, <2>1, <2>2, <2>3, <2>4
  <2>6. OnTheWay' <= OnTheWay - 1
    BY <1>2, <1>4, <2>1, <2>2, <2>3, <2>4
  <2>7. QED
    BY <2>1, <2>5, <2>6
<1>11. main # "nothing" => RefreshIn = 0 /\ RefreshIn' = 0
  BY <1>7 DEF Inv
<1>12. RefreshToCome' = RefreshToCome
  BY <1>1 DEF RefreshToCome
<1>13. OnTheWay' <= Sent(used') + RefreshIn'
  BY <1>1, <1>7, <1>8, <1>9, <1>10 DEF Inv
<1>14. OnTheWay' + RefreshToCome' <= Sent(used')
  <2>1. CASE main # "nothing"
    <3>1. OnTheWay <= Sent(used)
      BY <1>10, <1>11, <2>1 DEF Inv
    <3>2. QED
      BY <1>1, <1>10, <1>12, <3>1
  <2>2. CASE main = "nothing"
    <3>1. RefreshToCome = 0 /\ OnTheWay <= Sent(used) + RefreshIn
      BY <2>2 DEF RefreshToCome, Inv
    <3>2. QED
      BY <1>1, <1>10, <1>12, <3>1
  <2>3. QED
    BY <2>1, <2>2
<1>15. QED
  BY <1>0, <1>1, <1>6, <1>11, <1>13, <1>14 DEF Inv

LEMMA InvStep == Inv /\ [Next]_vars => Inv'
<1> SUFFICES ASSUME Inv, [Next]_vars
             PROVE  Inv'
  OBVIOUS
<1>0. TypeOK /\ TypeOK' /\ IsFiniteSet(arrived)
  BY TypeOKStep DEF Inv
<1>a. /\ Len(resources) \in Nat /\ Len(heldResource) \in Nat /\ Len(schedulerInput) \in Nat
      /\ Len(fetched) \in Nat /\ Cardinality(arrived) \in Nat /\ Sent(used) \in Nat
      /\ Waking \in 0 .. 1 /\ RefreshIn \in 0 .. 1
      /\ OnTheWay \in Nat
  BY <1>0, LengthsAreNaturals
<1>f. Fails => Sent(used') = Sent(used) /\ UNCHANGED fetched
  BY <1>0, Spend DEF Fails, TypeOK, Bounds
<1>1. CASE TakeWake
  BY <1>1, <1>0, InvFrame, WakingKept DEF TakeWake, Take, scheduler, polling
<1>2. CASE TakeSubscription
  <2>1. PICK r \in Resource :
          /\ Take(Link(r))
          /\ \/ UNCHANGED <<fetched, used>>
             \/ Fetch(r)
             \/ Fails
    BY <1>2 DEF TakeSubscription
  <2>2. Idle /\ UNCHANGED <<main, upward, scheduler, arrived>>
    BY <1>2, <2>1 DEF Take, TakeSubscription
  <2>3. CASE Fetch(r)
    BY <2>2, <2>3, <1>0, InvFetch
  <2>4. CASE Fails
    BY <2>2, <2>4, <1>f, <1>0, InvFrame, WakingKept DEF scheduler
  <2>5. CASE UNCHANGED <<fetched, used>>
    BY <2>2, <2>5, <1>0, InvFrame, WakingKept DEF scheduler
  <2>6. QED
    BY <2>1, <2>3, <2>4, <2>5
<1>3. CASE TakeOther
  BY <1>3, <1>0, InvFrame, WakingKept DEF TakeOther, Take, scheduler, polling
<1>4. CASE BroadcastFetched
  <2>1. /\ fetched # <<>> /\ resources' = Append(resources, Head(fetched)) /\ fetched' = <<>>
        /\ UNCHANGED <<main, heldResource, schedulerInput, announcing, arrived, used, Waking>>
    BY <1>4 DEF BroadcastFetched, Idle, scheduler, Waking
  <2>2. Len(fetched) = 1 /\ Len(fetched') = 0 /\ Head(fetched) \in Resource
    <3>1. fetched \in Seq(Resource) /\ Len(fetched) <= 1
      BY <1>0 DEF TypeOK
    <3>2. Head(fetched) \in Resource /\ Len(fetched) \in Nat \ {0}
      BY <2>1, <3>1, HeadTail
    <3>3. Len(fetched') = 0
      BY <2>1
    <3>4. Len(fetched) = 1
      BY <2>1, <3>1, HeldIsOne
    <3>5. QED
      BY <3>2, <3>3, <3>4
  <2>3. Len(resources') = Len(resources) + 1
    BY <2>1, <2>2, <1>0, OneMore DEF TypeOK
  <2>4. OnTheWay' = OnTheWay
    BY <2>1, <2>2, <2>3, <1>a DEF OnTheWay
  <2>5. QED
    BY <2>1, <2>4, <1>0, InvMoves
<1>5. CASE PollArrives
  <2>1. PICK r \in polls \ arrived : arrived' = arrived \cup {r}
    BY <1>5 DEF PollArrives
  <2>2. IsFiniteSet(arrived') /\ Cardinality(arrived') = Cardinality(arrived) + 1
    BY <2>1, <1>0, FS_AddElement
  <2>3. UNCHANGED <<main, resources, heldResource, schedulerInput, announcing, fetched, Waking>>
    BY <1>5 DEF PollArrives, upward, scheduler, Waking
  <2>4. Sent(used') = Sent(used) + 1
    BY <1>5, <1>0, Spend DEF PollArrives, TypeOK, Bounds
  <2>5. OnTheWay' = OnTheWay + 1
    BY <2>2, <2>3, <1>a DEF OnTheWay
  <2>6. QED
    BY <2>2, <2>3, <2>4, <2>5, <1>0, InvMoves
<1>6. CASE PollBroadcasts
  <2>1. PICK r \in arrived : resources' = Append(resources, r) /\ arrived' = arrived \ {r}
    BY <1>6 DEF PollBroadcasts
  <2>2. IsFiniteSet(arrived') /\ Cardinality(arrived') = Cardinality(arrived) - 1
    BY <2>1, <1>0, FS_RemoveElement
  <2>3. UNCHANGED <<main, heldResource, schedulerInput, announcing, fetched, used, Waking>>
    BY <1>6 DEF PollBroadcasts, scheduler, Waking
  <2>4. Len(resources') = Len(resources) + 1
    BY <2>1, <1>0, OneMore DEF TypeOK
  <2>5. OnTheWay' = OnTheWay
    BY <2>2, <2>3, <2>4, <1>a DEF OnTheWay
  <2>6. QED
    BY <2>2, <2>3, <2>5, <1>0, InvMoves
<1>7. CASE ReceiveResource
  <2>1. /\ heldResource = <<>> /\ resources # <<>> /\ heldResource' = <<Head(resources)>>
        /\ resources' = Tail(resources)
        /\ UNCHANGED <<main, schedulerInput, announcing, fetched, arrived, used, Waking>>
    BY <1>7 DEF ReceiveResource, scheduler, connection, polling, Waking
  <2>2. Len(resources') = Len(resources) - 1
    BY <2>1, <1>0, HeadTail DEF TypeOK
  <2>3. Len(heldResource) = 0 /\ Len(heldResource') = 1
    BY <2>1, One
  <2>4. OnTheWay' = OnTheWay
    BY <2>1, <2>2, <2>3, <1>a DEF OnTheWay
  <2>5. QED
    BY <2>1, <2>4, <1>0, InvMoves
<1>8. CASE SendResource
  <2>1. /\ heldResource # <<>> /\ heldResource' = <<>>
        /\ schedulerInput' = Append(schedulerInput, Updated(Head(heldResource)))
        /\ UNCHANGED <<main, resources, announcing, fetched, arrived, used, Waking>>
    BY <1>8 DEF SendResource, scheduler, connection, polling, Waking
  <2>2. Len(heldResource) = 1 /\ Len(heldResource') = 0 /\ Head(heldResource) \in Resource
    <3>1. heldResource \in Seq(Resource) /\ Len(heldResource) <= 1
      BY <1>0 DEF TypeOK
    <3>2. Head(heldResource) \in Resource /\ Len(heldResource) \in Nat \ {0}
      BY <2>1, <3>1, HeadTail
    <3>3. Len(heldResource') = 0
      BY <2>1
    <3>4. Len(heldResource) = 1
      BY <2>1, <3>1, HeldIsOne
    <3>5. QED
      BY <3>2, <3>3, <3>4
  <2>3. Updated(Head(heldResource)) \in Input /\ Updated(Head(heldResource)) # Refresh
    BY <2>2 DEF Input, Updated, Refresh, Other
  <2>4. Len(schedulerInput') = Len(schedulerInput) + 1
    BY <2>1, <2>3, <1>0, OneMore DEF TypeOK
  <2>5. OnTheWay' = OnTheWay
    BY <2>1, <2>2, <2>4, <1>a DEF OnTheWay
  <2>6. QED
    BY <2>1, <2>3, <2>5, <1>0, InvSends
<1>9. CASE TakeRefresh
  BY <1>9, <1>0, InvTakes DEF TakeRefresh
<1>10. CASE TakeResource
  BY <1>10, <1>0, InvTakes DEF TakeResource
<1>11. CASE BroadcastEvent
  BY <1>11, <1>0, InvFrame DEF BroadcastEvent, MayAbortWait, Waking, connection, polling
<1>12. CASE ReceiveEvent
  BY <1>12, <1>0, InvFrame, WakingKept DEF ReceiveEvent, scheduler, connection, polling
<1>13. CASE SendCommand
  BY <1>13, <1>0, InvFrame, WakingKept DEF SendCommand, scheduler, connection, polling
<1>14. CASE ReceiveControl
  BY <1>14, <1>0, InvFrame, WakingKept DEF ReceiveControl, scheduler, connection, polling
<1>15. CASE SendParameters
  BY <1>15, <1>0, InvFrame, WakingKept DEF SendParameters, scheduler, connection, polling
<1>16. CASE TakeParameters
  BY <1>16, <1>0, InvFrame, WakingKept DEF TakeParameters, scheduler, connection, polling
<1>17. CASE PollDevice
  <2>1. Sent(used') = Sent(used)
    BY <1>17, <1>0, Spend DEF PollDevice, TypeOK, Bounds
  <2>2. QED
    BY <2>1, <1>17, <1>0, InvFrame, WakingKept DEF PollDevice, scheduler, connection, polling
<1>18. CASE BroadcastReport
  BY <1>18, <1>0, InvFrame, WakingKept DEF BroadcastReport, scheduler, connection, polling
<1>19. CASE ReceiveReport
  BY <1>19, <1>0, InvFrame, WakingKept DEF ReceiveReport, scheduler, connection, polling
<1>20. CASE SendReport
  BY <1>20, <1>0, InvFrame, WakingKept DEF SendReport, scheduler, connection, polling
<1>21. CASE UNCHANGED vars
  BY <1>21, <1>0, InvFrame, WakingKept DEF vars, upward, scheduler, connection, polling
<1>23. CASE TakeNextSchedule
  BY <1>23, <1>0, InvTakes DEF TakeNextSchedule
<1>24. CASE WaitEnds
  <2>1. Sent(used') = Sent(used) + 1
    BY <1>24, <1>0, Spend DEF WaitEnds, TypeOK, Bounds
  <2>2. Waking = 0 /\ Waking' = 1
    BY <1>24 DEF WaitEnds, Waking
  <2>3. UNCHANGED <<main, resources, heldResource, schedulerInput, announcing, fetched, arrived>>
    BY <1>24 DEF WaitEnds, upward, connection, polling
  <2>4. OnTheWay' = OnTheWay + 1
    BY <2>2, <2>3, <1>a DEF OnTheWay
  <2>5. QED
    BY <2>1, <2>3, <2>4, <1>0, InvMoves
<1>25. CASE WaitBroadcasts
  BY <1>25, <1>0, InvFrame DEF WaitBroadcasts, connection, polling, Waking
<1>26. CASE WaitSends
  <2>1. /\ schedulerInput' = Append(schedulerInput, NextSchedule) /\ wait = "sending"
        /\ UNCHANGED <<main, resources, heldResource, announcing, fetched, arrived, used>>
    BY <1>26 DEF WaitSends, connection, polling
  <2>2. Waking = 1 /\ Waking' = 0
    BY <1>26 DEF WaitSends, Waking
  <2>3. NextSchedule \in Input /\ NextSchedule # Refresh
    BY DEF Input, NextSchedule, Refresh, Other
  <2>4. Len(schedulerInput') = Len(schedulerInput) + 1
    BY <2>1, <2>3, <1>0, OneMore DEF TypeOK
  <2>5. OnTheWay' = OnTheWay
    BY <2>1, <2>2, <2>4, <1>a DEF OnTheWay
  <2>6. QED
    BY <2>1, <2>3, <2>5, <1>0, InvSends
<1>27. CASE TakeReset
  <2>1. /\ arrived' = arrived \ {Root}
        /\ UNCHANGED <<main, resources, heldResource, schedulerInput, announcing, fetched, used,
                       Waking>>
    BY <1>27 DEF TakeReset, Take, upward, scheduler, Waking
  <2>2. arrived' \subseteq arrived
    BY <2>1
  <2>3. IsFiniteSet(arrived') /\ Cardinality(arrived') <= Cardinality(arrived)
        /\ Cardinality(arrived') \in Nat
    BY <2>2, <1>0, FS_Subset, FS_CardinalityType
  <2>4. OnTheWay' <= OnTheWay
    BY <2>1, <2>3, <1>a DEF OnTheWay
  <2>5. OnTheWay' <= OnTheWay + 0 /\ Sent(used') = Sent(used) + 0
    BY <2>1, <2>4, <1>a
  <2>6. QED
    BY <2>1, <2>3, <2>5, <1>0, InvKept
<1>28. CASE FetchDcap
  <2>1. Idle /\ UNCHANGED <<main, upward, scheduler, arrived>> /\ (Fetch(Root) \/ Fails)
    BY <1>28 DEF FetchDcap, polling
  <2>2. CASE Fetch(Root)
    BY <2>1, <2>2, <1>0, InvFetch, ChannelsAssumption
  <2>3. CASE Fails
    BY <2>1, <2>3, <1>f, <1>0, InvFrame, WakingKept DEF scheduler
  <2>4. QED
    BY <2>1, <2>2, <2>3
<1>29. CASE PassEnds
  <2>1. /\ UNCHANGED <<main, upward, scheduler, arrived>>
        /\ UNCHANGED <<fetched, used>> \/ Fails
    BY <1>29 DEF PassEnds, polling
  <2>2. QED
    BY <2>1, <1>f, <1>0, InvFrame, WakingKept DEF scheduler
<1>30. CASE RetryWakes
  BY <1>30, <1>0, InvFrame, WakingKept DEF RetryWakes, scheduler, connection, polling
<1>31. CASE SendReset
  BY <1>31, <1>0, InvFrame, WakingKept DEF SendReset, scheduler
<1>32. CASE MainWakes
  BY <1>32, <1>0, InvFrame, WakingKept DEF MainWakes, scheduler, connection, polling
<1>33. CASE MainRefreshes
  <2>1. /\ schedulerInput' = Append(schedulerInput, Refresh)
        /\ main = "RefreshActiveResources" /\ main' = "nothing"
        /\ UNCHANGED <<resources, heldResource, announcing, fetched, arrived, used, Waking>>
    BY <1>33 DEF MainRefreshes, scheduler, connection, polling, Waking
  <2>2. Refresh \in Input /\ RefreshIn = 0 /\ OneRefresh
    BY <2>1 DEF Input, Inv
  <2>3. Len(schedulerInput') = Len(schedulerInput) + 1 /\ RefreshIn' = 1 /\ OneRefresh'
    BY <2>1, <2>2, <1>0, Appended
  <2>4. OnTheWay' = OnTheWay + 1
    BY <2>1, <2>3, <1>a DEF OnTheWay
  <2>5. RefreshToCome = 1 /\ RefreshToCome' = 0
    BY <2>1 DEF RefreshToCome
  <2>6. OnTheWay' <= Sent(used') + RefreshIn'
    BY <2>1, <2>2, <2>3, <2>4, <1>a DEF Inv
  <2>7. announcing' # <<>> => OnTheWay' + RefreshToCome' <= Sent(used')
    BY <2>1, <2>4, <2>5, <1>a DEF Inv
  <2>8. QED
    BY <2>1, <2>3, <2>6, <2>7, <1>0 DEF Inv
<1>22. QED
  BY <1>1, <1>2, <1>3, <1>4, <1>5, <1>6, <1>7, <1>8, <1>9, <1>10, <1>11, <1>12, <1>13, <1>14,
     <1>15, <1>16, <1>17, <1>18, <1>19, <1>20, <1>21, <1>23, <1>24, <1>25, <1>26, <1>27, <1>28,
     <1>29, <1>30, <1>31, <1>32, <1>33
     DEF Next, ConnectionTask, ResourceDispatcher, SchedulerTask, WaitTask, SubscriptionDispatcher,
         ControlDispatcher, StateDispatcher, Rest

(* TypeOK, for every capacity and server: no channel of main.rs holds more *)
(* than it has room for.                                                   *)
THEOREM ChannelsAreBounded == Spec => []TypeOK
BY TypeOKInit, TypeOKStep, PTL DEF Spec

(* StandstillNeedsBurst, for every capacity c: the circle of waiting tasks *)
(* closes only after 2c + 2 results and wake-ups, 22 for the channels of   *)
(* main.rs, since two full channels and two tasks that hold one close it.  *)
THEOREM NoStandstillBeforeBurst == Spec => []StandstillNeedsBurst
<1>1. Inv => StandstillNeedsBurst
  <2> SUFFICES ASSUME Inv, Standstill
               PROVE  Sent(used) >= 2 * Capacity + 2
    BY DEF StandstillNeedsBurst, Sent
  <2>1. /\ Len(resources) \in Nat /\ Len(heldResource) \in Nat /\ Len(schedulerInput) \in Nat
        /\ Len(fetched) \in Nat /\ Cardinality(arrived) \in Nat /\ Sent(used) \in Nat
      /\ Waking \in 0 .. 1
    BY LengthsAreNaturals DEF Inv
  <2>2. Len(resources) >= Capacity /\ Len(schedulerInput) >= Capacity /\ Capacity \in Nat
    BY <2>1, ChannelsAssumption DEF Standstill, HasRoom
  <2>3. Len(heldResource) >= 1 /\ Len(fetched) >= 1
    BY HeadTail DEF Standstill, Idle, Inv, TypeOK
  <2>4. OnTheWay + RefreshToCome <= Sent(used) /\ OnTheWay \in Nat /\ RefreshToCome \in 0 .. 1
    BY LengthsAreNaturals DEF Standstill, Inv
  <2>5. QED
    BY <2>1, <2>2, <2>3, <2>4 DEF OnTheWay
<1>2. QED
  BY <1>1, InvInit, InvStep, PTL DEF Spec

=============================================================================
