-------------------------- MODULE MCSubscriptions --------------------------
(* Instances of Subscriptions for TLC. *)
EXTENDS Subscriptions

Doc(kind, href, rate, items) == [kind |-> kind, href |-> href, rate |-> rate, items |-> items]

Item(id, href, links) == [id |-> id, href |-> href, links |-> links]

To(kind, href) == [kind |-> kind, href |-> href]

Dcap(links) == Doc("DeviceCapability", 1, NoRate, <<Item("dcap", 1, links)>>)

EDL(href, rate, links) == Doc("EndDeviceList", href, rate, <<Item("device", 3, links)>>)

FSAL(href, programs) ==
  Doc("FunctionSetAssignmentsList", href, NoRate,
      <<Item("fsa", 5, <<To("DERProgramList", programs)>>)>>)

DERPL(rate, links) == Doc("DERProgramList", 6, rate, <<Item("program", 7, links)>>)

DERCL(href) == Doc("DERControlList", href, 60, <<Item("control", 9, <<>>)>>)

Default == Doc("DefaultDERControl", 10, NoRate, <<>>)

Time(rate) == Doc("Time", 2, rate, <<>>)

(* A server that moves the list of a device's assignments, gives its lists  *)
(* other rates, and a program a default instead of a list of controls.      *)
MCTrees ==
  << <<Dcap(<<To("EndDeviceList", 20)>>),
       EDL(20, 60, <<To("FunctionSetAssignmentsList", 4)>>),
       FSAL(4, 6), DERPL(NoRate, <<To("DERControlList", 8)>>), DERCL(8)>>,
     <<Dcap(<<To("EndDeviceList", 20)>>),
       EDL(20, NoRate, <<To("FunctionSetAssignmentsList", 11)>>),
       FSAL(11, 6), DERPL(30, <<To("DefaultDERControl", 10)>>), Default>> >>

(* What the theorems ask of a server. *)
ASSUME MCTreesAssumption == KindsStay(MCTrees) /\ MirrorsStay(MCTrees)

MUPL(href, rate) == Doc("MirrorUsagePointList", href, rate, <<>>)

(* A server that moves its MirrorUsagePointList. *)
MovedTrees ==
  << <<Dcap(<<To("Time", 2), To("MirrorUsagePointList", 30)>>), Time(60), MUPL(30, 60)>>,
     <<Dcap(<<To("Time", 2), To("MirrorUsagePointList", 31)>>), Time(60), MUPL(31, NoRate)>> >>

=============================================================================
