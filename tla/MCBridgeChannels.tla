-------------------------- MODULE MCBridgeChannels --------------------------
(* Instances of BridgeChannels for TLC. *)
EXTENDS BridgeChannels

(* A server whose programs are known from before; its DeviceCapability is  *)
(* not, and links a Time.                                                  *)
MCResource == {"dcap", "time", "programs", "program"}

MCPolled == MCResource \ {"dcap", "program"}

MCAtStart == <<Link("programs"), Link("program")>>

MCAnnounces ==
  [r \in MCResource |-> IF r = "dcap" THEN <<Link("time")>> ELSE <<>>]

Limit(p, w, r, f) == [polls |-> p, wakeUps |-> w, reports |-> r, failures |-> f]

(* An answered poll, which may be that of a new DeviceCapability, and a    *)
(* failure; or the wait task; or three reports, for which its channel has  *)
(* no room; or a report and a failure.  The results and wake-ups are at    *)
(* most five, one less than the circle needs: three resources, the poll    *)
(* and the DeviceCapability fetched again.                                 *)
MCLimits == {Limit(1, 0, 0, 1), Limit(0, 1, 0, 0), Limit(0, 0, 3, 0), Limit(0, 0, 1, 1)}

BurstLimits == {Limit(0, 0, 0, 0)}

(* The persisted model of six programs: a Time, then of each program its   *)
(* curves, its controls, its default control and itself, which is not      *)
(* polled.                                                                 *)
BurstLinks == 1 .. 25

BurstAtStart ==
  [i \in BurstLinks |-> Link(i)] \o <<Other("PostRatesChanged"), Other("ParametersChanged")>>

BurstResource == BurstLinks \cup {0}

BurstPolled == {r \in BurstLinks : r = 1 \/ r % 4 # 1}

BurstAnnounces == [r \in BurstResource |-> <<>>]

=============================================================================
