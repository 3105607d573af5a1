---------------------------- MODULE MCScheduler ----------------------------
(***************************************************************************)
(* Instances of Scheduler for TLC: two controls of one program, which      *)
(* overlap, with a default; a second program of better primacy with a      *)
(* default only.                                                           *)
(***************************************************************************)
EXTENDS Scheduler

CONSTANTS r1, c1, c2, p1, p2, a, b, v1, v2, v3

Control(mrid, status, creation, start, duration, required, base, random) ==
  [mrid |-> mrid, status |-> status, creation |-> creation, start |-> start,
   duration |-> duration, required |-> required, base |-> base,
   randomizeStart |-> random, randomizeDuration |-> 0]

(* c1 sets one attribute and has a randomised start; c2 is newer, sets both *)
(* attributes, starts later and ends with c1's nominal end.                 *)
C1(status) ==
  Control(c1, status, 1, 1, 2, ResponseRequired, a :> v1, 1)

C2(status) ==
  Control(c2, status, 2, 2, 1, ResponseRequired, a :> v2 @@ b :> v2, 0)

MCControlLists ==
  {[program |-> p1, items |-> s] :
     s \in {<<>>, <<C1("Active")>>, <<C1("Cancelled"), C2("Scheduled")>>,
            <<C1("Scheduled"), C2("Scheduled")>>}}

(* The lists for the runs that look at one control: c1, randomised or not. *)
MCRandomList == {[program |-> p1, items |-> <<C1("Scheduled")>>]}

MCFixedLists ==
  {[program |-> p1, items |-> s] : s \in {<<C2("Scheduled")>>, <<C2("Active")>>}}

(* What a theorem asks of a server. *)
ASSUME MCListsAssumption == RequirementsStay(MCControlLists)

MCOneProgram == {p1 :> 1}

MCProgramLists == {p1 :> 1, p1 :> 1 @@ p2 :> 0}

MCDefaults == {[program |-> p2, base |-> b :> v3], [program |-> p1, base |-> a :> v3]}

=============================================================================
