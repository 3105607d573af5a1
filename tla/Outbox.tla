------------------------------- MODULE Outbox -------------------------------
(***************************************************************************)
(* What the connection task promises about control responses.  They are    *)
(* numbered in the order the task takes them in.  It posts them in that    *)
(* order, retries the oldest until the server has taken it or refused it   *)
(* for good, and when MaxQueue would be reached it forgets the oldest.  A   *)
(* response whose answer was lost may reach the server twice.              *)
(***************************************************************************)
EXTENDS Naturals, Sequences

CONSTANT MaxQueue   \* MAX_RESPONSE_QUEUE_SIZE

VARIABLES
  accepted,  \* how many responses were taken in
  pending,   \* those still to be posted, oldest first
  posted     \* those the server received, in the order it did

outboxVars == <<accepted, pending, posted>>

(* The queue with a response more: at most MaxQueue - 1 stay, the newest. *)
Push(queue, n) ==
  LET longer == Append(queue, n)
  IN  IF Len(longer) >= MaxQueue THEN Tail(longer) ELSE longer

Init == accepted = 0 /\ pending = <<>> /\ posted = <<>>

Accept ==
  /\ accepted' = accepted + 1
  /\ pending' = Push(pending, accepted + 1)
  /\ UNCHANGED posted

(* The server takes the oldest; the task may not learn of it. *)
Post ==
  /\ pending # <<>>
  /\ posted' = Append(posted, Head(pending))
  /\ pending' \in {pending, Tail(pending)}
  /\ UNCHANGED accepted

(* The server refuses the oldest for good. *)
Discard ==
  /\ pending # <<>>
  /\ pending' = Tail(pending)
  /\ UNCHANGED <<accepted, posted>>

Next == Accept \/ Post \/ Discard

Spec == Init /\ [][Next]_outboxVars

-----------------------------------------------------------------------------

(* Responses reach the server in the order of the events they report: no     *)
(* retry lets a later one overtake, so a control is never reported started   *)
(* after it was reported completed (send_control_responses).                 *)
PostedInOrder ==
  /\ \A i, j \in DOMAIN posted : i < j => posted[i] <= posted[j]
  /\ \A i \in DOMAIN posted, j \in DOMAIN pending : posted[i] <= pending[j]

(* What that rests on: the queue is an increasing run of accepted responses. *)
QueueOrdered ==
  /\ \A j \in DOMAIN pending : pending[j] <= accepted
  /\ \A i, j \in DOMAIN pending : i < j => pending[i] < pending[j]

OutboxTypeOK == accepted \in Nat /\ pending \in Seq(Nat) /\ posted \in Seq(Nat)

OutboxInv ==
  /\ OutboxTypeOK /\ QueueOrdered /\ PostedInOrder
  /\ \A i \in DOMAIN posted : posted[i] <= accepted

=============================================================================
