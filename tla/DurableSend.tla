---------------------------- MODULE DurableSend ----------------------------
(***************************************************************************)
(* What the delivery of saved notifications promises, whatever the number  *)
(* of senders and however they fail: a notification reaches LINE's user at *)
(* most once, it settles once, and it settles as accepted only if LINE     *)
(* accepted it. Only a failed one can be opened again, by an operator.     *)
(***************************************************************************)
EXTENDS Naturals

CONSTANT Ids
VARIABLES state, delivered
vars == <<state, delivered>>

TypeOK ==
  /\ state \in [Ids -> {"open", "accepted", "failed", "unknown", "cancelled"}]
  /\ delivered \in [Ids -> {0, 1}]

\* A row taken over from the earlier sender may have been delivered already.
Init ==
  /\ state = [i \in Ids |-> "open"]
  /\ delivered \in [Ids -> {0, 1}]

\* LINE delivers, in whatever state the row is: a request can outlive its sender.
Deliver(i) ==
  /\ delivered[i] = 0
  /\ delivered' = [delivered EXCEPT ![i] = 1]
  /\ UNCHANGED state

Settle(i, s) ==
  /\ state[i] = "open"
  /\ s = "accepted" => delivered[i] = 1
  /\ state' = [state EXCEPT ![i] = s]
  /\ UNCHANGED delivered

Move(S, from, to) ==
  /\ \A i \in S : state[i] = from
  /\ state' = [i \in Ids |-> IF i \in S THEN to ELSE state[i]]
  /\ UNCHANGED delivered

Next ==
  \/ \E i \in Ids : Deliver(i)
  \/ \E i \in Ids, s \in {"accepted", "failed", "unknown"} : Settle(i, s)
  \/ \E S \in SUBSET Ids : Move(S, "open", "cancelled") \/ Move(S, "failed", "open")

Spec == Init /\ [][Next]_vars
=============================================================================
