----------------------------- MODULE ExactlyOnce -----------------------------
(***************************************************************************)
(* What the delivery of messages promises, whoever carries it out: a       *)
(* message reaches its channel at most as often as its adapter tries       *)
(* (once), and "success" is said only of a message that reached it.        *)
(***************************************************************************)
EXTENDS Integers

CONSTANTS
  Messages,  \* the messages there are
  Tries      \* how often the adapter of each may try it

VARIABLES
  arrivals,  \* how often each message reached its channel
  told       \* what the ledger says of it

Init ==
  /\ arrivals = [m \in Messages |-> 0]
  /\ told = [m \in Messages |-> "nothing"]

Post(m) ==
  /\ arrivals[m] < Tries[m]
  /\ arrivals' = [arrivals EXCEPT ![m] = @ + 1]
  /\ UNCHANGED told

Tell(m, outcome) ==
  /\ told[m] = "nothing"
  /\ outcome = "success" => arrivals[m] > 0
  /\ told' = [told EXCEPT ![m] = outcome]
  /\ UNCHANGED arrivals

Next == \E m \in Messages : Post(m) \/ \E outcome \in {"success", "failed"} : Tell(m, outcome)

Spec == Init /\ [][Next]_<<arrivals, told>>
=============================================================================
