---------------------------- MODULE SlackPromise ----------------------------
(***************************************************************************)
(* What the Slack agent promises about an event, without queues, leases or *)
(* retries: nothing is shown for an event that was not accepted, an answer *)
(* is recorded only when it was shown, and once it is recorded no other    *)
(* answer follows.  More than one answer may be shown before that, and     *)
(* each delivery of the event is at most once told to have failed.         *)
(***************************************************************************)
EXTENDS Naturals

CONSTANTS Event, Copy, Attempt  \* an event, its deliveries, and the attempts to answer

VARIABLES
  accepted,  \* events the agent took responsibility for
  shown,     \* answers of each event the user has seen, by attempt
  recorded,  \* events whose answer is on record
  told       \* how often the user was told that a delivery has no answer

promiseVars == <<accepted, shown, recorded, told>>

Init ==
  /\ accepted = {} /\ recorded = {}
  /\ shown = [e \in Event |-> {}]
  /\ told = [e \in Event |-> [n \in Copy |-> 0]]

Accept(e) ==
  /\ accepted' = accepted \cup {e}
  /\ UNCHANGED <<shown, recorded, told>>

Show(e) ==
  /\ e \in accepted \ recorded
  /\ \E a \in Attempt \ shown[e] : shown' = [shown EXCEPT ![e] = @ \cup {a}]
  /\ UNCHANGED <<accepted, recorded, told>>

Record(e) ==
  /\ shown[e] # {}
  /\ recorded' = recorded \cup {e}
  /\ UNCHANGED <<accepted, shown, told>>

Tell(e) ==
  /\ e \in accepted
  /\ \E n \in Copy : told[e][n] = 0 /\ told' = [told EXCEPT ![e][n] = 1]
  /\ UNCHANGED <<accepted, shown, recorded>>

Next == \E e \in Event : Accept(e) \/ Show(e) \/ Record(e) \/ Tell(e)

Spec == Init /\ [][Next]_promiseVars

=============================================================================
