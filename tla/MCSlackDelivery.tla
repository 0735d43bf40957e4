--------------------------- MODULE MCSlackDelivery ---------------------------
(* TLC instances of SlackDelivery. *)
EXTENDS SlackDelivery

CONSTANTS e1, c1

\* All events belong to one thread.
SameThread == [e \in Event |-> c1]
=============================================================================
