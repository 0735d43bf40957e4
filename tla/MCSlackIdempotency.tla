------------------------- MODULE MCSlackIdempotency -------------------------
(* TLC instance of SlackIdempotency. *)
EXTENDS SlackIdempotency, TLC

OwnerSymmetry == Permutations(Owner)
=============================================================================
