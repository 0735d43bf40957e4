--------------------------- MODULE MCRemoteClient ---------------------------
(* TLC instances of RemoteClient. *)
EXTENDS RemoteClient, TLC

CallSymmetry == Permutations(Call)
=============================================================================
