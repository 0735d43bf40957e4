--------------------------- MODULE MCFaqInflight ---------------------------
(* Two invocations compete for two slots; time ends after the lease of the   *)
(* first has expired on every clock.                                         *)
EXTENDS FaqInflight, TLC

Symmetry == Permutations(Invocation)

=============================================================================
