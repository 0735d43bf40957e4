---------------------------- MODULE MCFaqRequest ----------------------------
(* The deployments of the FAQ function and, in units of 100 ms, calls without a *)
(* timeout whose sums fall on both sides of what the handler can afford.        *)
EXTENDS FaqRequest

MCSlow == {0, 68, 69}
MCRelease == {0, 8}
MCQuick == {1}

AllDeployments == Deployment
DefaultDeployment ==
  {[smalltalk |-> "generated", transport |-> t, slots |-> FALSE, retired |-> FALSE] :
     t \in {"split", "oneshot"}}

=============================================================================
