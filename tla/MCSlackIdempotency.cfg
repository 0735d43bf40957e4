\* Three invocations race for one event; the lease exceeds the Lambda timeout
\* by exactly twice the clock skew.
CONSTANTS
  Owner = {o1, o2, o3}
  NoOwner = NoOwner
  LambdaTimeout = 1
  Lease = 3
  MaxSkew = 1
  MaxTime = 6
SYMMETRY OwnerSymmetry
SPECIFICATION Spec
INVARIANTS
  ExclusiveHolder
  DuplicateNeedsAFailure
PROPERTIES
  NoAnswerAfterPosted
\* Time stops at MaxTime and every invocation ends.
CHECK_DEADLOCK FALSE
