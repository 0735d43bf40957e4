\* Two invocations and two slots; the reserve is exactly twice the clock skew, and
\* time ends after the first lease has expired on every clock.
CONSTANTS
  Invocation = {i1, i2}
  NoOwner = NoOwner
  MaxInflight = 2
  LambdaTimeout = 4
  Reserve = 2
  MaxSkew = 1
  MaxTime = 7
SYMMETRY Symmetry
SPECIFICATION Spec
INVARIANTS
  SlotsAreExclusive
  LeasesComeBack
PROPERTIES
  WorkerKeepsItsSlot
  BusyProbedEverySlot
\* Time stops at MaxTime and every invocation ends.
CHECK_DEADLOCK FALSE
