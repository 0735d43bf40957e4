\* Three deliveries of one row (two of the event source, one replay), no symmetry,
\* for the liveness property.
CONSTANTS
  Delivery = {d1, d2, d3}
  Shell = Shell
  NoOwner = NoOwner
  PutAttempts = 2
  MaxDeliveries = 2
  LambdaTimeout = 2
  CompleteReserve = 1
  SendMax = 1
  Lease = 5
  MaxSkew = 1
  MaxTime = 6
SPECIFICATION FairSpec
INVARIANTS
  OneSender
  MessagesAreAccountedFor
PROPERTIES
  FinalRowsStay
  CompletionHasItsTime
  AsyncRowIsSettled
\* Time stops at MaxTime and every delivery ends.
CHECK_DEADLOCK FALSE
