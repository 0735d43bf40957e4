\* One event that Slack delivers twice; no symmetry, for the liveness property.
CONSTANTS
  e1 = e1
  c1 = c1
  Event = {e1}
  Conversation = {c1}
  ConversationOf <- SameThread
  Worker = {w1, w2}
  NoWorker = NoWorker
  NoEvent = NoEvent
  SlackDeliveries = 2
  MaxReceiveCount = 2
  LambdaTimeout = 1
  Lease = 2
  Visibility = 4
SPECIFICATION FairSpec
INVARIANTS
  DeliveriesDoNotOverlap
  QaLogTellsTheTruth
  OneNoticePerCopy
PROPERTIES
  NothingDroppedSilently
  PromiseKept
  QueuesDrain
\* Everything ends: the deliveries of Slack are bounded.
CHECK_DEADLOCK FALSE
