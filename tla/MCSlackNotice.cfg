\* A failure notice after a delivered answer.
CONSTANTS
  e1 = e1
  c1 = c1
  Event = {e1}
  Conversation = {c1}
  ConversationOf <- SameThread
  Worker = {w1, w2}
  NoWorker = NoWorker
  NoEvent = NoEvent
  SlackDeliveries = 1
  MaxReceiveCount = 2
  LambdaTimeout = 1
  Lease = 2
  Visibility = 4
SPECIFICATION Spec
PROPERTY NoFailureNoticeAfterAnswer
CHECK_DEADLOCK FALSE
