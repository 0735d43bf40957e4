SPECIFICATION Spec
CONSTANTS
  Timeout = 280
  RouterTimeout = 30
  GeneratorTimeout = 50
  JudgeTimeout = 50
  SdkMargin = 5
  ModelMax = 200
  ModelMin = 50
  Reserve = 25
  RemoteMax = 600
  GenerateFloor = 50
  LogMax = 20
  LogMargin = 8
  Slow <- MCSlow
  Release <- MCRelease
  Quick <- MCQuick
  Deployments <- AllDeployments
INVARIANTS
  OnlyJudgedTextIsPublished
  InjectionStopsAtTheRouter
  CallsAreUnderASlot
  HonestReplies
  AnsweredInTime
CHECK_DEADLOCK FALSE
