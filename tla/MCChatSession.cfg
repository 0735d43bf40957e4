CONSTANTS
  Tab = {t1, t2}
  NoTab = NoTab
  CanAbort = {t1}
  MaxQuestions = 3
  MaxInput = 5
  QuestionChars <- MCQuestionChars
  AnswerChars = 6
  MaxContext = 2
  MaxRaw = 2
  MaxHistory = 2
  MaxChars = 3
  MaxTotal = 12
  FrameChars <- MCFrameChars
  TextKey = {a, b}
  Plans <- MCPlans
  Limits <- MCLimits
  MaxStored = 3
  Ttl = 0
  MaxDay = 1
  MaxEvents = 1
  MaxMixed = 1
  MaxMarks = 2
  RoutesEnabled = FALSE
SPECIFICATION SessionFairSpec
INVARIANTS
  HistoriesAreConversations
  ClearedStaysCleared
  OwnRequestsAreAccepted
  RecordIsTheInvocations
PROPERTIES
  BusyEnds
CHECK_DEADLOCK FALSE
