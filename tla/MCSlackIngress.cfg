\* Three posts; everything about them in every order.
CONSTANTS
  Post = {p1, p2, p3}
  NoPost = NoPost
  Wordings <- MCWordings
  Unsigned <- MCUnsigned
  MaxContextMessages = 2
  MaxMessageChars = 4
  MaxTotalChars = 7
  HistoryLimit = 2
  PageSize = 2
  MaxPages = 1
  Chars <- MCChars
SYMMETRY PostSymmetry
SPECIFICATION Spec
INVARIANTS
  OneJobPerPost
  OnlyPeopleAreAnswered
  WantedIsQueued
  GroupsAreConversations
  ContextIsTheConversation
CHECK_DEADLOCK FALSE
