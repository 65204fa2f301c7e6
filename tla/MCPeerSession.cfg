SPECIFICATION Spec
CONSTANTS
  ChannelSize = 1
  PageSize = 2
  MaxTip = 3
  MaxChat = 1
  MaxFaults = 2
INVARIANTS
  AnswersMatch
  NoLostWakeup
PROPERTIES
  CatchesUp
CHECK_DEADLOCK FALSE
