\* Two updates of six kinds, a window of one id, a repeated update, two lost
\* answers and a restart.  The system stops when the poller is dead and no
\* restart is left.
SPECIFICATION DFairSpec
CONSTANTS
  Messages <- MCMessages
  Users <- MCUsers
  Answer <- MCAnswer
  Limit = 3
  MaxAttempts = 2
  MaxLosses = 2
  MaxId = 2
  DedupeWindow = 1
  Throttle = TRUE
  RequireMention = TRUE
  BotKnown = TRUE
  InboundFails = TRUE
  MaxRepeats = 1
  MaxCrashes = 1
  ada = ada
  bob = bob
INVARIANTS
  DuplicatesAreIgnored
  ForgottenIsAnswered
  ChatIsInOrder
PROPERTY EveryUpdateIsProcessed
CHECK_DEADLOCK FALSE
