\* Up to three servers, channels of one notification, three notifications.
SPECIFICATION FairSpec
CONSTANTS
  Configs <- MCConfigs
  Words = {"a", "b", "c", "x", "y", "shell"}
  Builtins <- MCBuiltins
  ClientCap = 1
  ManagerCap = 1
  MaxNotes = 3
INVARIANTS
  NoSendAfterClose
  EachExitLeaves
  EveryToolIsReachable
PROPERTY StartAndStopEnd
CHECK_DEADLOCK FALSE
