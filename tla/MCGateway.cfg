\* A run of any kind alone, or a model run and a tool run side by side, with a
\* tick; the hub and the store may fail, the peer of a single run may leave.
SPECIFICATION FairSpec
CONSTANTS
  r1 = r1  r2 = r2
  Runs = {r1, r2}
  Kinds = {"command", "slow", "tool", "model"}
  ChanCap = 2
  Chunks = 3
  MaxTicks = 1
  HubFails = TRUE
  StoreFails = TRUE
  Breaks = TRUE
INVARIANTS
  StreamIsFaithful
  EveryRunReports
  TranscriptFollowsChannel
  ActiveRunsAreRunning
  SequenceHasNoGaps
PROPERTY EveryRunEnds
CONSTRAINT Scenario
CHECK_DEADLOCK FALSE
