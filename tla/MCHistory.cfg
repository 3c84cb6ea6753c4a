\* Two runs share a legacy session, one of them appends without ModelContext, as the
\* tests of the Manager do; one failing write, one crash, and a client that reads pages.
\* Deadlock is checked by the other run of Sessions: here a stopped system must show up
\* as a call that never returns.
SPECIFICATION HistoryFairSpec
CONSTANTS
  r1 = r1  r2 = r2  k1 = k1  k2 = k2
  Runs = {r1, r2}
  DirectRuns = {r1}
  BlankRuns = {}
  SessionKeys = {k1}
  LegacyKeys = {k1}
  Limits = {1}
  SummaryChars <- SummaryBytes
  NoteChars <- NoteBytes
  MaxFaults = 1
  MaxRestarts = 1
  Nobody = Nobody
  NoEntry = NoEntry
  Asked = {0}
  DefaultLimit = 2
  MaxLimit = 3
  RoleFilters = {"assistant"}
PROPERTIES
  EveryCallReturns
  NewerWalkIsExact
  OlderWalkIsComplete
CHECK_DEADLOCK FALSE
