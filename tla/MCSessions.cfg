\* Two sessions, one of them legacy; two runs, two failing writes, two crashes.
SPECIFICATION Spec
CONSTANTS
  r1 = r1  r2 = r2  k1 = k1  k2 = k2
  Runs = {r1, r2}
  DirectRuns = {}
  BlankRuns = {r2}
  SessionKeys = {k1, k2}
  LegacyKeys = {k1}
  Limits = {1, 2, 3}
  SummaryChars <- SummaryBytes
  NoteChars <- NoteBytes
  MaxFaults = 2
  MaxRestarts = 2
  Nobody = Nobody
  NoEntry = NoEntry
INVARIANTS
  ContextIsTail
  SummaryIsTail
  ContextInTranscriptOrder
  AckedIsRemembered
  TornLineCostsOne
  ContextLag
  NoOrphanTranscript
  AppendFindsFreshState
PROPERTY RebuildReadsAll
