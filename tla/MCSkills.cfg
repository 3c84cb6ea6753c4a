\* Two directories, two runs with two edits or three with one, at most two skills
\* injected; one of three names is disabled.  The system stops when all runs have.
SPECIFICATION Spec
CONSTANTS
  r1 = r1  r2 = r2  r3 = r3
  Runs = {r1, r2, r3}
  Messages <- MCMessages
  Dirs = 2
  DirName <- MCDirName
  Files <- MCFiles
  First <- MCFirst
  Enabled = TRUE
  AutoMatch = TRUE
  MaxInjected = 2
  Allowlist = {}
  Disabled = {3}
  ReadFails = TRUE
  MaxEdits = 2
INVARIANTS
  InjectedIsAllowed
  InjectedIsFresh
CONSTRAINT Scenario
SYMMETRY RunSymmetry
CHECK_DEADLOCK FALSE
