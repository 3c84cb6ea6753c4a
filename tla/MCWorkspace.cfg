\* A new or an old workspace, two concurrent completers, two crashes, an edit, a failing check.
SPECIFICATION Spec
CONSTANTS
  Layout <- ShortLayout
  Bootstrap = "BOOTSTRAP.md"
  Presets <- NewAndOld
  Completers = {c1, c2}
  MaxCrashes = 2
  MaxEdits = 1
  MaxFaults = 1
INVARIANTS
  StateStaysReadable
  LayoutIsComplete
  CompletedSticks
PROPERTIES
  SeedSparesWhatItSees
  BootstrapStaysAway
CHECK_DEADLOCK FALSE
