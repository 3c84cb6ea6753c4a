\* A crash between the state and the removal of BOOTSTRAP.md.
SPECIFICATION Spec
CONSTANTS
  Layout <- ShortLayout
  Bootstrap = "BOOTSTRAP.md"
  Presets <- NewAndOld
  Completers = {c1}
  MaxCrashes = 1
  MaxEdits = 0
  MaxFaults = 0
INVARIANT BootstrapIsRemoved
CHECK_DEADLOCK FALSE
