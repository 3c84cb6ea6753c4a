\* One model run that chat.abort cuts short.
SPECIFICATION Spec
CONSTANTS
  r1 = r1  r2 = r2
  Runs = {r1}
  Kinds = {"model"}
  ChanCap = 4
  Chunks = 0
  MaxTicks = 0
  HubFails = FALSE
  StoreFails = FALSE
  Breaks = FALSE
INVARIANT AbortedRunSaysSo
CHECK_DEADLOCK FALSE
