\* One call over SSE whose stream may break.
SPECIFICATION FairSpec
CONSTANTS
  q1 = q1  q2 = q2
  Reqs = {q1, q2}
  Transports = {"sse"}
  MaxDups = 0
  BadFrames = FALSE
  Cancels = {}
  MayClose = FALSE
  None = None
PROPERTY EndedStreamFailsCalls
CHECK_DEADLOCK FALSE
