\* Two calls over either transport: answers of the POST and the stream, a repeated
\* or unasked or bad frame, exit, a broken stream, cancel, Close.
SPECIFICATION FairSpec
CONSTANTS
  q1 = q1  q2 = q2
  Reqs = {q1, q2}
  Transports = {"stdio", "sse"}
  MaxDups = 1
  BadFrames = TRUE
  Cancels = {q1}
  MayClose = TRUE
  None = None
INVARIANTS
  AnswerOnce
  SuccessIsAnswered
  ReturnedIsForgotten
PROPERTY EveryCallReturns
CONSTRAINT Scenario
CHECK_DEADLOCK FALSE
