\* Two calls over two files that can be patched, one that cannot and one that is not
\* allowed; a proposal, a crash.
\* The system stops when every call has returned.
SPECIFICATION FairSpec
CONSTANTS
  a = a  b = b
  Callers = {a, b}
  Files = {"IDENTITY.md", "USER.md", "SOUL.md", "LOG.md"}
  Spanning = {"IDENTITY.md"}
  Keys = {"name", "role"}
  Values = {"Ada", "Bob", "$1", "", "long"}
  Blank = ""
  Expand <- Expanding
  Inputs <- SomeInputs
  Initial <- OneTemplate
  Allowed = {"IDENTITY.md", "USER.md", "SOUL.md"}
  Patchable = {"IDENTITY.md", "USER.md"}
  TooLarge <- OneTooLarge
  Sessions = {"main", "group"}
  MaxProposals = 1
  MaxFaults = 1
  MaxRestarts = 1
  Nobody = Nobody
PROPERTIES
  ServesDocument
  ConfirmedOnce
  EveryCallReturns
CHECK_DEADLOCK FALSE
