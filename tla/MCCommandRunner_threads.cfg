\* A request and a job run commands beside one language server.
SPECIFICATION FairSpec
CONSTANTS
  c1 = c1
  c2 = c2
  s1 = s1
  Callers <- TwoCallers
  Servers <- OneServer
  MaxCalls = 2
INVARIANT AnswersOwnCommand
PROPERTY CallsReturn
CHECK_DEADLOCK FALSE
