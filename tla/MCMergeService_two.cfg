\* Two worker threads contend for peekMutex, one manifest and one running file.
SPECIFICATION Spec
CONSTANTS
  w1 = w1
  w2 = w2
  p1 = p1
  s1 = s1
  None = None
  Workers <- TwoWorkers
  Projects <- OneProject
  Scenarios <- OneScenario
  ProjectOf <- InP1
  Blocks <- OneBlock
  MaxJobs = 2
  MaxFaults = 1
INVARIANT RegistrationsKept
