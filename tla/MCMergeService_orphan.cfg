\* The failed git command in goResolve.
SPECIFICATION Spec
CONSTANTS
  w1 = w1
  w2 = w2
  p1 = p1
  s1 = s1
  None = None
  Workers <- OneWorker
  Projects <- OneProject
  Scenarios <- OneScenario
  ProjectOf <- InP1
  Blocks <- OneBlock
  MaxJobs = 1
  MaxFaults = 0
INVARIANT NoOrphanSign
