\* One worker thread, as `run()` starts it, with one fault.
SPECIFICATION FairSpec
CONSTANTS
  w1 = w1
  w2 = w2
  p1 = p1
  s1 = s1
  None = None
  Workers <- OneWorker
  Projects <- OneProject
  Scenarios <- OneScenario
  ProjectOf <- InP1
  Blocks <- TwoBlocks
  MaxJobs = 2
  MaxFaults = 1
INVARIANTS TypeOK SignAccounted StoreFromOneJob OverlapOnlyUnguarded
PROPERTIES FinishedAnswerIsComplete SignReleased RequestsAnswered
