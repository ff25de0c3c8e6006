SPECIFICATION FairSpec
CONSTANTS
  j1 = j1
  c1 = c1
  w1 = w1
  NoJob = NoJob
  Job = {j1, c1}
  Central = {c1}
  Imported = {j1}
  Worker = {w1}
  MaxAttempts = 2
PROPERTIES EventuallyFinished
CHECK_DEADLOCK FALSE
