SPECIFICATION Spec
CONSTANTS
  j1 = j1
  j2 = j2
  w1 = w1
  w2 = w2
  NoJob = NoJob
  Job = {j1, j2}
  Central = {}
  Imported = {j1}
  Worker = {w1, w2}
  MaxAttempts = 2
SYMMETRY Symmetry
INVARIANTS TypeOK CleanedMeansGone RecordedMeansSettled OneRecordedLab
CHECK_DEADLOCK FALSE
