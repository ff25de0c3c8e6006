SPECIFICATION FairSpec
CONSTANTS
  l = l
  c = c
  w1 = w1
  w2 = w2
  None = None
  Lab = {l}
  Central = {c}
  Order <- Digests
  Worker = {w1, w2}
  MaxAttempts = 2
  Scenario <- Scenarios
INVARIANTS TypeOK SentOnce SuccessIsEarned
PROPERTIES ResultStands ReclaimedStaysGone EveryExecutionEnds EveryJobAnswered
CHECK_DEADLOCK FALSE
