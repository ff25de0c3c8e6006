SPECIFICATION FairSpec
CONSTANTS
  t1 = t1
  t2 = t2
  s1 = s1
  Task = {t1, t2}
  Selected = {t1, t2}
  MaxRevision = 1
  Scheduler = {s1}
  LeaseSeconds = 1
  BatchSize = 2
  RetryBase = 1
  RetryMax = 2
  MaxNewEvents = 1
  MaxAttempts = 2
PROPERTIES EventuallySettled EventuallyQueued
