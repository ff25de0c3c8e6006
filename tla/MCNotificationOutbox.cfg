SPECIFICATION Spec
CONSTANTS
  t1 = t1
  s1 = s1
  s2 = s2
  Task = {t1}
  Selected = {t1}
  MaxRevision = 2
  Scheduler = {s1, s2}
  LeaseSeconds = 1
  BatchSize = 2
  RetryBase = 1
  RetryMax = 2
  MaxNewEvents = 1
  MaxAttempts = 2
SYMMETRY Symmetry
INVARIANTS TypeOK AckMatchesOutbox LeaseExclusive NewAtMostOnce
PROPERTIES KeepsContract
