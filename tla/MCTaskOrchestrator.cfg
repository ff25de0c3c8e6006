SPECIFICATION Spec
CONSTANTS
  d1 = d1
  d2 = d2
  v1 = v1
  v2 = v2
  k1 = k1
  k2 = k2
  None = None
  Digest = {d1, d2}
  Variant = {v1, v2}
  Key = {k1, k2}
INVARIANTS TypeOK OneLab SubmitOnce
PROPERTIES ImplementsLifecycle
CHECK_DEADLOCK FALSE
