SPECIFICATION FairSpec
CONSTANTS
  c = c
  e = e
  l = l
  j1 = j1
  j2 = j2
  k1 = k1
  k2 = k2
  None = None
  Order <- TwoOrder
  Chain <- TwoChain
  Unfinished = {k2}
  NoWorkspace = {k2}
  EvidenceTTL = 1
  Soft <- Ample
  MaxClock = 1
  CrashSites <- Survived
  SoloSites <- Resumed
  MaxCrashes = 1
INVARIANTS TypeOK BarredBeforeRemoval EvidenceAfterScratch
PROPERTIES Reclaims EveryChainReclaimed WorkGoesOn
