SPECIFICATION FairSpec
CONSTANTS
  c = c
  e = e
  l = l
  j1 = j1
  j2 = j2
  k1 = k1
  k2 = k2
  None = None
  Order <- LabOrder
  Chain <- UnknownChain
  Unfinished = {}
  NoWorkspace = {}
  EvidenceTTL = 1
  Soft <- Ample
  MaxClock = 1
  CrashSites = {}
  SoloSites = {}
  MaxCrashes = 0
PROPERTIES EveryChainReclaimed
