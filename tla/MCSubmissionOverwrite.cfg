SPECIFICATION Spec
CONSTANTS
  a1 = a1
  w1 = w1
  w2 = w2
  NoFile = NoFile
  StudentFile = StudentFile
  NoEvent = NoEvent
  Assignment = {a1}
  MaxRevision = 2
  Worker = {w1, w2}
  Scenario <- Situations
PROPERTIES NeverOverwrites
