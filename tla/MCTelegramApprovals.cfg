SPECIFICATION Spec
CONSTANTS
  e1 = e1
  s1 = s1
  p1 = p1
  p2 = p2
  Event = {e1}
  Scheduler = {s1}
  Poller = {p1, p2}
  MaxUpdates = 2
SYMMETRY Symmetry
INVARIANTS TypeOK FirstPressDecides NoPressLost AnswersHold
