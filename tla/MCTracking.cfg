SPECIFICATION Spec
CONSTANTS
  l1 = l1
  l2 = l2
  o1 = o1
  o2 = o2
  NoFix = NoFix
  Objects = {l1, l2, o1, o2}
  Organisations = {o1, o2}
  Accuracies <- MCAccuracies
  Desired = 10
  MaxSearches = 3
INVARIANTS TypeOK TimerIsOfThisSearch OneMarkEach StopsWithTheBest
PROPERTY SearchEnds
