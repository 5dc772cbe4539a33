SPECIFICATION Spec
CONSTANTS
  p1 = p1
  p2 = p2
  NoCode = NoCode
  Projects = {p1, p2}
  Percentages = {0, 2}
  MaxGames = 3
  MaxPosts = 2
INVARIANTS TypeOK CodesAreAccepted
PROPERTY StatusFollows
