SPECIFICATION GameSpec
CONSTANTS
  p1 = p1
  p2 = p2
  c1 = c1
  c2 = c2
  c3 = c3
  Projects = {p1, p2}
  Coins = {c1, c2, c3}
  CoinsOf <- MCCoinsOf
  LocationOf <- MCLocationOf
  Rank <- MCRank
  MaxTabs = 2
  MaxQuestions = 1
SYMMETRY MCSymmetry
INVARIANTS TypeOK OneCoinPerLocation ShownDiscountIsCurrent
PROPERTIES RedeemsWhatWasEarned ImplementsHunt
