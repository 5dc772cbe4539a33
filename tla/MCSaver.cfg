SPECIFICATION Spec
CONSTANTS
  p1 = p1
  p2 = p2
  c1 = c1
  l1 = l1
  l2 = l2
  NoProject = NoProject
  Projects = {p1, p2}
  Organisations = {{p1}, {p2}}
  CoinsOf <- OneCoin
  LocationsOf <- TwoLocations
  Reconstructed = {l1}
  Malformed = {l2}
  DiskMayFail = TRUE
  MaxSavers = 1
  MaxVisits = 0
INVARIANTS TypeOK StartsFromNothing QuietMeansComplete
