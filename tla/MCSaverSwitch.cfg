SPECIFICATION Spec
CONSTANTS
  p1 = p1
  p2 = p2
  c1 = c1
  l1 = l1
  l2 = l2
  NoProject = NoProject
  Projects = {p1, p2}
  Organisations = {{p1, p2}}
  CoinsOf <- OneCoin
  LocationsOf <- NoLocation
  Reconstructed = {}
  Malformed = {}
  DiskMayFail = FALSE
  MaxSavers = 2
  MaxVisits = 1
INVARIANT StartsFromNothing
