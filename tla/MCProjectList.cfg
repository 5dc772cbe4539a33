SPECIFICATION Spec
CONSTANTS
  o1 = o1
  o2 = o2
  p1 = p1
  p2 = p2
  p3 = p3
  NoProject = NoProject
  Organisations = {o1, o2}
  Projects = {p1, p2, p3}
  Malformed = {p3}
  ProjectsOf <- MCProjectsOf
  MaxLists = 3
  MaxReports = 2
INVARIANTS TypeOK OneQuestion ChoiceIsDownloaded ListFollowsNetwork
