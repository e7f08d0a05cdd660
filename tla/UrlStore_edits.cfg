SPECIFICATION Spec
CONSTANTS
  v1 = v1
  v2 = v2
  e1 = e1
  e2 = e2
  w1 = w1
  w2 = w2
  u1 = u1
  u2 = u2
  s1 = s1
  s2 = s2
  Visitors = {v1}
  Editors = {e1, e2}
  Workspaces = {w1, w2}
  Targets = {u1, u2}
  NoTarget = NoTarget
  MaxVisits <- NegativeLimits
  Patches <- NegativePatches
  Slots = {}
  Workers = 0
  Faults = {"redis", "db"}
  MaxId = 2
  ClickBound = 0
SYMMETRY MCSymmetry
INVARIANTS StaleOnlyIfGone RedirectNeedsLive
PROPERTIES WorkspaceScoped
