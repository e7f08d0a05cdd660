SPECIFICATION Spec
CONSTANTS
  v1 = v1
  v2 = v2
  e1 = e1
  e2 = e2
  w1 = w1
  w2 = w2
  u1 = u1
  u2 = u2
  s1 = s1
  s2 = s2
  Visitors = {v1}
  Editors = {e1}
  Workspaces = {w1}
  Targets = {u1, u2}
  NoTarget = NoTarget
  MaxVisits = {}
  Patches <- EditPatches
  Slots = {}
  Workers = 0
  Faults = {}
  MaxId = 1
  ClickBound = 0
INVARIANT CacheFreshAtRest
