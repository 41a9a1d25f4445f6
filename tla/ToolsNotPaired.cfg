SPECIFICATION Spec
CONSTANTS
  Agents = {c1, c2}
  Menus <- MCMenus
  Options = {1}
  Requests <- MCRequests
  Selectable = 1
  Voters = {v1}
  Targets = {0, 1}
  MaxCalls = 3
  MaxTime = 1
  MaxTrouble = 1
CHECK_DEADLOCK FALSE
INVARIANT NotPairedMeansUnlinked
