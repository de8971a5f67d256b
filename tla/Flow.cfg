SPECIFICATION DumpSpec
CONSTANTS
  Rets = {98, 99}
  Exits = {98, 99}
  Families = {"chains", "switches", "tails", "arms", "merged"}
  Programs <- MCPrograms
  Depth = 4
  CondMax_Ordinary = 2
  CondMax_Loop = 3
  Nests <- MCNests
INVARIANTS EmptyNotAliveElse WaysBack SameBehaviour PredecessorsExact TailsShared FlatSame LabelsOnce
PROPERTIES Finishes
CHECK_DEADLOCK FALSE
