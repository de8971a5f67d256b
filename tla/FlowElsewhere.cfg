SPECIFICATION DumpSpec
CONSTANTS
  Rets = {98, 99}
  Exits = {98, 99}
  Families = {"merged"}
  Programs <- MCPrograms
  Depth = 5
  CondMax_Ordinary = 2
  CondMax_Loop = 3
  Nests <- MCNests
INVARIANT NotReachedFromElsewhere
CHECK_DEADLOCK FALSE
