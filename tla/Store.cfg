SPECIFICATION Spec
CONSTANTS
  SEGSIZE = 2
  Sizes = {2,3}
  CellSizes = {1}
  ScavengeAbove = 0
  MarkSize = 1
  SEGMAX_INIT = 2
  SEGMAX_FACTOR = 2
  EntriesPerWord = 2
  MaxHunks = 6
  MaxMarks = 3
  MaxFiles = 2
  Obs = {o1, o2}
  None = None
SYMMETRY Symmetry
INVARIANTS TypeOK LiveHeld LiveDisjoint FreeCellsDead DiscardFinds Shape HunksDisjoint MarksRestore ArraysFit
PROPERTIES KeepsPromise LossIsKnown
