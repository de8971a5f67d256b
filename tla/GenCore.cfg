SPECIFICATION Spec
CONSTANTS
  FeatureSets = {{"core"}}
  MaxFns = 3
  MaxDepth = 5
  MaxHunks = 0
INVARIANTS NotedKept
