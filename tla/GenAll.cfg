SPECIFICATION Spec
CONSTANTS
  FeatureSets = {{}, {"core", "build"}, {"core", "build", "debug", "template"}}
  MaxFns = 4
  MaxDepth = 5
  MaxHunks = 1
INVARIANTS TypeOK Whole MarksInOrder EachOnce MarksBalanced
PROPERTY DamageByPending
