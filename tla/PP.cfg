SPECIFICATION FairSpec
CONSTANTS
  Letters <- MCLetters
  Programs <- MCPrograms
  Directives <- MCDirectives
  BodyLen = 3
  PasteLen = 4
  FileLen = 3
CHECK_DEADLOCK FALSE
INVARIANTS
  SleepersNest
  GuardHarmlessIfWhole
  ExpandsAsStandard
PROPERTIES
  ConditionalsHold
  Ends
