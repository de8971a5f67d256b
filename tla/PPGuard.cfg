SPECIFICATION Spec
CONSTANTS
  Letters <- MCLetters
  Programs <- MCPrograms
  Directives <- MCDirectives
  BodyLen = 0
  PasteLen = 0
  FileLen = 2
CHECK_DEADLOCK FALSE
INVARIANT GuardHarmless
