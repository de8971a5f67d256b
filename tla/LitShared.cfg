SPECIFICATION Spec
CHECK_DEADLOCK FALSE
CONSTANTS
    Near = 7
    Far = 9
    PoolMax = 9
    LdmMax = 7
    ShortStr = 2
    Sizes = {0, 6}
    MulSizes = {6}
    Blocks = {8}
    Tables = {4}
    Numbers = {1}
    Adcons = {"x"}
    Pairs <- OneDouble
    Strings <- TwoStrings
    Offsets = {0}
    MaxCode = 11
INVARIANT InReach
